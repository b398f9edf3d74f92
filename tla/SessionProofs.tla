----------------------------- MODULE SessionProofs -----------------------------
(***************************************************************************)
(* Machine-checked proofs about module BackendSession, for any pages,      *)
(* channel capacity, number of events and number of changes.               *)
(***************************************************************************)
EXTENDS BackendSession, SequenceTheorems, TLAPS

-----------------------------------------------------------------------------
(* Types.                                                                  *)

\* Append adds one element and leaves the others.
LEMMA AppendAdds ==
  ASSUME NEW S, NEW s \in Seq(S), NEW e \in S
  PROVE  /\ Append(s, e) \in Seq(S)
         /\ Len(Append(s, e)) = Len(s) + 1
         /\ \A x \in 1 .. Len(s) : Append(s, e)[x] = s[x]
         /\ Append(s, e)[Len(s) + 1] = e
         /\ Append(s, e) # <<>> /\ Len(s) \in Nat
  BY AppendProperties, LenProperties

\* Tail removes the first element.
LEMMA TailRemoves ==
  ASSUME NEW S, NEW s \in Seq(S), s # <<>>
  PROVE  /\ Tail(s) \in Seq(S)
         /\ Len(Tail(s)) = Len(s) - 1
         /\ \A x \in 1 .. Len(s) - 1 : Tail(s)[x] = s[x + 1]
         /\ Head(s) = s[1] /\ s[1] \in S
         /\ Len(s) \in Nat \ {0}
  BY HeadTailProperties, EmptySeq

\* RunCall takes one element out of the pool.
LEMMA PoolShrinks ==
  ASSUME NEW S, NEW s \in Seq(S), NEW x \in 1 .. Len(s)
  PROVE  SubSeq(s, 1, x - 1) \o SubSeq(s, x + 1, Len(s)) \in Seq(S)
<1>1. Len(s) \in Nat /\ \A y \in 1 .. Len(s) : s[y] \in S
  BY LenProperties, ElementOfSeq
<1>2. SubSeq(s, 1, x - 1) \in Seq(S)
  BY <1>1, SubSeqProperties
<1>3. SubSeq(s, x + 1, Len(s)) \in Seq(S)
  BY <1>1, SubSeqProperties
<1> QED
  BY <1>2, <1>3, ConcatProperties

LEMMA FlushedTyped == TypeOK => Flushed \in States
  BY DEF TypeOK, Flushed

LEMMA ReduceTyped ==
  ASSUME NEW state \in States, NEW n \in Nat
  PROVE  Reduce(state, n) \in States /\ Reduce(state, n).change = state.change
  BY DEF Reduce, States

LEMMA TypesInit == Init => TypeOK
<1> SUFFICES ASSUME Init PROVE TypeOK
  OBVIOUS
<1>1. value \in States
  BY DEF Init, States
<1>2. port \in Seq(Nat) /\ pool \in Seq(Flows)
  BY EmptySeq DEF Init
<1>3. /\ flow \in [Flows -> [kind : Kinds \cup {"none"}, call : Calls \cup {"none", "ended"},
                            answer : {"none", "waiting", "ok", "error"}]]
      /\ sent \in [Flows -> Nat]
  BY DEF Init
<1>4. ending = "none" <=> ~ closed
  BY DEF Init, Feed!Init
<1> QED
  BY <1>1, <1>2, <1>3, <1>4 DEF Init, TypeOK


-----------------------------------------------------------------------------
(* Events: nothing is stranded, and nothing is posted to a closed port.    *)

\* The newest event received, and the state shown or about to be shown.
Newest == IF received = <<>> THEN 0 ELSE received[Len(received)]
Latest == IF coalesced = None THEN value ELSE coalesced

\* Events are received in the order in which they were published.
ChannelOK ==
  /\ offered \in Nat /\ closed \in BOOLEAN
  /\ window \in Seq(Nat) /\ received \in Seq(Nat)
  /\ page \in Seq(Pages) /\ Len(page) = offered
  /\ \A x \in 1 .. Len(window) : Newest < window[x] /\ window[x] <= offered
  /\ \A x, y \in 1 .. Len(window) : x < y => window[x] < window[y]
  /\ \A x \in 1 .. Len(received) : received[x] \in 1 .. offered
  /\ forwarder = "posting" => received # <<>>

\* ... and handled in that order: the port holds the newer ones, and the one
\* being posted is the newest; after the close marker there is nothing.
PortOK ==
  /\ \A x \in 1 .. Len(port) :
       /\ port[x] <= Newest
       /\ port[x] = Done => forwarder = "ended" /\ x = Len(port)
       /\ forwarder = "posting" => port[x] < Newest
  /\ \A x, y \in 1 .. Len(port) : x < y => port[y] = Done \/ port[x] < port[y]

ShownOK ==
  closing = "no" =>
    \A p \in Pages :
      /\ Latest.shown[p] <= Newest
      /\ forwarder = "posting" => Latest.shown[p] < Newest
      /\ \A x \in 1 .. Len(port) : port[x] # Done => Latest.shown[p] < port[x]

\* The stream ends when the forwarder has ended, and the subscription after that
\* unless the worker has panicked.
EndsOK ==
  /\ streamDone => forwarder = "ended"
  /\ shutdown = "error" => ending = "panicked"
  /\ closing = "closed" => ending = "panicked" \/ forwarder = "ended"
  /\ stray # 0 => ending = "panicked"

SessionInv ==
  TypeOK /\ ChannelOK /\ PortOK /\ ShownOK /\ EndsOK /\ ChoicesNeverReverted /\ NothingStranded

LEMMA SessionInit == Init => SessionInv
<1> SUFFICES ASSUME Init PROVE SessionInv
  OBVIOUS
<1> USE DEF Init, Feed!Init
<1>1. TypeOK
  BY TypesInit
<1>2. ChannelOK
  <2>1. window \in Seq(Nat) /\ received \in Seq(Nat) /\ page \in Seq(Pages)
    BY EmptySeq
  <2>2. 1 .. Len(window) = {} /\ 1 .. Len(received) = {} /\ Len(page) = offered
    OBVIOUS
  <2>3. offered \in Nat /\ closed \in BOOLEAN /\ forwarder # "posting"
    OBVIOUS
  <2> HIDE DEF Init, Feed!Init
  <2> QED
    BY <2>1, <2>2, <2>3 DEF ChannelOK
<1>3. PortOK /\ ShownOK /\ EndsOK
  BY DEF PortOK, ShownOK, EndsOK, Newest, Latest
<1>4. ChoicesNeverReverted
  BY DEF ChoicesNeverReverted, Changes, Started, Flows
<1>5. NothingStranded
  BY DEF NothingStranded
<1> QED
  BY <1>1, <1>2, <1>3, <1>4, <1>5 DEF SessionInv

LEMMA WorkerKeeps ==
  ASSUME SessionInv, Worker \/ WorkerStops \/ WorkerEnds("panicked")
  PROVE  SessionInv'
<1> USE DEF SessionInv
<1>1. /\ UNCHANGED <<received, bridge, dart, chains, stopping>>
      /\ ending' = ending \/ (ending = "none" /\ ending' \in {"stopped", "panicked"})
      /\ offered' \in Nat /\ offered <= offered'
  BY DEF Worker, WorkerStops, WorkerEnds, Publish, LoseOldest, Feed!Offer, Feed!Lose, Feed!Close,
    rust, ChannelOK, TypeOK
<1>2. TypeOK'
  <2>1. CASE Worker
    BY <1>1, <2>1 DEF Worker, Publish, LoseOldest, Feed!Offer, Feed!Lose, rust, bridge, dart,
      chains, TypeOK
  <2>2. CASE WorkerStops \/ WorkerEnds("panicked")
    BY <1>1, <2>2 DEF WorkerStops, WorkerEnds, Feed!Close, bridge, dart, chains, TypeOK
  <2> QED
    BY <2>1, <2>2
<1>3. ChannelOK' /\ \A x \in 1 .. offered : page'[x] = page[x]
  <2>1. ASSUME NEW p \in Pages, Publish(p) PROVE ChannelOK' /\ \A x \in 1 .. offered : page'[x] = page[x]
    <3>1. /\ offered' = offered + 1 /\ window' = Append(window, offered + 1)
          /\ page' = Append(page, p) /\ closed' = closed
      BY <2>1 DEF Publish, Feed!Offer
    <3>2. /\ page' \in Seq(Pages) /\ Len(page') = offered'
          /\ \A x \in 1 .. offered : page'[x] = page[x]
      BY <3>1, AppendAdds DEF ChannelOK
    <3>3. /\ window' \in Seq(Nat) /\ Len(window') = Len(window) + 1 /\ Len(window) \in Nat
          /\ \A x \in 1 .. Len(window) : window'[x] = window[x]
          /\ window'[Len(window) + 1] = offered + 1
      BY <3>1, AppendAdds, LenProperties DEF ChannelOK
    <3>4. Newest' = Newest /\ Newest \in 0 .. offered
      BY <1>1, LenProperties DEF Newest, ChannelOK
    <3>5. \A x \in 1 .. Len(window') : Newest' < window'[x] /\ window'[x] <= offered'
      BY <3>1, <3>3, <3>4 DEF ChannelOK
    <3>6. \A x, y \in 1 .. Len(window') : x < y => window'[x] < window'[y]
      <4> SUFFICES ASSUME NEW x \in 1 .. Len(window'), NEW y \in 1 .. Len(window'), x < y
                   PROVE  window'[x] < window'[y]
        OBVIOUS
      <4>1. x \in 1 .. Len(window)
        BY <3>3
      <4>2. window'[x] = window[x] /\ window[x] <= offered /\ window[x] \in Nat /\ offered \in Nat
        BY <3>3, <4>1, ElementOfSeq DEF ChannelOK
      <4>3. CASE y \in 1 .. Len(window)
        <5>1. window[x] < window[y] /\ window'[y] = window[y]
          BY <3>3, <4>1, <4>3 DEF ChannelOK
        <5> QED
          BY <4>2, <5>1
      <4>4. CASE y = Len(window) + 1
        <5>1. window'[y] = offered + 1
          BY <3>3, <4>4
        <5>2. window[x] < offered + 1
          BY ONLY <4>2
        <5> QED
          BY <4>2, <5>1, <5>2
      <4>5. y \in 1 .. Len(window) + 1 /\ Len(window) \in Nat
        BY <3>3
      <4>6. y \in 1 .. Len(window) \/ y = Len(window) + 1
        BY ONLY <4>5
      <4> QED
        BY <4>3, <4>4, <4>6
    <3>7. \A x \in 1 .. Len(received') : received'[x] \in 1 .. offered'
      BY <1>1, <3>1 DEF ChannelOK, bridge
    <3>8. /\ offered' \in Nat /\ closed' \in BOOLEAN /\ received' \in Seq(Nat)
          /\ forwarder' = "posting" => received' # <<>>
      BY <1>1, <3>1 DEF ChannelOK, bridge
    <3> QED
      BY <3>2, <3>3, <3>5, <3>6, <3>7, <3>8 DEF ChannelOK
  <2>2. CASE LoseOldest
    <3>1. window' = Tail(window) /\ window # <<>> /\ UNCHANGED <<offered, closed, page>>
      BY <2>2 DEF LoseOldest, Feed!Lose
    <3>2. /\ window' \in Seq(Nat) /\ Len(window') = Len(window) - 1
          /\ \A x \in 1 .. Len(window) - 1 : window'[x] = window[x + 1]
          /\ Len(window) \in Nat
      BY <3>1, TailRemoves DEF ChannelOK
    <3> QED
      BY <1>1, <3>1, <3>2 DEF ChannelOK, Newest, bridge
  <2>3. CASE WorkerStops \/ WorkerEnds("panicked")
    BY <1>1, <2>3 DEF WorkerStops, WorkerEnds, Feed!Close, ChannelOK, Newest, bridge
  <2> QED
    BY <2>1, <2>2, <2>3 DEF Worker
<1>4. PortOK' /\ ShownOK' /\ EndsOK'
  BY <1>1 DEF PortOK, ShownOK, EndsOK, Newest, Latest, bridge, dart
<1>5. ChoicesNeverReverted'
  BY <1>1 DEF ChoicesNeverReverted, Changes, Started, dart, chains
<1>6. NothingStranded'
  <2>1. \A x \in DOMAIN received : page'[received[x]] = page[received[x]]
    BY <1>3 DEF ChannelOK
  <2> QED
    BY <1>1, <2>1 DEF NothingStranded, bridge, dart
<1> QED
  BY <1>2, <1>3, <1>4, <1>5, <1>6

LEMMA ForwarderReceivesKeeps ==
  ASSUME SessionInv, ForwarderReceives
  PROVE  SessionInv'
<1> USE DEF SessionInv
<1>1. /\ forwarder = "receiving" /\ forwarder' = "posting"
      /\ window # <<>> /\ window' = Tail(window) /\ received' = Append(received, Head(window))
      /\ UNCHANGED <<offered, closed, page, rust, port, listening, stray, dart, chains>>
  BY DEF ForwarderReceives, Feed!Receive
<1>2. TypeOK'
  BY <1>1 DEF TypeOK, rust, dart, chains
<1>3. /\ window' \in Seq(Nat) /\ Len(window') = Len(window) - 1 /\ Head(window) = window[1]
      /\ \A x \in 1 .. Len(window) - 1 : window'[x] = window[x + 1]
      /\ Len(window) \in Nat \ {0} /\ window[1] \in Nat
  BY <1>1, TailRemoves DEF ChannelOK
<1>4. /\ received' \in Seq(Nat) /\ received' # <<>>
      /\ Len(received') = Len(received) + 1 /\ Len(received) \in Nat
      /\ \A x \in 1 .. Len(received) : received'[x] = received[x]
      /\ received'[Len(received) + 1] = window[1]
  <2>1. received \in Seq(Nat) /\ received' = Append(received, window[1]) /\ window[1] \in Nat
    BY <1>1, <1>3 DEF ChannelOK
  <2>2. /\ received' \in Seq(Nat)
        /\ Len(received') = Len(received) + 1 /\ Len(received) \in Nat
        /\ \A x \in 1 .. Len(received) : received'[x] = received[x]
        /\ received'[Len(received) + 1] = window[1]
    BY ONLY <2>1, AppendAdds
  <2>3. received' # <<>>
    BY <2>2
  <2> QED
    BY <2>2, <2>3
<1>5. Newest' = window[1] /\ Newest < Newest' /\ Newest \in Nat
  BY <1>3, <1>4, ElementOfSeq DEF Newest, ChannelOK
<1>6. ChannelOK'
  <2>1. \A x \in 1 .. Len(window') : Newest' < window'[x] /\ window'[x] <= offered
    <3> SUFFICES ASSUME NEW x \in 1 .. Len(window) - 1
                 PROVE  window[1] < window[x + 1] /\ window[x + 1] <= offered
      BY <1>3, <1>5
    <3>1. x + 1 \in 1 .. Len(window) /\ 1 \in 1 .. Len(window) /\ 1 < x + 1
      BY <1>3
    <3> QED
      BY <3>1 DEF ChannelOK
  <2>2. \A x, y \in 1 .. Len(window') : x < y => window'[x] < window'[y]
    <3> SUFFICES ASSUME NEW x \in 1 .. Len(window) - 1, NEW y \in 1 .. Len(window) - 1, x < y
                 PROVE  window[x + 1] < window[y + 1]
      BY <1>3
    <3>1. x + 1 \in 1 .. Len(window) /\ y + 1 \in 1 .. Len(window) /\ x + 1 < y + 1
      BY <1>3
    <3> QED
      BY <3>1 DEF ChannelOK
  <2>3. \A x \in 1 .. Len(received') : received'[x] \in 1 .. offered
    <3>1. window[1] \in 1 .. offered
      BY <1>3, <1>5 DEF ChannelOK
    <3>2. \A x \in 1 .. Len(received) : received[x] \in 1 .. offered
      BY DEF ChannelOK
    <3>3. \A x \in 1 .. Len(received') : x \in 1 .. Len(received) \/ x = Len(received) + 1
      BY <1>4
    <3> QED
      BY <1>4, <3>1, <3>2, <3>3
  <2> QED
    BY <1>1, <1>3, <1>4, <2>1, <2>2, <2>3 DEF ChannelOK
<1>7. PortOK'
  <2>1. \A x \in 1 .. Len(port) : port[x] \in Nat /\ port[x] <= Newest /\ port[x] < Newest'
    BY <1>3, <1>5, ElementOfSeq DEF PortOK, TypeOK
  <2> QED
    BY <1>1, <2>1, <1>3, <1>5 DEF PortOK
<1>8. ShownOK'
  <2>1. ASSUME closing = "no", NEW p \in Pages
        PROVE  /\ Latest.shown[p] < Newest' /\ Latest.shown[p] <= Newest'
               /\ \A x \in 1 .. Len(port) : port[x] # Done => Latest.shown[p] < port[x]
    <3>1. Latest \in States
      BY DEF Latest, TypeOK
    <3>2. Latest.shown[p] <= Newest /\ Latest.shown[p] \in Nat
      BY <2>1, <3>1 DEF ShownOK, States
    <3> QED
      BY <1>3, <1>5, <2>1, <3>2 DEF ShownOK
  <2>2. Latest' = Latest /\ closing' = closing /\ port' = port
    BY <1>1 DEF Latest, dart
  <2> QED
    BY <2>1, <2>2 DEF ShownOK
<1>9. EndsOK' /\ ChoicesNeverReverted'
  BY <1>1 DEF EndsOK, ChoicesNeverReverted, Changes, Started, rust, dart, chains
<1>10. NothingStranded'
  BY <1>1, <1>4 DEF NothingStranded, dart
<1> QED
  BY <1>2, <1>6, <1>7, <1>8, <1>9, <1>10

LEMMA ForwarderPostsKeeps ==
  ASSUME SessionInv, ForwarderPosts
  PROVE  SessionInv'
<1> USE DEF SessionInv
<1>1. /\ forwarder = "posting" /\ received # <<>>
      /\ UNCHANGED <<channel, rust, listening, dart, chains>>
  BY DEF ForwarderPosts, ChannelOK
<1>2. /\ Newest = received[Len(received)] /\ Newest \in Nat /\ Newest # Done
      /\ Len(received) \in Nat \ {0}
  BY <1>1, LenProperties, EmptySeq DEF Newest, ChannelOK, Done
<1>3. CASE listening
  <2>1. /\ forwarder' = "receiving" /\ stray' = stray /\ port' = Append(port, Newest)
    BY <1>2, <1>3 DEF ForwarderPosts
  <2>2. /\ port' \in Seq(Nat) /\ Len(port') = Len(port) + 1 /\ Len(port) \in Nat
        /\ \A x \in 1 .. Len(port) : port'[x] = port[x] /\ port[x] \in Nat
        /\ port'[Len(port) + 1] = Newest
    BY <1>2, <2>1, AppendAdds, LenProperties, ElementOfSeq DEF TypeOK
  <2>3. TypeOK'
    BY <1>1, <2>1, <2>2 DEF TypeOK, channel, rust, dart, chains
  <2>4. ChannelOK' /\ Newest' = Newest
    BY <1>1, <2>1 DEF ChannelOK, Newest, channel
  <2>5. PortOK'
    BY <1>1, <1>2, <2>1, <2>2, <2>4 DEF PortOK
  <2>6. ShownOK'
    BY <1>1, <1>2, <2>1, <2>2, <2>4 DEF ShownOK, Latest, dart
  <2>7. EndsOK' /\ ChoicesNeverReverted'
    BY <1>1, <2>1 DEF EndsOK, ChoicesNeverReverted, Changes, Started, rust, dart, chains
  <2>8. NothingStranded'
    <3>1. port \in Seq(Nat)
      BY DEF TypeOK
    <3>2. DOMAIN port = 1 .. Len(port) /\ DOMAIN port' = 1 .. Len(port')
      BY <2>2, <3>1
    <3>3. \A x \in DOMAIN port : x \in DOMAIN port' /\ port'[x] = port[x]
      BY <2>2, <3>2
    <3>4. Len(port) + 1 \in DOMAIN port' /\ port'[Len(port) + 1] = received[Len(received)]
      BY <1>2, <2>2, <3>2
    <3> QED
      BY <1>1, <2>1, <3>3, <3>4 DEF NothingStranded, channel, dart
  <2> QED
    BY <2>3, <2>4, <2>5, <2>6, <2>7, <2>8
<1>4. CASE ~ listening
  <2>1. forwarder' = "ended" /\ stray' = stray + 1 /\ port' = port
    BY <1>4 DEF ForwarderPosts
  <2>2. closing = "closed" /\ ending = "panicked"
    BY <1>1, <1>4 DEF TypeOK, EndsOK
  <2>3. TypeOK'
    BY <1>1, <2>1 DEF TypeOK, channel, rust, dart, chains
  <2>4. ChannelOK' /\ Newest' = Newest
    BY <1>1, <2>1 DEF ChannelOK, Newest, channel
  <2>5. PortOK' /\ ShownOK'
    BY <1>1, <2>1, <2>2, <2>4 DEF PortOK, ShownOK, dart
  <2>6. EndsOK' /\ ChoicesNeverReverted'
    BY <1>1, <2>1, <2>2 DEF EndsOK, ChoicesNeverReverted, Changes, Started, rust, dart, chains
  <2>7. NothingStranded'
    BY <1>1, <2>1, <2>2 DEF NothingStranded, dart
  <2> QED
    BY <2>3, <2>4, <2>5, <2>6, <2>7
<1> QED
  BY <1>3, <1>4

LEMMA ForwarderEndsKeeps ==
  ASSUME SessionInv, ForwarderEnds
  PROVE  SessionInv'
<1> USE DEF SessionInv
<1>1. /\ forwarder = "receiving" /\ forwarder' = "ended" /\ stray' = stray
      /\ UNCHANGED <<channel, rust, listening, dart, chains>>
  BY DEF ForwarderEnds
<1>2. CASE port' = port
  BY <1>1, <1>2 DEF TypeOK, ChannelOK, PortOK, ShownOK, EndsOK, ChoicesNeverReverted,
    NothingStranded, Newest, Latest, Changes, Started, channel, rust, dart, chains
<1>3. CASE port' = Append(port, Done)
  <2>1. /\ port' \in Seq(Nat) /\ Len(port') = Len(port) + 1 /\ Len(port) \in Nat
        /\ \A x \in 1 .. Len(port) : port'[x] = port[x] /\ port[x] \in Nat
        /\ port'[Len(port) + 1] = Done
    BY <1>3, AppendAdds, LenProperties, ElementOfSeq DEF TypeOK, Done
  <2>2. TypeOK'
    BY <1>1, <2>1 DEF TypeOK, channel, rust, dart, chains
  <2>3. ChannelOK' /\ Newest' = Newest /\ Newest \in Nat
    BY <1>1, ElementOfSeq, LenProperties DEF ChannelOK, Newest, channel
  <2>4. PortOK'
    <3>1. forwarder' = "ended"
      BY <1>1
    <3>2. /\ \A x \in 1 .. Len(port) : port[x] <= Newest /\ port[x] # Done
          /\ \A x, y \in 1 .. Len(port) : x < y => port[y] = Done \/ port[x] < port[y]
      BY <1>1 DEF PortOK
    <3>3. /\ \A x \in 1 .. Len(port') : x \in 1 .. Len(port) \/ x = Len(port')
          /\ port'[Len(port')] = Done /\ Done <= Newest'
      BY <2>1, <2>3 DEF Done
    <3>4. \A x \in 1 .. Len(port') : port'[x] <= Newest' /\ (port'[x] = Done => x = Len(port'))
      BY <2>1, <2>3, <3>2, <3>3
    <3>5. ASSUME NEW x \in 1 .. Len(port'), NEW y \in 1 .. Len(port'), x < y
          PROVE  port'[y] = Done \/ port'[x] < port'[y]
      <4>1. CASE y = Len(port')
        BY <3>3, <4>1
      <4>2. CASE y \in 1 .. Len(port)
        <5>1. x \in 1 .. Len(port)
          BY <2>1, <3>5, <4>2
        <5> QED
          BY <2>1, <3>2, <3>5, <4>2, <5>1
      <4> QED
        BY <3>3, <4>1, <4>2
    <3> QED
      BY <3>1, <3>4, <3>5 DEF PortOK
  <2>5. ShownOK'
    BY <1>1, <2>1, <2>3 DEF ShownOK, Latest, dart
  <2>6. EndsOK' /\ ChoicesNeverReverted'
    BY <1>1 DEF EndsOK, ChoicesNeverReverted, Changes, Started, rust, dart, chains
  <2>7. NothingStranded'
    BY <1>1, <2>1 DEF NothingStranded, channel, dart
  <2> QED
    BY <2>2, <2>3, <2>4, <2>5, <2>6, <2>7
<1> QED
  BY <1>2, <1>3 DEF ForwarderEnds

\* What is about to be shown.
LEMMA LatestTyped ==
  ASSUME TypeOK
  PROVE  /\ Latest \in States
         /\ Flushed \in States
         /\ closing = "no" => Flushed = Latest
         /\ ChoicesNeverReverted => Flushed.change = value.change
  BY DEF TypeOK, Latest, Flushed, ChoicesNeverReverted

LEMMA NewestTyped ==
  ASSUME ChannelOK
  PROVE  /\ Newest \in 0 .. offered
         /\ \A x \in DOMAIN received : received[x] \in 1 .. offered
  <1>1. Len(received) \in Nat /\ DOMAIN received = 1 .. Len(received)
    BY LenProperties DEF ChannelOK
  <1>2. received # <<>> => Len(received) \in 1 .. Len(received)
    BY <1>1, EmptySeq DEF ChannelOK
  <1> QED
    BY <1>1, <1>2 DEF ChannelOK, Newest

\* What is about to be shown may be shown at any time; only a close marker may
\* go from the port meanwhile.
LEMMA ShowingKeeps ==
  ASSUME SessionInv, coalesced' = None, timer' = "off", value' \in States,
         closing = "no" => value'.shown = Latest.shown,
         port' = port \/ (Len(port) = 1 /\ port[1] = Done /\ port' = <<>>),
         UNCHANGED <<received, page, forwarder, closing>>
  PROVE  ShownOK' /\ NothingStranded'
<1> USE DEF SessionInv
<1>1. Latest' = value' /\ Newest' = Newest
  BY DEF Latest, Newest
<1>2. ShownOK'
  <2>1. \A x \in 1 .. Len(port') : x \in 1 .. Len(port) /\ port'[x] = port[x]
    OBVIOUS
  <2> QED
    BY <1>1, <2>1 DEF ShownOK
<1>3. NothingStranded'
  <2> SUFFICES ASSUME closing = "no", NEW p \in Pages, NEW i \in DOMAIN received, page[received[i]] = p
               PROVE  \/ value'.shown[p] >= received[i]
                      \/ forwarder = "posting" /\ i = Len(received)
                      \/ \E x \in DOMAIN port' : port'[x] = received[i]
    BY DEF NothingStranded
  <2>1. received[i] # Done
    BY NewestTyped DEF Done
  <2>2. \/ Latest.shown[p] >= received[i]
        \/ forwarder = "posting" /\ i = Len(received)
        \/ \E x \in DOMAIN port : port[x] = received[i]
    BY DEF NothingStranded, Latest
  <2>3. DOMAIN port = 1 .. Len(port)
    BY DEF TypeOK
  <2> QED
    BY <2>1, <2>2, <2>3
<1> QED
  BY <1>2, <1>3

LEMMA AcceptEventKeeps ==
  ASSUME SessionInv, AcceptEvent
  PROVE  SessionInv'
<1> USE DEF SessionInv
<1> DEFINE n == port[1]
<1>1. /\ port # <<>> /\ n # Done /\ port' = Tail(port)
      /\ UNCHANGED <<channel, rust, forwarder, listening, stray, value, streamDone, closing, shutdown, chains>>
      /\ IF closing # "no" THEN UNCHANGED <<coalesced, timer>>
         ELSE /\ coalesced' = Reduce(IF coalesced = None THEN value ELSE coalesced, n)
              /\ timer' = "on"
  BY TailRemoves DEF AcceptEvent, TypeOK
<1>2. /\ port' \in Seq(Nat) /\ Len(port') = Len(port) - 1 /\ Len(port) \in Nat \ {0}
      /\ \A x \in 1 .. Len(port) - 1 : port'[x] = port[x + 1]
      /\ n \in Nat
  BY <1>1, TailRemoves DEF TypeOK
<1>3. TypeOK'
  <2>1. coalesced' \in States \cup {None}
    <3>1. Latest \in States /\ coalesced \in States \cup {None}
      BY LatestTyped DEF TypeOK
    <3>2. Reduce(Latest, n) \in States
      BY <1>2, <3>1, ReduceTyped
    <3> QED
      BY <1>1, <3>1, <3>2 DEF Latest
  <2> QED
    BY <1>1, <1>2, <2>1 DEF TypeOK, channel, rust, chains
<1>4. ChannelOK' /\ Newest' = Newest
  BY <1>1 DEF ChannelOK, Newest, channel
<1>5. PortOK'
  <2>1. ASSUME NEW x \in 1 .. Len(port')
        PROVE  /\ port'[x] <= Newest
               /\ port'[x] = Done => forwarder = "ended" /\ x = Len(port')
               /\ forwarder = "posting" => port'[x] < Newest
    <3>1. x + 1 \in 1 .. Len(port) /\ port'[x] = port[x + 1]
      BY <1>2
    <3> QED
      BY <1>2, <3>1 DEF PortOK
  <2>2. ASSUME NEW x \in 1 .. Len(port'), NEW y \in 1 .. Len(port'), x < y
        PROVE  port'[y] = Done \/ port'[x] < port'[y]
    <3>1. /\ x + 1 \in 1 .. Len(port) /\ port'[x] = port[x + 1]
          /\ y + 1 \in 1 .. Len(port) /\ port'[y] = port[y + 1] /\ x + 1 < y + 1
      BY <1>2, <2>2
    <3> QED
      BY <3>1 DEF PortOK
  <2> QED
    BY <1>1, <1>4, <2>1, <2>2 DEF PortOK
<1>6. EndsOK'
  BY <1>1 DEF EndsOK, rust
<1>7. CASE closing # "no"
  BY <1>1, <1>3, <1>4, <1>5, <1>6, <1>7 DEF ShownOK, ChoicesNeverReverted, NothingStranded,
    Changes, Started, chains
<1>8. CASE closing = "no"
  <2>1. coalesced' = Reduce(Latest, n) /\ timer' = "on"
    BY <1>1, <1>8 DEF Latest
  <2>2. coalesced' \in States /\ coalesced' # None /\ coalesced'.change = Latest.change
    <3>1. Latest \in States
      BY LatestTyped
    <3>2. Reduce(Latest, n) \in States /\ Reduce(Latest, n).change = Latest.change
      BY <1>2, <3>1, ReduceTyped
    <3>3. None \notin States
      BY NoneAssumption DEF States
    <3> QED
      BY <2>1, <3>2, <3>3
  <2>3. Latest' = coalesced'
    BY <2>2 DEF Latest
  <2>4. n \in 1 .. Len(page) /\ page[n] \in Pages
    <3>1. n <= Newest
      <4>1. 1 \in 1 .. Len(port)
        BY <1>2
      <4> QED
        BY <4>1 DEF PortOK
    <3>2. Newest \in 0 .. offered /\ Len(page) = offered /\ offered \in Nat
      BY NewestTyped DEF ChannelOK
    <3>3. n \in 1 .. Len(page)
      BY <1>1, <1>2, <3>1, <3>2 DEF Done
    <3> QED
      BY <3>3, ElementOfSeq DEF ChannelOK
  <2>5. \A p \in Pages : Latest.shown[p] \in Nat
                         /\ coalesced'.shown[p] = IF p = page[n] THEN n ELSE Latest.shown[p]
    BY <2>1, <2>4, LatestTyped DEF Reduce, States
  <2>6. /\ n <= Newest /\ (forwarder = "posting" => n < Newest)
        /\ \A p \in Pages : Latest.shown[p] < n
    <3>1. 1 \in 1 .. Len(port)
      BY <1>2
    <3> QED
      BY <1>1, <1>8, <3>1 DEF PortOK, ShownOK
  <2>7. ShownOK'
    <3>1. ASSUME NEW p \in Pages, NEW x \in 1 .. Len(port'), port'[x] # Done
          PROVE  coalesced'.shown[p] < port'[x]
      <4>1. /\ x + 1 \in 1 .. Len(port) /\ 1 \in 1 .. Len(port) /\ 1 < x + 1
            /\ port'[x] = port[x + 1]
        BY <1>2
      <4>2. n < port'[x] /\ Latest.shown[p] < port'[x]
        BY <1>8, <3>1, <4>1 DEF PortOK, ShownOK
      <4> QED
        BY <2>5, <4>2
    <3>2. \A p \in Pages : /\ coalesced'.shown[p] <= Newest
                           /\ forwarder = "posting" => coalesced'.shown[p] < Newest
      BY <1>8, <2>5, <2>6 DEF ShownOK
    <3> QED
      BY <1>1, <1>4, <2>3, <3>1, <3>2 DEF ShownOK
  <2>8. ChoicesNeverReverted'
    BY <1>1, <2>2 DEF ChoicesNeverReverted, Changes, Started, Latest, chains
  <2>9. NothingStranded'
    <3> SUFFICES ASSUME NEW p \in Pages, NEW i \in DOMAIN received, page[received[i]] = p
                 PROVE  \/ coalesced'.shown[p] >= received[i]
                        \/ forwarder = "posting" /\ i = Len(received)
                        \/ \E x \in DOMAIN port' : port'[x] = received[i]
      BY <1>1, <2>1, <2>2 DEF NothingStranded, channel
    <3>1. \/ Latest.shown[p] >= received[i]
          \/ forwarder = "posting" /\ i = Len(received)
          \/ \E x \in DOMAIN port : port[x] = received[i]
      BY <1>8 DEF NothingStranded, Latest
    <3>2. received[i] \in Nat
      BY NewestTyped DEF ChannelOK
    <3>3. CASE Latest.shown[p] >= received[i]
      BY <1>2, <2>5, <2>6, <3>2, <3>3
    <3>4. ASSUME NEW x \in DOMAIN port, port[x] = received[i]
          PROVE  coalesced'.shown[p] >= received[i] \/ \E y \in DOMAIN port' : port'[y] = received[i]
      <4>1. x \in 1 .. Len(port)
        BY DEF TypeOK
      <4>2. CASE x = 1
        BY <2>5, <3>2, <3>4, <4>2
      <4>3. CASE x # 1
        <5>1. x - 1 \in 1 .. Len(port') /\ port'[x - 1] = port[x]
          BY <1>2, <4>1, <4>3
        <5> QED
          BY <1>2, <3>4, <5>1
      <4> QED
        BY <4>2, <4>3
    <3> QED
      BY <3>1, <3>3, <3>4
  <2> QED
    BY <1>3, <1>4, <1>5, <1>6, <2>7, <2>8, <2>9
<1> QED
  BY <1>7, <1>8

LEMMA FlushTimerKeeps ==
  ASSUME SessionInv, FlushTimer
  PROVE  SessionInv'
<1> USE DEF SessionInv
<1>1. /\ value' = Flushed /\ coalesced' = None /\ timer' = "off"
      /\ UNCHANGED <<channel, rust, bridge, streamDone, closing, shutdown, chains>>
  BY DEF FlushTimer
<1>2. value' \in States /\ value'.change = value.change /\ (closing = "no" => value'.shown = Latest.shown)
  BY <1>1, LatestTyped
<1>3. TypeOK'
  BY <1>1, <1>2 DEF TypeOK, channel, rust, bridge, chains
<1>4. ChannelOK' /\ PortOK' /\ EndsOK'
  BY <1>1 DEF ChannelOK, PortOK, EndsOK, Newest, channel, rust, bridge
<1>5. ShownOK' /\ NothingStranded'
  BY <1>1, <1>2, ShowingKeeps DEF channel, bridge
<1>6. ChoicesNeverReverted'
  BY <1>1, <1>2 DEF ChoicesNeverReverted, Changes, Started, chains
<1> QED
  BY <1>3, <1>4, <1>5, <1>6

LEMMA AcceptDoneKeeps ==
  ASSUME SessionInv, AcceptDone
  PROVE  SessionInv'
<1> USE DEF SessionInv
<1>1. /\ port # <<>> /\ port[1] = Done /\ port' = Tail(port)
      /\ streamDone' = TRUE /\ value' = Flushed
      /\ IF closing = "no" THEN coalesced' = None /\ timer' = "off" ELSE UNCHANGED <<coalesced, timer>>
      /\ UNCHANGED <<channel, rust, forwarder, listening, stray, closing, shutdown, chains>>
  BY TailRemoves DEF AcceptDone, TypeOK
<1>2. Len(port) = 1 /\ port' = <<>> /\ forwarder = "ended"
  <2>1. /\ Len(port) \in Nat \ {0} /\ Len(port') = Len(port) - 1 /\ port' \in Seq(Nat)
    BY <1>1, TailRemoves DEF TypeOK
  <2>2. Len(port) = 1 /\ forwarder = "ended"
    <3>1. 1 \in 1 .. Len(port)
      BY <2>1
    <3> QED
      BY <1>1, <3>1 DEF PortOK
  <2> QED
    BY <2>1, <2>2, EmptySeq
<1>3. value' \in States /\ value'.change = value.change /\ (closing = "no" => value'.shown = Latest.shown)
  BY <1>1, LatestTyped
<1>4. TypeOK'
  BY <1>1, <1>2, <1>3, EmptySeq DEF TypeOK, channel, rust, chains
<1>5. ChannelOK' /\ PortOK' /\ EndsOK'
  <2>1. ChannelOK' /\ EndsOK'
    BY <1>1, <1>2 DEF ChannelOK, EndsOK, Newest, channel, rust
  <2>2. 1 .. Len(port') = {}
    BY <1>2
  <2> QED
    BY <2>1, <2>2 DEF PortOK
<1>6. ShownOK' /\ NothingStranded'
  <2>1. CASE closing = "no"
    BY <1>1, <1>2, <1>3, <2>1, ShowingKeeps DEF channel
  <2>2. CASE closing # "no"
    BY <1>1, <2>2 DEF ShownOK, NothingStranded
  <2> QED
    BY <2>1, <2>2
<1>7. ChoicesNeverReverted'
  BY <1>1, <1>3 DEF ChoicesNeverReverted, Changes, Started, chains
<1> QED
  BY <1>4, <1>5, <1>6, <1>7

LEMMA ChangeKeeps ==
  ASSUME SessionInv, NEW i \in Flows, NEW k \in Kinds, Change(i, k)
  PROVE  SessionInv'
<1> USE DEF SessionInv
<1>1. /\ ~ Started(i) /\ \A j \in Flows : j < i => Started(j)
      /\ value' = [Flushed EXCEPT !.change = @ + 1] /\ coalesced' = None /\ timer' = "off"
      /\ flow' = [flow EXCEPT ![i] = [kind |-> k, call |-> FirstCall(k), answer |-> "waiting"]]
      /\ sent' = [sent EXCEPT ![i] = value'.change] /\ pool' = Append(pool, i)
      /\ UNCHANGED <<channel, rust, bridge, streamDone, closing, shutdown, overtaking>>
  BY DEF Change
<1>2. /\ value' \in States /\ value'.change = value.change + 1 /\ value.change \in Nat
      /\ (closing = "no" => value'.shown = Latest.shown)
  <2>1. Flushed \in States /\ Flushed.change = value.change /\ (closing = "no" => Flushed = Latest)
    BY LatestTyped
  <2>2. value.change \in Nat
    BY DEF TypeOK, States
  <2> QED
    BY <1>1, <2>1, <2>2 DEF States
<1>3. TypeOK'
  <2>1. pool' \in Seq(Flows) /\ sent' \in [Flows -> Nat]
    BY <1>1, <1>2, AppendAdds DEF TypeOK, States
  <2>2. flow' \in [Flows -> [kind : Kinds \cup {"none"}, call : Calls \cup {"none", "ended"},
                             answer : {"none", "waiting", "ok", "error"}]]
    BY <1>1 DEF TypeOK, FirstCall, Calls
  <2> QED
    BY <1>1, <1>2, <2>1, <2>2 DEF TypeOK, channel, rust, bridge
<1>4. ChannelOK' /\ PortOK' /\ EndsOK'
  BY <1>1 DEF ChannelOK, PortOK, EndsOK, Newest, channel, rust, bridge
<1>5. ShownOK' /\ NothingStranded'
  BY <1>1, <1>2, ShowingKeeps DEF channel, bridge
<1>6. ChoicesNeverReverted'
  <2>1. value'.change = i
    <3>1. value.change < i
      BY <1>1 DEF ChoicesNeverReverted, Changes
    <3>2. i > 1 => i - 1 <= value.change
      <4>1. i > 1 => i - 1 \in Flows /\ i - 1 < i
        BY SessionAssumption DEF Flows
      <4> QED
        BY <1>1, <4>1 DEF ChoicesNeverReverted, Changes
    <3> QED
      BY <1>2, <3>1, <3>2 DEF Flows
  <2>2. Changes' = Changes \cup {i}
    BY <1>1 DEF Changes, Started, TypeOK, Kinds
  <2>3. /\ \A j \in Changes : j <= i
        /\ \A j \in Flows \ Changes' : i < j
    BY <1>1, <2>2 DEF Changes, ChoicesNeverReverted, Flows, TypeOK, States
  <2> QED
    BY <1>1, <2>1, <2>2, <2>3 DEF ChoicesNeverReverted, Flows
<1> QED
  BY <1>3, <1>4, <1>5, <1>6

\* A step of a chain keeps its kind, and leaves the events alone or flushes them.
LEMMA ChainKeeps ==
  ASSUME SessionInv, TypeOK', UNCHANGED <<channel, stopping, ending, bridge, streamDone, closing, shutdown>>,
         \A i \in Flows : flow'[i].kind = flow[i].kind,
         \/ UNCHANGED <<value, coalesced, timer>>
         \/ value' = Flushed /\ coalesced' = None /\ timer' = "off"
  PROVE  SessionInv'
<1> USE DEF SessionInv
<1>1. ChannelOK' /\ PortOK' /\ EndsOK'
  BY DEF ChannelOK, PortOK, EndsOK, Newest, channel, bridge
<1>2. Changes' = Changes
  BY DEF Changes, Started
<1>3. CASE UNCHANGED <<value, coalesced, timer>>
  BY <1>1, <1>2, <1>3 DEF ShownOK, Latest, Newest, NothingStranded, ChoicesNeverReverted, channel, bridge
<1>4. CASE value' = Flushed /\ coalesced' = None /\ timer' = "off"
  <2>1. value' \in States /\ value'.change = value.change /\ (closing = "no" => value'.shown = Latest.shown)
    BY <1>4, LatestTyped
  <2>2. ShownOK' /\ NothingStranded'
    BY <1>4, <2>1, ShowingKeeps DEF channel, bridge
  <2>3. ChoicesNeverReverted'
    BY <1>2, <1>4, <2>1 DEF ChoicesNeverReverted
  <2> QED
    BY <1>1, <2>2, <2>3
<1> QED
  BY <1>3, <1>4

LEMMA RunCallKeeps ==
  ASSUME SessionInv, NEW x \in Runnable, NEW k \in Kinds, NEW call \in Calls, RunCall(x, k, call)
  PROVE  SessionInv'
<1> USE DEF SessionInv
<1> DEFINE i == pool[x]
<1>1. x \in 1 .. Len(pool) /\ i \in Flows
  <2>1. x \in DOMAIN pool
    BY DEF Runnable
  <2> QED
    BY <2>1 DEF TypeOK
<1>2. pool' \in Seq(Flows)
  BY <1>1, PoolShrinks DEF RunCall, TypeOK
<1>3. PICK result \in {"ok", "error"} : flow' = [flow EXCEPT ![i].answer = result]
  BY DEF RunCall
<1>4. /\ backend' \in {backend, sent[i]} /\ disk' \in {disk, sent[i]} /\ unsaved' \in BOOLEAN
      /\ UNCHANGED <<channel, stopping, ending, bridge, dart, sent>>
  BY DEF RunCall, TypeOK
<1>7. overtaking' \subseteq [call : {"options", "save"}, change : Nat]
  <2>1. sent[i] \in Nat
    BY <1>1 DEF TypeOK
  <2>2. \/ overtaking' = overtaking
        \/ /\ call \in {"options", "save"}
           /\ overtaking' = overtaking \cup {[call |-> call, change |-> sent[i]]}
    BY DEF RunCall, TakesEffect
  <2>3. overtaking \subseteq [call : {"options", "save"}, change : Nat]
    BY DEF TypeOK
  <2> QED
    BY <2>1, <2>2, <2>3
<1>5. flow' \in [Flows -> [kind : Kinds \cup {"none"}, call : Calls \cup {"none", "ended"},
                         answer : {"none", "waiting", "ok", "error"}]]
      /\ \A j \in Flows : flow'[j].kind = flow[j].kind
  <2>1. flow \in [Flows -> [kind : Kinds \cup {"none"}, call : Calls \cup {"none", "ended"},
                           answer : {"none", "waiting", "ok", "error"}]]
    BY DEF TypeOK
  <2> QED
    BY <1>1, <1>3, <2>1
<1>6. TypeOK'
  BY <1>1, <1>2, <1>4, <1>5, <1>7 DEF TypeOK, channel, bridge, dart
<1> QED
  BY <1>4, <1>5, <1>6, ChainKeeps DEF dart

\* The next call of a chain, or its end.
LEMMA ResumeKeeps ==
  ASSUME SessionInv, Resume
  PROVE  SessionInv'
<1> USE DEF SessionInv
<1>1. PICK i \in Flows :
        \/ \E k \in Kinds : ResumeAfterOptions(i, k) \/ ChainThrows(i, k) \/ ResumeAfterSave(i, k)
        \/ ResumeAfterRefresh(i)
  BY DEF Resume
<1>2. \A k \in Kinds, call \in Calls, answer \in {"none", "waiting", "ok", "error"} :
        ChainIs(i, k, call, answer) =>
          flow[i].kind = k /\ flow[i].answer = answer
  BY DEF ChainIs
<1>3. /\ \/ \E k \in Kinds, call \in Calls : flow[i].kind = k /\ CallNext(i, k, call)
         \/ \E result \in {"none", "waiting", "ok", "error"} : Finish(i, result)
      /\ UNCHANGED <<channel, rust, bridge, streamDone, closing, shutdown>>
      /\ \/ UNCHANGED <<value, coalesced, timer>>
         \/ value' = Flushed /\ coalesced' = None /\ timer' = "off"
  <2>1. ASSUME NEW k \in Kinds, ResumeAfterOptions(i, k) PROVE <1>3!:
    BY <1>2, <2>1 DEF ResumeAfterOptions, dart, Calls
  <2>2. ASSUME NEW k \in Kinds, ChainThrows(i, k) PROVE <1>3!:
    BY <1>2, <2>2 DEF ChainThrows, dart
  <2>3. ASSUME NEW k \in Kinds, ResumeAfterSave(i, k) PROVE <1>3!:
    <3>1. flow[i].kind = k /\ flow[i].answer \in {"none", "waiting", "ok", "error"}
      BY <1>2, <2>3 DEF ResumeAfterSave, Calls
    <3> QED
      BY <2>3, <3>1 DEF ResumeAfterSave, Calls
  <2>4. ASSUME ResumeAfterRefresh(i) PROVE <1>3!:
    BY <2>4 DEF ResumeAfterRefresh, dart
  <2> QED
    BY <1>1, <2>1, <2>2, <2>3, <2>4
<1>4. /\ pool' \in Seq(Flows) /\ sent' \in [Flows -> Nat] /\ overtaking' = overtaking
      /\ flow' \in [Flows -> [kind : Kinds \cup {"none"}, call : Calls \cup {"none", "ended"},
                              answer : {"none", "waiting", "ok", "error"}]]
      /\ \A j \in Flows : flow'[j].kind = flow[j].kind
  <2>1. ASSUME NEW k \in Kinds, NEW call \in Calls, flow[i].kind = k, CallNext(i, k, call)
        PROVE <1>4!:
    <3>1. pool' \in Seq(Flows)
      BY <2>1, AppendAdds DEF CallNext, TypeOK
    <3>2. value.change \in Nat
      BY DEF TypeOK, States
    <3> QED
      BY <2>1, <3>1, <3>2 DEF CallNext, TypeOK
  <2>2. ASSUME NEW result \in {"none", "waiting", "ok", "error"}, Finish(i, result) PROVE <1>4!:
    <3>1. /\ flow' = [flow EXCEPT ![i].call = "ended", ![i].answer = result]
          /\ pool' = pool /\ sent' = sent /\ overtaking' = overtaking
      BY <2>2 DEF Finish
    <3>2. /\ pool \in Seq(Flows) /\ sent \in [Flows -> Nat]
          /\ flow \in [Flows -> [kind : Kinds \cup {"none"}, call : Calls \cup {"none", "ended"},
                                 answer : {"none", "waiting", "ok", "error"}]]
      BY DEF TypeOK
    <3>3. [flow[i] EXCEPT !.call = "ended", !.answer = result]
            \in [kind : Kinds \cup {"none"}, call : Calls \cup {"none", "ended"},
                 answer : {"none", "waiting", "ok", "error"}]
      BY <1>1, <2>2, <3>2
    <3>4. flow' = [flow EXCEPT ![i] = [flow[i] EXCEPT !.call = "ended", !.answer = result]]
      BY <1>1, <3>1, <3>2
    <3>5. flow[i].kind = [flow[i] EXCEPT !.call = "ended", !.answer = result].kind
      BY <1>1, <3>2
    <3> QED
      BY <1>1, <3>1, <3>2, <3>3, <3>4, <3>5
  <2> QED
    BY <1>3, <2>1, <2>2
<1>5. value' \in States /\ coalesced' \in States \cup {None} /\ timer' \in {"on", "off"}
  BY <1>3, LatestTyped DEF TypeOK
<1>6. TypeOK'
  BY <1>3, <1>4, <1>5 DEF TypeOK, channel, rust, bridge
<1> QED
  BY <1>3, <1>4, <1>6, ChainKeeps DEF rust

LEMMA ClosingKeeps ==
  ASSUME SessionInv, Close \/ Closing
  PROVE  SessionInv'
<1> USE DEF SessionInv
<1>1. /\ UNCHANGED <<channel, ending, forwarder, stray, value, streamDone, chains>>
      /\ closing' = "no" => closing = "no" /\ UNCHANGED <<port, coalesced, timer>>
      /\ port' = port \/ port' = <<>>
      /\ (UNCHANGED <<coalesced, timer>>) \/ (coalesced' = None /\ timer' = "off")
      /\ shutdown' = "error" => ending = "panicked"
      /\ closing' = "closed" => ending = "panicked" \/ forwarder = "ended"
  <2>1. CASE Close \/ RaiseShutdown
    BY <2>1 DEF Close, RaiseShutdown, rust, bridge, dart, EndsOK
  <2>2. CASE ShutdownReturns
    BY <2>2 DEF ShutdownReturns, rust, bridge, EndsOK
  <2>3. CASE AwaitStream
    BY <2>3 DEF AwaitStream, rust, EndsOK
  <2>4. CASE CancelSubscription
    BY <2>4 DEF CancelSubscription, rust, EndsOK
  <2> QED
    BY <2>1, <2>2, <2>3, <2>4 DEF Closing
<1>2. TypeOK'
  <2> USE DEF TypeOK
  <2>1. CASE Close
    BY <2>1 DEF Close, channel, rust, bridge, chains
  <2>5. CASE RaiseShutdown
    BY <2>5 DEF RaiseShutdown, channel, bridge, dart, chains
  <2>2. CASE ShutdownReturns
    BY <2>2 DEF ShutdownReturns, channel, rust, bridge, chains
  <2>3. CASE AwaitStream
    BY <2>3, EmptySeq DEF AwaitStream, channel, rust, chains
  <2>4. CASE CancelSubscription
    BY <2>4, EmptySeq DEF CancelSubscription, channel, rust, chains
  <2> QED
    BY <2>1, <2>2, <2>3, <2>4, <2>5 DEF Closing
<1>3. ChannelOK' /\ Newest' = Newest /\ EndsOK'
  BY <1>1 DEF ChannelOK, EndsOK, Newest, channel
<1>4. PortOK'
  <2>1. CASE port' = port
    BY <1>1, <1>3, <2>1 DEF PortOK
  <2>2. CASE port' = <<>>
    <3>1. 1 .. Len(port') = {}
      BY <2>2
    <3> QED
      BY <3>1 DEF PortOK
  <2> QED
    BY <1>1, <2>1, <2>2
<1>5. ShownOK' /\ NothingStranded'
  BY <1>1, <1>3 DEF ShownOK, NothingStranded, Latest, channel
<1>6. ChoicesNeverReverted'
  BY <1>1 DEF ChoicesNeverReverted, Changes, Started, chains
<1> QED
  BY <1>2, <1>3, <1>4, <1>5, <1>6

LEMMA SessionStep == SessionInv /\ [Next]_vars => SessionInv'
<1> SUFFICES ASSUME SessionInv, [Next]_vars PROVE SessionInv'
  OBVIOUS
<1>1. CASE UNCHANGED vars
  BY <1>1 DEF vars, channel, rust, bridge, dart, chains, SessionInv, TypeOK, ChannelOK, PortOK,
    ShownOK, EndsOK, ChoicesNeverReverted, NothingStranded, Newest, Latest, Changes, Started
<1>2. CASE Forwarder \/ DartEvents
  BY <1>2, ForwarderReceivesKeeps, ForwarderPostsKeeps, ForwarderEndsKeeps, AcceptEventKeeps,
    AcceptDoneKeeps DEF Forwarder, DartEvents
<1>3. CASE PoolCalls
  BY <1>3, RunCallKeeps DEF PoolCalls
<1> QED
  BY <1>1, <1>2, <1>3, WorkerKeeps, FlushTimerKeeps, ChangeKeeps, ResumeKeeps, ClosingKeeps DEF Next

\* The state of a session is well formed.
THEOREM SessionTypes == Spec => []TypeOK
<1>1. SessionInv => TypeOK
  BY DEF SessionInv
<1> QED
  BY <1>1, SessionInit, SessionStep, PTL DEF Spec

\* Coalescing neither reverts a choice of the user nor strands an event.
THEOREM EventsReachTheScreen == Spec => []CoalescingIsSafe
<1>1. SessionInv => CoalescingIsSafe
  BY DEF SessionInv, CoalescingIsSafe
<1> QED
  BY <1>1, SessionInit, SessionStep, PTL DEF Spec

\* Nothing is posted to a closed port unless the worker has panicked.
THEOREM PortOutlivesForwarder == Spec => []NoStrayPostAfterStop
<1>1. SessionInv => NoStrayPostAfterStop
  BY DEF SessionInv, EndsOK, NoStrayPostAfterStop, NoStrayPost
<1> QED
  BY <1>1, SessionInit, SessionStep, PTL DEF Spec

-----------------------------------------------------------------------------
(* Native calls: the last choice reaches the worker and the file, and only *)
(* an older call that the pool ran late can take it back.                  *)

\* The last change is the one whose choices are shown; a call carries a change
\* no older than its own.
SentOK ==
  /\ value.change = 0 \/ value.change \in Changes
  /\ backend <= value.change /\ disk <= value.change
  /\ \A i \in Flows : sent[i] <= value.change
  /\ \A i \in Changes : i <= sent[i]

\* A call that still waits carries a change no older than the one in effect,
\* unless it was overtaken.
Waits(i, call) == flow[i].call = call /\ flow[i].answer = "waiting"

WaitingOK ==
  \A i \in Flows :
    /\ Waits(i, "options") => backend <= sent[i] \/ Overtook("options", backend)
    /\ Waits(i, "save") => disk <= sent[i] \/ Overtook("save", disk)

\* The worker has the options of a change once its call has returned, and the
\* file has it once the save has, unless the chain has failed.
PushedOK ==
  closing = "no" =>
    \A i \in Changes :
      \/ flow[i].kind = "preference"
      \/ flow[i].call = "options" /\ flow[i].answer # "ok"
      \/ flow[i].call = "ended" /\ flow[i].answer = "error"
      \/ backend >= i
      \/ Overtook("options", i)

SavedOK ==
  ~ unsaved =>
    \A i \in Changes :
      \/ flow[i].call = "options"
      \/ flow[i].call = "save" /\ flow[i].answer = "waiting"
      \/ flow[i].call = "ended" /\ flow[i].answer = "error"
      \/ disk >= i
      \/ Overtook("save", i)

EffectInv == SentOK /\ WaitingOK /\ PushedOK /\ SavedOK

LEMMA EffectInit == Init => EffectInv
<1> SUFFICES ASSUME Init PROVE EffectInv
  OBVIOUS
<1>1. Changes = {}
  BY DEF Init, Changes, Started
<1>2. \A i \in Flows : flow[i].call = "none"
  BY DEF Init
<1>3. value.change = 0 /\ backend = 0 /\ disk = 0 /\ \A i \in Flows : sent[i] = 0
  BY DEF Init
<1> QED
  BY <1>1, <1>2, <1>3 DEF EffectInv, SentOK, WaitingOK, Waits, PushedOK, SavedOK

\* What the calls rest on, all of them numbers.
LEMMA NumbersTyped ==
  ASSUME TypeOK
  PROVE  /\ backend \in Nat /\ disk \in Nat /\ value.change \in Nat
         /\ \A i \in Flows : sent[i] \in Nat /\ i \in Nat
<1>1. backend \in Nat /\ disk \in Nat /\ value.change \in Nat
  BY DEF TypeOK, States
<1>2. \A i \in Flows : sent[i] \in Nat /\ i \in Nat
  BY DEF TypeOK, Flows
<1> QED
  BY <1>1, <1>2

\* Steps that neither make a change nor touch a chain.
LEMMA EffectFrame ==
  ASSUME EffectInv, UNCHANGED <<backend, disk, unsaved, chains>>, value'.change = value.change,
         closing' = "no" => closing = "no"
  PROVE  EffectInv'
<1>1. Changes' = Changes
  BY DEF Changes, Started, chains
<1>2. \A call, i : Overtook(call, i)' <=> Overtook(call, i)
  BY DEF Overtook, chains
<1> QED
  BY <1>1, <1>2 DEF EffectInv, SentOK, WaitingOK, Waits, PushedOK, SavedOK, Overtook, chains

\* A new call carries the newest change.
LEMMA WaitingGrows ==
  ASSUME SessionInv, EffectInv, NEW i \in Flows, UNCHANGED <<backend, disk, overtaking>>,
         \A j \in Flows : j # i => flow'[j] = flow[j] /\ sent'[j] = sent[j],
         sent'[i] \in Nat, sent'[i] >= value.change
  PROVE  WaitingOK'
<1> USE DEF EffectInv, Waits, Overtook
<1>1. backend <= sent'[i] /\ disk <= sent'[i]
  BY NumbersTyped DEF SessionInv, SentOK
<1>2. overtaking' = overtaking
  OBVIOUS
<1>3. \A j \in Flows : j # i =>
        /\ Waits(j, "options")' => backend' <= sent'[j] \/ Overtook("options", backend)'
        /\ Waits(j, "save")' => disk' <= sent'[j] \/ Overtook("save", disk)'
  BY <1>2 DEF WaitingOK, Waits, Overtook
<1> QED
  BY <1>1, <1>3 DEF WaitingOK

LEMMA ChangeTakesEffect ==
  ASSUME SessionInv, EffectInv, NEW i \in Flows, NEW k \in Kinds, Change(i, k)
  PROVE  EffectInv'
<1> USE DEF EffectInv, Waits, Overtook
<1>1. /\ ~ Started(i) /\ \A j \in Flows : j < i => Started(j)
      /\ value' = [Flushed EXCEPT !.change = @ + 1]
      /\ flow' = [flow EXCEPT ![i] = [kind |-> k, call |-> FirstCall(k), answer |-> "waiting"]]
      /\ sent' = [sent EXCEPT ![i] = value'.change] /\ pool' = Append(pool, i)
      /\ UNCHANGED <<backend, disk, unsaved, closing, overtaking>>
  BY DEF Change, rust, bridge
<1>2. TypeOK /\ ChoicesNeverReverted
  BY DEF SessionInv
<1>3. value'.change = value.change + 1 /\ value.change \in Nat
  <2>1. Flushed \in States /\ Flushed.change = value.change
    BY <1>2, LatestTyped DEF SessionInv
  <2>2. value.change \in Nat
    BY <1>2, NumbersTyped
  <2> QED
    BY <1>1, <2>1, <2>2 DEF States
<1>4. /\ flow'[i] = [kind |-> k, call |-> FirstCall(k), answer |-> "waiting"]
      /\ sent'[i] = value'.change
      /\ \A j \in Flows : j # i => flow'[j] = flow[j] /\ sent'[j] = sent[j]
  BY <1>1, <1>2 DEF TypeOK
<1>5. Changes' = Changes \cup {i} /\ i \notin Changes
  BY <1>1, <1>4 DEF Changes, Started, Kinds
<1>6. value'.change = i
  <2>1. value.change < i
    BY <1>2, <1>5 DEF ChoicesNeverReverted
  <2>2. i > 1 => i - 1 <= value.change
    <3>1. i > 1 => i - 1 \in Flows /\ i - 1 < i
      BY SessionAssumption DEF Flows
    <3> QED
      BY <1>1, <1>2, <3>1 DEF ChoicesNeverReverted, Changes
  <2> QED
    BY <1>3, <2>1, <2>2 DEF Flows
<1>7. SentOK'
  <2>1. backend' <= value'.change /\ disk' <= value'.change
    BY <1>1, <1>2, <1>3, NumbersTyped DEF SentOK
  <2>2. \A j \in Flows : sent'[j] <= value'.change
    BY <1>2, <1>3, <1>4, NumbersTyped DEF SentOK
  <2>3. \A j \in Changes' : j <= sent'[j]
    <3>1. i <= sent'[i] /\ \A j \in Changes : j \in Flows /\ j # i
      BY <1>4, <1>5, <1>6 DEF Changes, Flows
    <3> QED
      BY <1>4, <1>5, <3>1 DEF SentOK
  <2> QED
    BY <1>5, <1>6, <2>1, <2>2, <2>3 DEF SentOK
<1>8. WaitingOK'
  <2>1. sent'[i] \in Nat /\ sent'[i] >= value.change
    BY <1>3, <1>4
  <2> QED
    BY <1>1, <1>4, <2>1, WaitingGrows
<1>9. FirstCall(k) \in {"options", "save"} /\ (closing = "no" /\ k # "preference" => FirstCall(k) = "options")
  BY DEF FirstCall, Attached
<1>10. PushedOK' /\ SavedOK'
  BY <1>1, <1>4, <1>5, <1>9 DEF PushedOK, SavedOK, Changes, Overtook
<1> QED
  BY <1>7, <1>8, <1>10

\* One of the calls that have overtaken others carries change n or a later one.
AnyOf(calls, call, n) == \E o \in calls : o.call = call /\ o.change >= n

\* A call that takes effect has overtaken every call of its kind that still waits
\* and carries an older change.
LEMMA EffectRemembered ==
  ASSUME NEW i \in Flows, NEW call, sent \in [Flows -> Nat], TakesEffect(i, call)
  PROVE  /\ overtaking \subseteq overtaking'
         /\ \A j \in Flows : Waits(j, call) => sent[i] <= sent[j] \/ AnyOf(overtaking', call, sent[i])
<1> USE DEF AnyOf
<1>1. overtaking \subseteq overtaking'
  BY DEF TakesEffect
<1>2. ASSUME NEW j \in Flows, Waits(j, call), ~ (sent[i] <= sent[j])
      PROVE  AnyOf(overtaking', call, sent[i])
  <2>1. sent[j] < sent[i] /\ sent[i] \in Nat
    BY <1>2
  <2>2. [call |-> call, change |-> sent[i]] \in overtaking'
    BY <1>2, <2>1 DEF TakesEffect, Waits
  <2>3. \E o \in overtaking' : o.call = call /\ o.change >= sent[i]
    BY <2>1, <2>2
  <2> QED
    BY <2>3
<1> QED
  BY <1>1, <1>2

LEMMA RunCallTakesEffect ==
  ASSUME SessionInv, EffectInv,
         NEW x \in Runnable, NEW k \in Kinds, NEW call \in Calls, RunCall(x, k, call)
  PROVE  EffectInv'
<1> USE DEF EffectInv, Waits, Overtook, AnyOf
<1> DEFINE i == pool[x]
<1>1. TypeOK /\ i \in Flows
  BY DEF SessionInv, TypeOK, Runnable
<1>2. PICK result \in {"ok", "error"} :
        /\ flow' = [flow EXCEPT ![i].answer = result]
        /\ \/ /\ result = "ok" /\ call = "save" /\ disk' = sent[i] /\ TakesEffect(i, call)
              /\ UNCHANGED <<backend, unsaved>>
           \/ /\ result = "ok" /\ call = "options" /\ backend' = sent[i] /\ TakesEffect(i, call)
              /\ UNCHANGED <<disk, unsaved>>
           \/ /\ result = "ok" => call = "refresh"
              /\ result = "error" /\ call = "save" => unsaved'
              /\ unsaved => unsaved'
              /\ UNCHANGED <<backend, disk, overtaking>>
  <2>1. CASE call = "save"
    <3>1. \/ disk' = sent[i] /\ TakesEffect(i, call) /\ flow' = [flow EXCEPT ![i].answer = "ok"]
             /\ UNCHANGED <<backend, unsaved>>
          \/ unsaved' /\ flow' = [flow EXCEPT ![i].answer = "error"]
             /\ UNCHANGED <<backend, disk, overtaking>>
      BY <2>1 DEF RunCall
    <3> QED
      BY <2>1, <3>1
  <2>2. CASE call # "save"
    BY <2>2 DEF RunCall
  <2> QED
    BY <2>1, <2>2
<1>3. /\ flow[i] = [kind |-> k, call |-> call, answer |-> "waiting"]
      /\ UNCHANGED <<dart, sent>>
  BY DEF RunCall, ChainIs
<1>4. /\ \A j \in Flows : j # i => flow'[j] = flow[j]
      /\ flow'[i].kind = k /\ flow'[i].call = call /\ flow'[i].answer = result
  <2>1. flow \in [Flows -> [kind : Kinds \cup {"none"}, call : Calls \cup {"none", "ended"},
                            answer : {"none", "waiting", "ok", "error"}]]
    BY <1>1 DEF TypeOK
  <2> QED
    BY <1>1, <1>2, <1>3, <2>1
<1>5. /\ backend \in Nat /\ disk \in Nat /\ value.change \in Nat
      /\ \A j \in Flows : j \in Nat /\ sent[j] \in Nat
  BY <1>1, NumbersTyped
<1>6. Changes' = Changes /\ i \in Changes
  BY <1>1, <1>3, <1>4 DEF Changes, Started, Kinds
<1>7. overtaking \subseteq overtaking' /\ \A j : Overtook(call, j) => Overtook(call, j)'
  BY <1>1, <1>2, EffectRemembered DEF TypeOK, Overtook
<1>8. /\ \A j : Overtook("options", j) => Overtook("options", j)'
      /\ \A j : Overtook("save", j) => Overtook("save", j)'
  BY <1>7 DEF Overtook
<1>9. \A j \in Flows : /\ Waits(j, "options")' => j # i /\ Waits(j, "options") /\ sent'[j] = sent[j]
                       /\ Waits(j, "save")' => j # i /\ Waits(j, "save") /\ sent'[j] = sent[j]
  BY <1>2, <1>3, <1>4 DEF Waits
<1>10. SentOK'
  <2>1. backend' \in {backend, sent[i]} /\ disk' \in {disk, sent[i]}
    BY <1>2
  <2>2. sent[i] <= value.change /\ value' = value
    BY <1>1, <1>3 DEF SentOK, dart
  <2> QED
    BY <1>3, <1>6, <2>1, <2>2 DEF SentOK
<1> HIDE DEF i
<1>11. CASE UNCHANGED <<backend, disk, overtaking>>
             /\ (result = "ok" => call = "refresh")
             /\ (result = "error" /\ call = "save" => unsaved')
             /\ (unsaved => unsaved')
  <2>1. WaitingOK'
    <3> SUFFICES ASSUME NEW j \in Flows
                 PROVE  /\ Waits(j, "options")' => backend' <= sent'[j] \/ Overtook("options", backend)'
                        /\ Waits(j, "save")' => disk' <= sent'[j] \/ Overtook("save", disk)'
      BY DEF WaitingOK
    <3> QED
      BY <1>3, <1>5, <1>9, <1>11 DEF WaitingOK
  <2>2. PushedOK'
    BY <1>1, <1>2, <1>3, <1>4, <1>6, <1>11 DEF PushedOK, Overtook, Changes, Calls, dart
  <2>3. SavedOK'
    BY <1>1, <1>2, <1>3, <1>4, <1>6, <1>11 DEF SavedOK, Overtook, Changes, Calls
  <2> QED
    BY <1>10, <2>1, <2>2, <2>3
<1>12. CASE /\ result = "ok" /\ call = "options" /\ backend' = sent[i] /\ TakesEffect(i, call)
            /\ UNCHANGED <<disk, unsaved>>
  <2>1. \A j \in Flows : Waits(j, "options") => sent[i] <= sent[j] \/ AnyOf(overtaking', "options", sent[i])
    BY <1>1, <1>12, EffectRemembered DEF TypeOK
  <2>2. WaitingOK'
    <3> SUFFICES ASSUME NEW j \in Flows
                 PROVE  /\ Waits(j, "options")' => sent[i] <= sent'[j] \/ AnyOf(overtaking', "options", sent[i])
                        /\ Waits(j, "save")' => disk <= sent'[j] \/ AnyOf(overtaking', "save", disk)
      BY <1>3, <1>12 DEF WaitingOK, Overtook
    <3>1. Waits(j, "options")' => sent[i] <= sent'[j] \/ AnyOf(overtaking', "options", sent[i])
      BY <1>3, <1>5, <1>9, <2>1
    <3>2. Waits(j, "save")' => disk <= sent'[j] \/ Overtook("save", disk)
      BY <1>3, <1>5, <1>9 DEF WaitingOK
    <3>3. Overtook("save", disk) => AnyOf(overtaking', "save", disk)
      BY <1>8, <1>12 DEF Overtook
    <3> QED
      BY <1>12, <3>1, <3>2, <3>3
  <2>3. PushedOK'
    <3> SUFFICES ASSUME closing = "no", NEW j \in Changes
                 PROVE  \/ flow'[j].kind = "preference"
                        \/ flow'[j].call = "options" /\ flow'[j].answer # "ok"
                        \/ flow'[j].call = "ended" /\ flow'[j].answer = "error"
                        \/ sent[i] >= j
                        \/ Overtook("options", j)'
      BY <1>3, <1>6, <1>12 DEF PushedOK, Overtook, dart
    <3>1. CASE j = i
      BY <1>1, <1>5, <1>6, <3>1 DEF SentOK
    <3>2. CASE j # i /\ backend >= j /\ ~ (sent[i] >= j)
      <4>1. Waits(i, "options") /\ j \in Nat /\ ~ (backend <= sent[i])
        BY <1>1, <1>3, <1>5, <1>12, <3>2 DEF Waits, Changes
      <4>2. Overtook("options", backend)
        BY <1>1, <4>1 DEF WaitingOK
      <4>3. PICK o \in overtaking : o.call = "options" /\ o.change >= backend
        BY <4>2 DEF Overtook
      <4>4. o.change \in Nat
        BY <1>1 DEF TypeOK
      <4>5. o \in overtaking' /\ o.call = "options" /\ o.change >= j
        BY <1>5, <1>7, <3>2, <4>1, <4>3, <4>4
      <4> QED
        BY <4>5 DEF Overtook
    <3>3. CASE j # i /\ ~ (backend >= j)
      <4>1. j \in Flows /\ flow'[j] = flow[j]
        BY <1>4, <3>3 DEF Changes
      <4>2. \/ flow[j].kind = "preference"
            \/ flow[j].call = "options" /\ flow[j].answer # "ok"
            \/ flow[j].call = "ended" /\ flow[j].answer = "error"
            \/ Overtook("options", j)
        BY <3>3 DEF PushedOK
      <4>3. Overtook("options", j) => Overtook("options", j)'
        BY <1>7 DEF Overtook
      <4> QED
        BY <4>1, <4>2, <4>3
    <3> QED
      BY <3>1, <3>2, <3>3
  <2>4. SavedOK'
    <3> SUFFICES ASSUME ~ unsaved, NEW j \in Changes
                 PROVE  \/ flow'[j].call = "options"
                        \/ flow'[j].call = "save" /\ flow'[j].answer = "waiting"
                        \/ flow'[j].call = "ended" /\ flow'[j].answer = "error"
                        \/ disk >= j
                        \/ Overtook("save", j)'
      BY <1>6, <1>12 DEF SavedOK, Overtook
    <3>1. Overtook("save", j) => Overtook("save", j)'
      BY <1>7 DEF Overtook
    <3>2. CASE j = i
      BY <1>4, <1>12, <3>2
    <3>3. CASE j # i
      BY <1>4, <3>1, <3>3 DEF SavedOK, Changes
    <3> QED
      BY <3>2, <3>3
  <2> QED
    BY <1>10, <2>2, <2>3, <2>4
<1>13. CASE /\ result = "ok" /\ call = "save" /\ disk' = sent[i] /\ TakesEffect(i, call)
            /\ UNCHANGED <<backend, unsaved>>
  <2>1. \A j \in Flows : Waits(j, "save") => sent[i] <= sent[j] \/ AnyOf(overtaking', "save", sent[i])
    BY <1>1, <1>13, EffectRemembered DEF TypeOK
  <2>2. WaitingOK'
    <3> SUFFICES ASSUME NEW j \in Flows
                 PROVE  /\ Waits(j, "options")' => backend <= sent'[j] \/ AnyOf(overtaking', "options", backend)
                        /\ Waits(j, "save")' => sent[i] <= sent'[j] \/ AnyOf(overtaking', "save", sent[i])
      BY <1>3, <1>13 DEF WaitingOK, Overtook
    <3>1. Waits(j, "save")' => sent[i] <= sent'[j] \/ AnyOf(overtaking', "save", sent[i])
      BY <1>3, <1>5, <1>9, <2>1
    <3>2. Waits(j, "options")' => backend <= sent'[j] \/ Overtook("options", backend)
      BY <1>3, <1>5, <1>9 DEF WaitingOK
    <3>3. Overtook("options", backend) => AnyOf(overtaking', "options", backend)
      BY <1>8, <1>13 DEF Overtook
    <3> QED
      BY <1>13, <3>1, <3>2, <3>3
  <2>3. SavedOK'
    <3> SUFFICES ASSUME ~ unsaved, NEW j \in Changes
                 PROVE  \/ flow'[j].call = "options"
                        \/ flow'[j].call = "save" /\ flow'[j].answer = "waiting"
                        \/ flow'[j].call = "ended" /\ flow'[j].answer = "error"
                        \/ sent[i] >= j
                        \/ Overtook("save", j)'
      BY <1>3, <1>6, <1>13 DEF SavedOK, Overtook
    <3>1. CASE j = i
      BY <1>1, <1>5, <1>6, <3>1 DEF SentOK
    <3>2. CASE j # i /\ disk >= j /\ ~ (sent[i] >= j)
      <4>1. Waits(i, "save") /\ j \in Nat /\ ~ (disk <= sent[i])
        BY <1>1, <1>3, <1>5, <1>13, <3>2 DEF Waits, Changes
      <4>2. Overtook("save", disk)
        BY <1>1, <4>1 DEF WaitingOK
      <4>3. PICK o \in overtaking : o.call = "save" /\ o.change >= disk
        BY <4>2 DEF Overtook
      <4>4. o.change \in Nat
        BY <1>1 DEF TypeOK
      <4>5. o \in overtaking' /\ o.call = "save" /\ o.change >= j
        BY <1>5, <1>7, <3>2, <4>1, <4>3, <4>4
      <4> QED
        BY <4>5 DEF Overtook
    <3>3. CASE j # i /\ ~ (disk >= j)
      <4>1. j \in Flows /\ flow'[j] = flow[j]
        BY <1>4, <3>3 DEF Changes
      <4>2. \/ flow[j].call = "options"
            \/ flow[j].call = "save" /\ flow[j].answer = "waiting"
            \/ flow[j].call = "ended" /\ flow[j].answer = "error"
            \/ Overtook("save", j)
        BY <3>3 DEF SavedOK
      <4>3. Overtook("save", j) => Overtook("save", j)'
        BY <1>7 DEF Overtook
      <4> QED
        BY <4>1, <4>2, <4>3
    <3> QED
      BY <3>1, <3>2, <3>3
  <2>4. PushedOK'
    <3> SUFFICES ASSUME closing = "no", NEW j \in Changes
                 PROVE  \/ flow'[j].kind = "preference"
                        \/ flow'[j].call = "options" /\ flow'[j].answer # "ok"
                        \/ flow'[j].call = "ended" /\ flow'[j].answer = "error"
                        \/ backend >= j
                        \/ Overtook("options", j)'
      BY <1>3, <1>6, <1>13 DEF PushedOK, Overtook, dart
    <3>1. Overtook("options", j) => Overtook("options", j)'
      BY <1>7 DEF Overtook
    <3>2. CASE j = i
      BY <1>3, <1>4, <1>13, <3>1, <3>2 DEF PushedOK
    <3>3. CASE j # i
      BY <1>4, <3>1, <3>3 DEF PushedOK, Changes
    <3> QED
      BY <3>2, <3>3
  <2> QED
    BY <1>10, <2>2, <2>3, <2>4
<1> QED
  BY <1>2, <1>11, <1>12, <1>13

\* The next call of a chain.
LEMMA CallNextTakesEffect ==
  ASSUME SessionInv, EffectInv, NEW i \in Flows, NEW k \in Kinds, NEW call \in {"save", "refresh"},
         CallNext(i, k, call), flow[i].kind = k, flow[i].answer # "waiting",
         UNCHANGED <<backend, disk, unsaved, closing>>, value'.change = value.change,
         \/ flow[i].call = "options" /\ flow[i].answer = "ok" /\ call = "save"
         \/ flow[i].call = "save" /\ call = "refresh"
  PROVE  EffectInv'
<1> USE DEF EffectInv, Waits, Overtook
<1>1. TypeOK /\ ChoicesNeverReverted
  BY DEF SessionInv
<1>2. /\ flow'[i] = [kind |-> k, call |-> call, answer |-> "waiting"]
      /\ sent'[i] = value.change /\ value.change \in Nat
      /\ pool' = Append(pool, i)
      /\ \A j \in Flows : j # i => flow'[j] = flow[j] /\ sent'[j] = sent[j]
      /\ overtaking' = overtaking
  BY <1>1, NumbersTyped DEF CallNext, TypeOK
<1>3. Changes' = Changes /\ i \in Changes
  BY <1>2 DEF Changes, Started, Kinds
<1>4. SentOK'
  <2>1. i <= value.change
    BY <1>1, <1>3 DEF ChoicesNeverReverted
  <2> QED
    BY <1>2, <1>3, <2>1 DEF SentOK, Changes
<1>5. WaitingOK'
  BY <1>2, WaitingGrows
<1>6. PushedOK' /\ SavedOK'
  BY <1>2, <1>3 DEF PushedOK, SavedOK, Changes, Overtook
<1> QED
  BY <1>4, <1>5, <1>6

\* The end of a chain.
LEMMA FinishTakesEffect ==
  ASSUME SessionInv, EffectInv, NEW i \in Flows, NEW result \in {"ok", "error"}, Finish(i, result),
         flow[i].answer \in {"ok", "error"},
         UNCHANGED <<backend, disk, unsaved, closing>>, value'.change = value.change,
         \/ result = "error"
         \/ flow[i].call \in {"save", "refresh"}
  PROVE  EffectInv'
<1> USE DEF EffectInv, Waits, Overtook
<1>1. TypeOK
  BY DEF SessionInv
<1>2. /\ flow'[i].kind = flow[i].kind /\ flow'[i].call = "ended" /\ flow'[i].answer = result
      /\ \A j \in Flows : j # i => flow'[j] = flow[j]
      /\ UNCHANGED <<sent, overtaking>>
  BY <1>1 DEF Finish, TypeOK
<1>3. Changes' = Changes
  BY <1>2 DEF Changes, Started
<1>4. SentOK'
  BY <1>2, <1>3 DEF SentOK
<1>5. WaitingOK'
  <2>1. \A j \in Flows : /\ Waits(j, "options")' => Waits(j, "options")
                         /\ Waits(j, "save")' => Waits(j, "save")
    BY <1>2 DEF Waits
  <2> QED
    BY <1>2, <2>1 DEF WaitingOK, Overtook
<1>6. PushedOK' /\ SavedOK'
  BY <1>2, <1>3 DEF PushedOK, SavedOK, Changes, Overtook
<1> QED
  BY <1>4, <1>5, <1>6

LEMMA ResumeTakesEffect ==
  ASSUME SessionInv, EffectInv, Resume
  PROVE  EffectInv'
<1>1. PICK i \in Flows :
        \/ \E k \in Kinds : ResumeAfterOptions(i, k) \/ ChainThrows(i, k) \/ ResumeAfterSave(i, k)
        \/ ResumeAfterRefresh(i)
  BY DEF Resume
<1>2. ASSUME NEW k \in Kinds, ResumeAfterOptions(i, k) PROVE EffectInv'
  BY <1>2, CallNextTakesEffect DEF ResumeAfterOptions, ChainIs, rust, dart
<1>3. ASSUME NEW k \in Kinds, ChainThrows(i, k) PROVE EffectInv'
  BY <1>3, FinishTakesEffect DEF ChainThrows, ChainIs, rust, dart
<1>4. ASSUME NEW k \in Kinds, ResumeAfterSave(i, k) PROVE EffectInv'
  <2>1. /\ flow[i].kind = k /\ flow[i].call = "save" /\ flow[i].answer \in {"ok", "error"}
        /\ value' = value \/ value' = Flushed
        /\ UNCHANGED <<backend, disk, unsaved, closing>>
        /\ CallNext(i, k, "refresh") \/ Finish(i, flow[i].answer)
    BY <1>4 DEF ResumeAfterSave, ChainIs, rust
  <2>2. value'.change = value.change
    BY <2>1, LatestTyped DEF SessionInv
  <2> QED
    BY <2>1, <2>2, CallNextTakesEffect, FinishTakesEffect
<1>5. ASSUME ResumeAfterRefresh(i) PROVE EffectInv'
  BY <1>5, FinishTakesEffect DEF ResumeAfterRefresh, ChainIs, rust, dart
<1> QED
  BY <1>1, <1>2, <1>3, <1>4, <1>5

LEMMA EffectStep ==
  ASSUME SessionInv, EffectInv, [Next]_vars
  PROVE  EffectInv'
<1>1. CASE UNCHANGED vars
  BY <1>1, EffectFrame DEF vars, rust, dart
<1>2. CASE Worker \/ WorkerStops \/ WorkerEnds("panicked")
  BY <1>2, EffectFrame DEF Worker, WorkerStops, WorkerEnds, Publish, LoseOldest, rust, dart
<1>3. CASE Forwarder
  BY <1>3, EffectFrame DEF Forwarder, ForwarderReceives, ForwarderPosts, ForwarderEnds, rust, dart
<1>4. CASE DartEvents \/ FlushTimer
  <2>1. /\ value' = value \/ value' = Flushed
        /\ UNCHANGED <<backend, disk, unsaved, chains, closing>>
    BY <1>4 DEF DartEvents, AcceptEvent, AcceptDone, FlushTimer, rust, dart
  <2>2. value'.change = value.change
    BY <2>1, LatestTyped DEF SessionInv
  <2> QED
    BY <2>1, <2>2, EffectFrame
<1>5. CASE Close \/ Closing
  BY <1>5, EffectFrame DEF Close, Closing, RaiseShutdown, ShutdownReturns, AwaitStream,
    CancelSubscription, rust, dart
<1>6. CASE PoolCalls
  BY <1>6, RunCallTakesEffect DEF PoolCalls
<1> QED
  BY <1>1, <1>2, <1>3, <1>4, <1>5, <1>6, ChangeTakesEffect, ResumeTakesEffect DEF Next

\* Once its calls have returned, the last choice of the user has reached the worker
\* and the settings file, whichever threads of the native pool run the calls, and
\* only a call that this choice has overtaken can have put an older one back
\* (selectPage, setUpdateSpeed and setUiPreferences of backend_controller.dart).
\* That this does happen is what the run session_overlap shows.
THEOREM ChoicesReachTheBackend == Spec => []ChoicesTakeEffect
<1>1. SessionInv /\ EffectInv => ChoicesTakeEffect
  <2> SUFFICES ASSUME SessionInv, EffectInv
               PROVE  OptionsAreCurrent /\ (SettingsAreSaved \/ Overtook("save", value.change))
    BY DEF ChoicesTakeEffect
  <2>1. OptionsAreCurrent
    BY DEF EffectInv, PushedOK, OptionsAreCurrent, AtRest
  <2>2. SettingsAreSaved \/ Overtook("save", value.change)
    <3>1. disk \in Nat /\ value.change \in Nat
      BY NumbersTyped DEF SessionInv
    <3> QED
      BY <3>1 DEF EffectInv, SentOK, SavedOK, SettingsAreSaved, AtRest
  <2> QED
    BY <2>1, <2>2
<1>2. SessionInv /\ EffectInv /\ [Next]_vars => (SessionInv /\ EffectInv)'
  BY EffectStep, SessionStep
<1> QED
  BY <1>1, <1>2, SessionInit, EffectInit, PTL DEF Spec
================================================================================
