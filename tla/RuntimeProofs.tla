---------------------------- MODULE RuntimeProofs ----------------------------
(***************************************************************************)
(* Machine-checked proofs about module Runtime: its type invariant and its *)
(* safety properties, for any finite set of pages, any set of callers and  *)
(* any number of calls.                                                    *)
(***************************************************************************)
EXTENDS Runtime, FiniteSetTheorems, SequenceTheorems, TLAPS

-----------------------------------------------------------------------------
(* Page queues.                                                            *)

Distinct(s) == \A i, j \in DOMAIN s : i # j => s[i] # s[j]

\* What Retain returns: a queue of the same pages without p, at most once each.
LEMMA RetainLemma ==
  ASSUME NEW s \in Seq(Pages), NEW p
  PROVE  /\ Retain(s, p) \in Seq(Pages)
         /\ \A q : InQueue(Retain(s, p), q) => InQueue(s, q)
         /\ Distinct(s) => Distinct(Retain(s, p)) /\ ~ InQueue(Retain(s, p), p)
<1>1. CASE ~ InQueue(s, p)
  BY <1>1 DEF Retain, InQueue
<1>2. CASE InQueue(s, p)
  <2> DEFINE k == CHOOSE i \in DOMAIN s : s[i] = p
             a == SubSeq(s, 1, k - 1)
             b == SubSeq(s, k + 1, Len(s))
             r == a \o b
  <2>1. k \in 1 .. Len(s) /\ s[k] = p
    BY <1>2 DEF InQueue
  <2>2. Retain(s, p) = r
    BY <1>2 DEF Retain
  <2> HIDE DEF k
  <2>3. /\ a \in Seq(Pages) /\ Len(a) = k - 1
        /\ \A i \in 1 .. k - 1 : a[i] = s[i]
    BY <2>1, SubSeqProperties
  <2>4. /\ b \in Seq(Pages) /\ Len(b) = Len(s) - k
        /\ \A i \in 1 .. Len(s) - k : b[i] = s[k + i]
    BY <2>1, SubSeqProperties
  <2> HIDE DEF a, b
  <2>5. /\ r \in Seq(Pages) /\ Len(r) = Len(s) - 1
        /\ \A i \in 1 .. Len(r) : r[i] = IF i < k THEN s[i] ELSE s[i + 1]
    <3>1. /\ r \in Seq(Pages) /\ Len(r) = Len(a) + Len(b)
          /\ \A i \in 1 .. Len(a) + Len(b) :
               r[i] = IF i <= Len(a) THEN a[i] ELSE b[i - Len(a)]
      BY <2>3, <2>4, ConcatProperties
    <3>2. Len(r) = Len(s) - 1
      BY <2>1, <2>3, <2>4, <3>1
    <3>3. ASSUME NEW i \in 1 .. Len(r)
          PROVE  r[i] = IF i < k THEN s[i] ELSE s[i + 1]
      <4>1. CASE i < k
        BY <2>1, <2>3, <2>4, <3>1, <3>2, <4>1
      <4>2. CASE i >= k
        <5>1. r[i] = b[i - (k - 1)]
          BY <2>1, <2>3, <2>4, <3>1, <3>2, <4>2
        <5>2. i - (k - 1) \in 1 .. Len(s) - k
          BY <2>1, <3>2, <4>2
        <5>3. b[i - (k - 1)] = s[k + (i - (k - 1))]
          BY <2>4, <5>2
        <5>4. k + (i - (k - 1)) = i + 1
          BY <2>1
        <5> QED BY <2>1, <4>2, <5>1, <5>3, <5>4
      <4> QED BY <2>1, <4>1, <4>2
    <3> QED BY <3>1, <3>2, <3>3
  <2> HIDE DEF r
  <2>6. \A q : InQueue(r, q) => InQueue(s, q)
    BY <2>1, <2>5 DEF InQueue
  <2>7. ASSUME Distinct(s)
        PROVE  Distinct(r) /\ ~ InQueue(r, p)
    <3>1. DOMAIN s = 1 .. Len(s) /\ DOMAIN r = 1 .. Len(s) - 1
      BY <2>5
    <3>2. \A i \in 1 .. Len(s) - 1 : r[i] = IF i < k THEN s[i] ELSE s[i + 1]
      BY <2>5, <3>1
    <3>3. \A i, j \in 1 .. Len(s) : i # j => s[i] # s[j]
      BY <2>7, <3>1 DEF Distinct
    <3>4. Distinct(r)
      BY <2>1, <3>1, <3>2, <3>3 DEF Distinct
    <3>5. ~ InQueue(r, p)
      BY <2>1, <3>1, <3>2, <3>3 DEF InQueue
    <3> QED BY <3>4, <3>5
  <2> QED
    BY <2>2, <2>5, <2>6, <2>7
<1> QED
  BY <1>1, <1>2

\* What Enqueue returns; the front of a queue that is not empty stays.
LEMMA EnqueueLemma ==
  ASSUME NEW s \in Seq(Pages), NEW p \in Pages
  PROVE  /\ Enqueue(s, p) \in Seq(Pages)
         /\ \A q : InQueue(Enqueue(s, p), q) <=> InQueue(s, q) \/ q = p
         /\ Distinct(s) => Distinct(Enqueue(s, p))
         /\ s # <<>> => Enqueue(s, p) # <<>> /\ Head(Enqueue(s, p)) = Head(s)
<1>1. CASE InQueue(s, p)
  BY <1>1 DEF Enqueue, InQueue
<1>2. CASE ~ InQueue(s, p)
  <2>1. Enqueue(s, p) = Append(s, p)
    BY <1>2 DEF Enqueue
  <2>2. \A q : InQueue(Append(s, p), q) <=> InQueue(s, q) \/ q = p
    <3> TAKE q
    <3>1. ASSUME InQueue(s, q) PROVE InQueue(Append(s, p), q)
      BY <3>1 DEF InQueue
    <3>2. ASSUME q = p PROVE InQueue(Append(s, p), q)
      <4>1. Len(s) + 1 \in DOMAIN Append(s, p) /\ Append(s, p)[Len(s) + 1] = p
        OBVIOUS
      <4> QED BY <4>1, <3>2 DEF InQueue
    <3>3. ASSUME InQueue(Append(s, p), q) PROVE InQueue(s, q) \/ q = p
      BY <3>3 DEF InQueue
    <3> QED BY <3>1, <3>2, <3>3
  <2>3. Distinct(s) => Distinct(Append(s, p))
    BY <1>2 DEF Distinct, InQueue
  <2>4. s # <<>> => Append(s, p) # <<>> /\ Head(Append(s, p)) = Head(s)
    OBVIOUS
  <2> QED BY <2>1, <2>2, <2>3, <2>4
<1> QED BY <1>1, <1>2

\* What Promote returns: p in front of the rest.
LEMMA PromoteLemma ==
  ASSUME NEW s \in Seq(Pages), NEW p \in Pages
  PROVE  /\ Promote(s, p) \in Seq(Pages)
         /\ \A q : InQueue(Promote(s, p), q) => InQueue(s, q) \/ q = p
         /\ Distinct(s) => Distinct(Promote(s, p))
         /\ Promote(s, p) # <<>> /\ Head(Promote(s, p)) = p
<1> DEFINE r == Retain(s, p)
           t == <<p>> \o r
<1>1. r \in Seq(Pages)
  BY RetainLemma
<1>2. (\A q : InQueue(r, q) => InQueue(s, q)) /\ (Distinct(s) => Distinct(r) /\ ~ InQueue(r, p))
  BY RetainLemma
<1> HIDE DEF r
<1>3. /\ t \in Seq(Pages) /\ Len(t) = Len(r) + 1 /\ t[1] = p
      /\ \A i \in 2 .. Len(t) : t[i] = r[i - 1]
  BY <1>1, ConcatProperties
<1>4. Promote(s, p) = t
  BY DEF Promote, r
<1> HIDE DEF t
<1>8. DOMAIN t = 1 .. Len(r) + 1 /\ DOMAIN r = 1 .. Len(r) /\ Len(r) \in Nat
  BY <1>1, <1>3
<1>9. \A i \in DOMAIN t : i # 1 => i - 1 \in DOMAIN r /\ t[i] = r[i - 1]
  BY <1>3, <1>8
<1>5. \A q : InQueue(t, q) => InQueue(s, q) \/ q = p
  <2>1. \A q : InQueue(t, q) => InQueue(r, q) \/ q = p
    BY <1>3, <1>9 DEF InQueue
  <2> QED BY <1>2, <2>1
<1>6. Distinct(s) => Distinct(t)
  <2>1. ASSUME Distinct(r), ~ InQueue(r, p) PROVE Distinct(t)
    <3> SUFFICES ASSUME NEW i \in DOMAIN t, NEW j \in DOMAIN t, i # j, t[i] = t[j]
                 PROVE  FALSE
      BY DEF Distinct
    <3>1. CASE i # 1 /\ j # 1
      <4>1. i - 1 # j - 1
        BY <1>8
      <4> QED BY <1>9, <2>1, <3>1, <4>1 DEF Distinct
    <3>2. CASE i = 1 \/ j = 1
      BY <1>3, <1>9, <2>1, <3>2 DEF InQueue
    <3> QED BY <3>1, <3>2
  <2> QED BY <1>2, <2>1
<1>7. t # <<>> /\ Head(t) = p
  BY <1>3
<1> QED BY <1>3, <1>4, <1>5, <1>6, <1>7

\* The ordered sequences of a set of pages hold its pages, once each.
LEMMA OrderedLemma ==
  ASSUME NEW S \in SUBSET Pages, NEW t \in Ordered(S)
  PROVE  /\ t \in Seq(Pages)
         /\ \A q : InQueue(t, q) => q \in S
         /\ Distinct(t)
<1>1. Cardinality(S) \in Nat
  BY RuntimeAssumption, FS_Subset, FS_CardinalityType
<1>2. t \in [1 .. Cardinality(S) -> S]
  BY DEF Ordered
<1>3. t \in Seq(S) /\ DOMAIN t = 1 .. Cardinality(S)
  BY <1>1, <1>2
<1>4. t \in Seq(Pages)
  BY <1>3, SeqMonotonic
<1>5. \A q : InQueue(t, q) => q \in S
  BY <1>2 DEF InQueue
<1>6. Distinct(t)
  <2> SUFFICES ASSUME NEW i \in DOMAIN t, NEW j \in DOMAIN t, i # j
               PROVE  t[i] # t[j]
    BY DEF Distinct
  <2>1. Rank[t[i]] \in Nat /\ Rank[t[j]] \in Nat
    BY <1>2, <1>3, RuntimeAssumption
  <2>2. Rank[t[i]] < Rank[t[j]] \/ Rank[t[j]] < Rank[t[i]]
    BY <1>1, <1>3 DEF Ordered
  <2> QED BY <2>1, <2>2
<1> QED BY <1>4, <1>5, <1>6

\* Appending a queue of other pages keeps the front and the pages distinct.
LEMMA ConcatLemma ==
  ASSUME NEW s \in Seq(Pages), NEW t \in Seq(Pages)
  PROVE  /\ s \o t \in Seq(Pages)
         /\ \A q : InQueue(s \o t, q) => InQueue(s, q) \/ InQueue(t, q)
         /\ Distinct(s) /\ Distinct(t) /\ (\A q : ~ (InQueue(s, q) /\ InQueue(t, q)))
              => Distinct(s \o t)
         /\ s # <<>> => s \o t # <<>> /\ Head(s \o t) = Head(s)
<1> DEFINE r == s \o t
<1>1. /\ r \in Seq(Pages) /\ Len(r) = Len(s) + Len(t)
      /\ \A i \in 1 .. Len(s) + Len(t) : r[i] = IF i <= Len(s) THEN s[i] ELSE t[i - Len(s)]
  BY ConcatProperties
<1> HIDE DEF r
<1>2. \A q : InQueue(r, q) => InQueue(s, q) \/ InQueue(t, q)
  BY <1>1 DEF InQueue
<1>3. ASSUME Distinct(s), Distinct(t), \A q : ~ (InQueue(s, q) /\ InQueue(t, q))
      PROVE  Distinct(r)
  <2>1. /\ DOMAIN s = 1 .. Len(s) /\ Len(s) \in Nat
        /\ DOMAIN t = 1 .. Len(t) /\ Len(t) \in Nat
        /\ DOMAIN r = 1 .. Len(s) + Len(t)
    BY <1>1
  <2>2. ASSUME NEW i \in DOMAIN r
        PROVE  \/ i \in DOMAIN s /\ r[i] = s[i]
               \/ i - Len(s) \in DOMAIN t /\ r[i] = t[i - Len(s)]
    BY <1>1, <2>1
  <2> SUFFICES ASSUME NEW i \in DOMAIN r, NEW j \in DOMAIN r, i # j, r[i] = r[j]
               PROVE  FALSE
    BY DEF Distinct
  <2>3. CASE i \in DOMAIN s /\ r[i] = s[i] /\ j \in DOMAIN s /\ r[j] = s[j]
    BY <1>3, <2>3 DEF Distinct
  <2>4. CASE /\ i - Len(s) \in DOMAIN t /\ r[i] = t[i - Len(s)]
             /\ j - Len(s) \in DOMAIN t /\ r[j] = t[j - Len(s)]
    <3>1. i - Len(s) # j - Len(s)
      BY <2>1
    <3> QED BY <1>3, <2>4, <3>1 DEF Distinct
  <2>5. CASE /\ i \in DOMAIN s /\ r[i] = s[i]
             /\ j - Len(s) \in DOMAIN t /\ r[j] = t[j - Len(s)]
    BY <1>3, <2>5 DEF InQueue
  <2>6. CASE /\ i - Len(s) \in DOMAIN t /\ r[i] = t[i - Len(s)]
             /\ j \in DOMAIN s /\ r[j] = s[j]
    BY <1>3, <2>6 DEF InQueue
  <2> QED BY <2>2, <2>3, <2>4, <2>5, <2>6
<1>4. s # <<>> => r # <<>> /\ Head(r) = Head(s)
  BY <1>1
<1> QED BY <1>1, <1>2, <1>3, <1>4 DEF r

-----------------------------------------------------------------------------
(* The type invariant.                                                     *)

\* apply_pending_requests, without shutdown, keeps the queues queues of pages.
LEMMA ApplyTypes ==
  ASSUME TypeOK, ~ pending.shutdown, ApplyPendingRequests
  PROVE  options' \in Options /\ scheduled' \in Seq(Pages) /\ prewarm' \in SUBSET Pages
<1> DEFINE now == IF pending.options = None THEN options ELSE pending.options
           first == RequestedFirst(ActivatedSchedule(pending.options), pending.pages, now.active)
<1>1. now \in Options /\ now.active \in Pages
  BY DEF TypeOK, Options
<1>2. ActivatedSchedule(pending.options) \in Seq(Pages)
  <2>1. CASE Activates(pending.options)
    <3>1. pending.options.active \in Pages
      BY <2>1 DEF TypeOK, Options, Activates
    <3>2. Promote(scheduled, pending.options.active) \in Seq(Pages)
      BY <3>1, PromoteLemma DEF TypeOK
    <3> QED BY <2>1, <3>2, EnqueueLemma, RuntimeAssumption DEF ActivatedSchedule
  <2>2. CASE ~ Activates(pending.options)
    BY <2>2 DEF ActivatedSchedule, TypeOK
  <2> QED BY <2>1, <2>2
<1>3. first \in Seq(Pages)
  BY <1>1, <1>2, PromoteLemma, EnqueueLemma, RuntimeAssumption DEF RequestedFirst
<1>4. PICK rest \in Ordered(Unqueued(first, pending.pages)) : scheduled' = first \o rest
  BY DEF ApplyPendingRequests
<1>5. rest \in Seq(Pages)
  <2>1. Unqueued(first, pending.pages) \in SUBSET Pages
    BY DEF Unqueued, TypeOK
  <2> QED BY <1>4, <2>1, OrderedLemma
<1>6. scheduled' \in Seq(Pages)
  BY <1>3, <1>4, <1>5, ConcatLemma
<1>7. options' = now /\ prewarm' = ActivatedPrewarm(pending.options) \ pending.pages
  BY DEF ApplyPendingRequests
<1> QED BY <1>1, <1>6, <1>7 DEF ActivatedPrewarm, TypeOK

LEMMA InitType == Init => TypeOK
<1> SUFFICES ASSUME Init PROVE TypeOK
  OBVIOUS
<1>1. scheduled \in Seq(Pages)
  <2>1. <<options.active>> \in Seq(Pages)
    BY DEF Init, Options
  <2> QED BY <2>1, EnqueueLemma, RuntimeAssumption DEF Init
<1> QED BY <1>1, RuntimeAssumption DEF Init, TypeOK, Unqueued, WorkerStates

\* What every call changes when it begins keeps its type.
LEMMA BeginCallTypes ==
  ASSUME TypeOK, NEW c \in Clients, NEW next \in {"idle", "notify", "await", "signal"},
         NEW result \in {"none", "ok", "stopped", "busy"},
         BeginCall(c, next, result)
  PROVE  /\ worker' \in WorkerStates
         /\ options' \in Options
         /\ scheduled' \in Seq(Pages)
         /\ prewarm' \in SUBSET Pages
         /\ sampling' \in Pages \cup {None}
         /\ executing' \in Clients \cup {None}
         /\ panicked' \in BOOLEAN
         /\ client' \in [Clients -> {"idle", "notify", "await", "signal", "join"}]
         /\ reply' \in [Clients -> {"none", "result", "lost"}]
         /\ outcome' \in [Clients -> {"none", "ok", "stopped", "busy", "result", "lost",
                                      "panicked"}]
         /\ calls' \in [Clients -> Nat]
         /\ unshown' \in BOOLEAN
         /\ overtaken' \in [operation : Nat, wake : Nat]
         /\ runs' \in [Clients -> Nat]
<1>1. calls[c] - 1 \in Nat
  BY DEF BeginCall, TypeOK
<1>2. calls' = [calls EXCEPT ![c] = calls[c] - 1]
  BY DEF BeginCall
<1>3. calls' \in [Clients -> Nat]
  BY <1>1, <1>2 DEF TypeOK
<1> QED BY <1>3 DEF BeginCall, TypeOK, queues

LEMMA TypeStep == TypeOK /\ [Next]_vars => TypeOK'
<1> SUFFICES ASSUME TypeOK, [Next]_vars PROVE TypeOK'
  OBVIOUS
<1> USE DEF TypeOK
<1>1. ASSUME NEW c \in Clients, ClientStep(c) PROVE TypeOK'
  <2>1. CASE RefuseStopped(c)
    BY <2>1, BeginCallTypes DEF RefuseStopped, shared
  <2>2. ASSUME NEW S \in SUBSET Pages, RequestRefresh(c, S) PROVE TypeOK'
    <3>1. BeginCall(c, "notify", "none") /\ UNCHANGED <<wake, operation, latest>>
      BY <2>2 DEF RequestRefresh
    <3>2. pending' \in [pages : SUBSET Pages, options : Options \cup {None}, shutdown : BOOLEAN]
      BY <2>2 DEF RequestRefresh
    <3> QED BY <3>1, <3>2, BeginCallTypes
  <2>3. ASSUME NEW o \in Options, UpdateOptions(c, o) PROVE TypeOK'
    <3>1. BeginCall(c, "notify", "none") /\ UNCHANGED <<wake, operation>> /\ latest' = o
      BY <2>3 DEF UpdateOptions
    <3>2. pending' \in [pages : SUBSET Pages, options : Options \cup {None}, shutdown : BOOLEAN]
      BY <2>3 DEF UpdateOptions
    <3> QED BY <3>1, <3>2, BeginCallTypes
  <2>4. CASE NotifyWorker(c)
    BY <2>4 DEF NotifyWorker, WorkerGone, EndCall, shared, queues, ghosts
  <2>5. CASE SubmitOperation(c)
    <3>1. operation' \in Clients \cup {None} /\ UNCHANGED <<pending, wake, latest>>
      BY <2>5 DEF SubmitOperation
    <3>2. \/ BeginCall(c, "idle", "stopped")
          \/ BeginCall(c, "idle", "busy")
          \/ BeginCall(c, "await", "none")
      BY <2>5 DEF SubmitOperation
    <3> QED BY <3>1, <3>2, BeginCallTypes
  <2>6. CASE ReceiveReply(c)
    BY <2>6 DEF ReceiveReply, EndCall, shared, queues, ghosts
  <2>7. CASE BeginShutdown(c)
    <3>1. /\ pending' \in [pages : SUBSET Pages, options : Options \cup {None},
                          shutdown : BOOLEAN]
          /\ UNCHANGED <<wake, operation, latest>>
      BY <2>7 DEF BeginShutdown
    <3>2. BeginCall(c, "idle", "ok") \/ BeginCall(c, "signal", "none")
      BY <2>7 DEF BeginShutdown
    <3> QED BY <3>1, <3>2, BeginCallTypes
  <2>8. CASE SignalShutdown(c)
    BY <2>8 DEF SignalShutdown, WorkerGone, queues, ghosts
  <2>9. CASE JoinWorker(c)
    BY <2>9 DEF JoinWorker, EndCall, shared, queues, ghosts
  <2> QED BY <1>1, <2>1, <2>2, <2>3, <2>4, <2>5, <2>6, <2>7, <2>8, <2>9 DEF ClientStep
<1>2. CASE WorkerStep
  <2> USE DEF shared, queues, callers, ghosts, WorkerStates
  <2>12. ASSUME NEW p \in Pages, BeginSample(p),
                scheduled' \in Seq(Pages), prewarm' \in SUBSET Pages
         PROVE  TypeOK'
    <3>1. overtaken' \in [operation : Nat, wake : Nat]
      <4>1. /\ overtaken.operation \in Nat /\ overtaken.operation + 1 \in Nat
            /\ overtaken.wake \in Nat /\ overtaken.wake + 1 \in Nat
        OBVIOUS
      <4> QED BY <2>12, <4>1 DEF BeginSample
    <3>2. worker' \in WorkerStates /\ sampling' \in Pages /\ unshown' \in BOOLEAN
      BY <2>12 DEF BeginSample
    <3>3. UNCHANGED <<shared, options, executing, panicked, callers, latest, runs>>
      BY <2>12 DEF BeginSample
    <3> QED BY <2>12, <3>1, <3>2, <3>3
  <2>1. CASE TakeOperation
    <3>1. operation \in Clients
      BY <2>1 DEF TakeOperation
    <3>2. runs[operation] + 1 \in Nat
      BY <3>1
    <3>3. runs' = [runs EXCEPT ![operation] = runs[operation] + 1]
      BY <2>1 DEF TakeOperation
    <3>4. runs' \in [Clients -> Nat]
      BY <3>2, <3>3
    <3>5. overtaken' \in [operation : Nat, wake : Nat]
      BY <2>1 DEF TakeOperation
    <3> QED BY <2>1, <3>1, <3>4, <3>5 DEF TakeOperation
  <2>2. CASE NoOperation
    BY <2>2 DEF NoOperation
  <2>3. CASE FinishOperation
    BY <2>3 DEF FinishOperation
  <2>4. CASE TakeWake
    BY <2>4 DEF TakeWake
  <2>5. CASE NoWake
    BY <2>5 DEF NoWake
  <2>6. CASE ApplyPendingRequests
    <3>1. CASE pending.shutdown
      BY <2>6, <3>1 DEF ApplyPendingRequests
    <3>2. CASE ~ pending.shutdown
      <4>1. options' \in Options /\ scheduled' \in Seq(Pages) /\ prewarm' \in SUBSET Pages
        BY <2>6, <3>2, ApplyTypes
      <4> QED BY <2>6, <3>2, <4>1 DEF ApplyPendingRequests, Activates
    <3> QED BY <3>1, <3>2
  <2>7. CASE SampleScheduled
    <3>1. Head(scheduled) \in Pages /\ Tail(scheduled) \in Seq(Pages)
      BY <2>7 DEF SampleScheduled
    <3> QED BY <2>7, <2>12, <3>1 DEF SampleScheduled
  <2>8. CASE SamplePrewarm
    BY <2>8, <2>12 DEF SamplePrewarm
  <2>9. CASE FinishSample
    BY <2>9 DEF FinishSample
  <2>10. CASE BlockInSelect
    BY <2>10 DEF BlockInSelect
  <2>11. CASE WorkerExits
    BY <2>11 DEF WorkerExits
  <2> QED BY <1>2, <2>1, <2>2, <2>3, <2>4, <2>5, <2>6, <2>7, <2>8, <2>9, <2>10, <2>11 DEF WorkerStep
<1>3. CASE PeriodElapses
  <2>1. options.active \in Pages
    BY DEF Options
  <2>2. scheduled' \in Seq(Pages)
    BY <1>3, <2>1, EnqueueLemma, RuntimeAssumption DEF PeriodElapses
  <2> QED BY <1>3, <2>2 DEF PeriodElapses, shared, callers, ghosts, WorkerStates
<1>4. CASE ProviderPanics
  BY <1>4 DEF ProviderPanics, shared, queues, ghosts, WorkerStates
<1>5. CASE UNCHANGED vars
  BY <1>5 DEF vars, shared, queues, callers, ghosts
<1> QED BY <1>1, <1>2, <1>3, <1>4, <1>5 DEF Next

(* Every variable keeps its type: pages stay pages and the channels hold   *)
(* at most what their capacity allows, for any number of calls.            *)
THEOREM TypeCorrect == Spec => []TypeOK
<1> QED BY InitType, TypeStep, PTL DEF Spec

-----------------------------------------------------------------------------
(* No wake-up is lost.  The invariant is inductive: the token is taken by  *)
(* a worker that then looks at the record, and every write to the record   *)
(* leaves its writer at a point where it still has to notify.              *)

LEMMA WakeupStep == TypeOK /\ NoLostWakeup /\ [Next]_vars => NoLostWakeup'
<1> SUFFICES ASSUME TypeOK, NoLostWakeup, [Next]_vars PROVE NoLostWakeup'
  OBVIOUS
<1> USE DEF NoLostWakeup, HasPending, Stopping
<1>1. ASSUME NEW c \in Clients, ClientStep(c) PROVE NoLostWakeup'
  <2>1. CASE RefuseStopped(c) \/ SubmitOperation(c)
    <3>1. /\ UNCHANGED <<pending, wake, worker>>
          /\ \E next \in {"idle", "await"} : client' = [client EXCEPT ![c] = next]
          /\ client[c] = "idle"
      BY <2>1 DEF RefuseStopped, SubmitOperation, BeginCall, shared
    <3> QED BY <3>1 DEF TypeOK
  <2>2. CASE \/ \E S \in SUBSET Pages : RequestRefresh(c, S)
             \/ \E o \in Options : UpdateOptions(c, o)
    <3>1. client'[c] = "notify"
      BY <2>2 DEF RequestRefresh, UpdateOptions, BeginCall, TypeOK
    <3> QED BY <3>1
  <2>3. CASE NotifyWorker(c) \/ SignalShutdown(c)
    BY <2>3 DEF NotifyWorker, SignalShutdown, WorkerGone, EndCall
  <2>4. CASE ReceiveReply(c) \/ JoinWorker(c)
    <3>1. /\ UNCHANGED <<pending, wake, worker>>
          /\ client' = [client EXCEPT ![c] = "idle"]
          /\ client[c] \in {"await", "join"}
      BY <2>4 DEF ReceiveReply, JoinWorker, EndCall, shared
    <3> QED BY <3>1 DEF TypeOK
  <2>5. CASE BeginShutdown(c)
    <3>1. CASE pending.shutdown
      <4>1. /\ UNCHANGED <<pending, wake, worker>>
            /\ client' = [client EXCEPT ![c] = "idle"]
            /\ client[c] = "idle"
        BY <2>5, <3>1 DEF BeginShutdown, BeginCall
      <4> QED BY <4>1 DEF TypeOK
    <3>2. CASE ~ pending.shutdown
      <4>1. client'[c] = "signal"
        BY <2>5, <3>2 DEF BeginShutdown, BeginCall, TypeOK
      <4> QED BY <4>1
    <3> QED BY <3>1, <3>2
  <2> QED BY <1>1, <2>1, <2>2, <2>3, <2>4, <2>5 DEF ClientStep
<1>2. CASE WorkerStep
  <2>1. CASE TakeOperation \/ NoOperation \/ FinishOperation
    BY <2>1 DEF TakeOperation, NoOperation, FinishOperation, shared, callers
  <2>2. CASE TakeWake
    BY <2>2 DEF TakeWake
  <2>3. CASE NoWake \/ BlockInSelect \/ SampleScheduled \/ SamplePrewarm \/ FinishSample
    BY <2>3 DEF NoWake, BlockInSelect, SampleScheduled, SamplePrewarm, BeginSample,
                FinishSample, shared, callers
  <2>4. CASE ApplyPendingRequests
    BY <2>4 DEF ApplyPendingRequests, TypeOK
  <2>5. CASE WorkerExits
    BY <2>5 DEF WorkerExits
  <2> QED BY <1>2, <2>1, <2>2, <2>3, <2>4, <2>5 DEF WorkerStep
<1>3. CASE PeriodElapses
  BY <1>3 DEF PeriodElapses, shared, callers
<1>4. CASE ProviderPanics
  BY <1>4 DEF ProviderPanics
<1>5. CASE UNCHANGED vars
  BY <1>5 DEF vars, shared, callers
<1> QED BY <1>1, <1>2, <1>3, <1>4, <1>5 DEF Next

(* Whatever is asked for is seen by the worker: refreshes, options and the *)
(* shutdown flag are written under the mutex and announced outside it, yet *)
(* the announcement can be neither lost nor consumed before the write.     *)
THEOREM WakeupsSurvive == Spec => []NoLostWakeup
<1>1. Init => NoLostWakeup
  BY DEF Init, NoLostWakeup, HasPending
<1> QED BY <1>1, InitType, TypeStep, WakeupStep, PTL DEF Spec

-----------------------------------------------------------------------------
(* The newest options win.                                                 *)

LEMMA OptionsStep == TypeOK /\ LatestOptionsWin /\ [Next]_vars => LatestOptionsWin'
<1> SUFFICES ASSUME TypeOK, LatestOptionsWin, [Next]_vars PROVE LatestOptionsWin'
  OBVIOUS
<1> USE DEF LatestOptionsWin, Stopping
<1>1. ASSUME NEW c \in Clients, ClientStep(c) PROVE LatestOptionsWin'
  <2>1. CASE \E o \in Options : UpdateOptions(c, o)
    <3>1. PICK o \in Options : UpdateOptions(c, o)
      BY <2>1
    <3>2. pending'.options = o /\ latest' = o /\ o # None
      BY <3>1, NoneIsNoOption DEF UpdateOptions, TypeOK
    <3> QED BY <3>2
  <2>2. CASE \/ \E S \in SUBSET Pages : RequestRefresh(c, S)
             \/ BeginShutdown(c)
    BY <2>2 DEF RequestRefresh, BeginShutdown, BeginCall, queues, TypeOK
  <2>3. CASE RefuseStopped(c) \/ SubmitOperation(c)
    BY <2>3 DEF RefuseStopped, SubmitOperation, BeginCall, shared, queues
  <2>4. CASE NotifyWorker(c) \/ SignalShutdown(c) \/ ReceiveReply(c) \/ JoinWorker(c)
    BY <2>4 DEF NotifyWorker, SignalShutdown, ReceiveReply, JoinWorker, EndCall,
                shared, queues, ghosts
  <2> QED BY <1>1, <2>1, <2>2, <2>3, <2>4 DEF ClientStep
<1>2. CASE WorkerStep
  <2>1. CASE TakeOperation \/ NoOperation \/ FinishOperation \/ TakeWake \/ NoWake
    BY <2>1 DEF TakeOperation, NoOperation, FinishOperation, TakeWake, NoWake, shared,
                queues, ghosts
  <2>2. CASE BlockInSelect \/ SampleScheduled \/ SamplePrewarm \/ FinishSample
    BY <2>2 DEF BlockInSelect, SampleScheduled, SamplePrewarm, BeginSample, FinishSample,
                shared, queues, ghosts
  <2>3. CASE ApplyPendingRequests
    BY <2>3 DEF ApplyPendingRequests, TypeOK
  <2>4. CASE WorkerExits
    BY <2>4 DEF WorkerExits
  <2> QED BY <1>2, <2>1, <2>2, <2>3, <2>4 DEF WorkerStep
<1>3. CASE PeriodElapses
  BY <1>3 DEF PeriodElapses, shared, ghosts
<1>4. CASE ProviderPanics
  BY <1>4 DEF ProviderPanics
<1>5. CASE UNCHANGED vars
  BY <1>5 DEF vars, shared, queues, ghosts
<1> QED BY <1>1, <1>2, <1>3, <1>4, <1>5 DEF Next

(* The options the worker runs with, or is about to take, are the newest   *)
(* that update_options accepted, however calls and applications overlap.   *)
THEOREM OptionsSurvive == Spec => []LatestOptionsWin
<1>1. Init => LatestOptionsWin
  BY DEF Init, LatestOptionsWin
<1> QED BY <1>1, InitType, TypeStep, OptionsStep, PTL DEF Spec

-----------------------------------------------------------------------------
(* Operations and their replies.  A request is in one place, the place     *)
(* tells how often it has run, and no result is kept across calls.         *)

(* A caller waits for a reply exactly while its request is in the channel, *)
(* is running, or is already answered, in one of these only: no request    *)
(* can be answered twice or given to another caller, and one that is not   *)
(* answered is running or still in the channel, also when the worker stops *)
(* or panics with requests in flight.                                      *)
OneReplyPerRequest ==
  \A c \in Clients :
    LET queued == operation = c
        running == executing = c
        answered == reply[c] # "none"
    IN  /\ client[c] = "await" <=> queued \/ running \/ answered
        /\ ~ (queued /\ running)
        /\ ~ (queued /\ answered)
        /\ ~ (running /\ answered)

OperationInv ==
  /\ OneReplyPerRequest
  /\ worker = "operate" <=> executing # None
  /\ \A c \in Clients :
       /\ client[c] # "idle" => outcome[c] = "none"
       /\ operation = c => runs[c] = 0
       /\ executing = c => runs[c] = 1
       /\ reply[c] = "result" => runs[c] = 1
       /\ client[c] \in {"notify", "signal", "join"} => runs[c] = 0
  /\ ReplyMatchesExecution

LEMMA OperationClientStep ==
  ASSUME TypeOK, OperationInv, NEW c \in Clients, ClientStep(c)
  PROVE  OperationInv'
<1> USE DEF OperationInv, OneReplyPerRequest, ReplyMatchesExecution
<1>1. CASE \/ RefuseStopped(c)
           \/ \E S \in SUBSET Pages : RequestRefresh(c, S)
           \/ \E o \in Options : UpdateOptions(c, o)
           \/ BeginShutdown(c)
  <2>1. PICK next \in {"idle", "notify", "signal"}, result \in {"none", "stopped", "ok"} :
          /\ BeginCall(c, next, result)
          /\ next # "idle" => result = "none"
    BY <1>1 DEF RefuseStopped, RequestRefresh, UpdateOptions, BeginShutdown
  <2>2. operation' = operation
    BY <1>1 DEF RefuseStopped, RequestRefresh, UpdateOptions, BeginShutdown, shared
  <2>3. /\ client[c] = "idle"
        /\ client' = [client EXCEPT ![c] = next]
        /\ outcome' = [outcome EXCEPT ![c] = result]
        /\ runs' = [runs EXCEPT ![c] = 0]
        /\ UNCHANGED <<worker, executing, reply>>
    BY <2>1 DEF BeginCall
  <2> QED BY <2>1, <2>2, <2>3, RuntimeAssumption DEF TypeOK
<1>2. CASE SubmitOperation(c)
  <2>1. PICK next \in {"idle", "await"}, result \in {"none", "stopped", "busy"} :
          /\ BeginCall(c, next, result)
          /\ next = "idle" => operation' = operation
          /\ next = "await" => result = "none" /\ operation = None /\ operation' = c
    BY <1>2 DEF SubmitOperation
  <2>2. /\ client[c] = "idle"
        /\ client' = [client EXCEPT ![c] = next]
        /\ outcome' = [outcome EXCEPT ![c] = result]
        /\ runs' = [runs EXCEPT ![c] = 0]
        /\ UNCHANGED <<worker, executing, reply>>
    BY <2>1 DEF BeginCall
  <2> QED BY <2>1, <2>2, RuntimeAssumption DEF TypeOK
<1>3. CASE NotifyWorker(c) \/ JoinWorker(c)
  <2>1. /\ client[c] \in {"notify", "join"}
        /\ client' = [client EXCEPT ![c] = "idle"]
        /\ \E result \in {"ok", "stopped", "panicked"} :
             outcome' = [outcome EXCEPT ![c] = result]
        /\ UNCHANGED <<worker, operation, executing, reply, runs>>
    BY <1>3 DEF NotifyWorker, JoinWorker, EndCall, shared, ghosts
  <2> QED BY <2>1 DEF TypeOK
<1>4. CASE ReceiveReply(c)
  <2>1. /\ client[c] = "await"
        /\ reply[c] # "none"
        /\ client' = [client EXCEPT ![c] = "idle"]
        /\ outcome' = [outcome EXCEPT ![c] = reply[c]]
        /\ reply' = [reply EXCEPT ![c] = "none"]
        /\ UNCHANGED <<worker, operation, executing, runs>>
    BY <1>4 DEF ReceiveReply, EndCall, shared, ghosts
  <2> QED BY <2>1 DEF TypeOK
<1>5. CASE SignalShutdown(c)
  <2>1. /\ client[c] = "signal"
        /\ client' = [client EXCEPT ![c] = "join"]
        /\ UNCHANGED <<worker, operation, executing, reply, outcome, runs>>
    BY <1>5 DEF SignalShutdown, ghosts
  <2> QED BY <2>1 DEF TypeOK
<1> QED BY <1>1, <1>2, <1>3, <1>4, <1>5 DEF ClientStep

LEMMA OperationStep == TypeOK /\ OperationInv /\ [Next]_vars => OperationInv'
<1> SUFFICES ASSUME TypeOK, OperationInv, [Next]_vars PROVE OperationInv'
  OBVIOUS
<1>1. ASSUME NEW c \in Clients, ClientStep(c) PROVE OperationInv'
  BY <1>1, OperationClientStep
<1> USE DEF OperationInv, OneReplyPerRequest, ReplyMatchesExecution
<1>2. CASE WorkerStep
  <2>1. CASE TakeOperation
    <3>1. /\ operation \in Clients
          /\ worker' = "operate" /\ executing' = operation /\ operation' = None
          /\ worker # "operate" /\ executing = None
          /\ UNCHANGED <<client, reply, outcome>>
      BY <2>1 DEF TakeOperation, TypeOK, callers
    <3>2. runs[operation] = 0 /\ client[operation] = "await"
      BY <3>1
    <3>3. runs' = [runs EXCEPT ![operation] = 1]
      <4>1. runs' = [runs EXCEPT ![operation] = runs[operation] + 1]
        BY <2>1 DEF TakeOperation
      <4> QED BY <3>2, <4>1
    <3>4. \A c \in Clients : runs'[c] = IF c = operation THEN 1 ELSE runs[c]
      BY <3>1, <3>3 DEF TypeOK
    <3>5. OneReplyPerRequest'
      BY <3>1, <3>2, RuntimeAssumption
    <3>6. ReplyMatchesExecution'
      BY <3>1, <3>2, <3>4
    <3> QED BY <3>1, <3>2, <3>4, <3>5, <3>6, RuntimeAssumption
  <2>2. CASE FinishOperation
    <3>1. /\ executing \in Clients
          /\ worker' = "poll_operation" /\ executing' = None
          /\ reply' = [reply EXCEPT ![executing] = "result"]
          /\ UNCHANGED <<client, operation, outcome, runs>>
      BY <2>2 DEF FinishOperation, TypeOK, shared, ghosts
    <3> QED BY <3>1, RuntimeAssumption DEF TypeOK
  <2>3. CASE NoOperation \/ TakeWake \/ NoWake \/ ApplyPendingRequests
    <3>1. /\ worker # "operate" /\ worker' # "operate"
          /\ UNCHANGED <<client, operation, executing, reply, outcome, runs>>
      BY <2>3 DEF NoOperation, TakeWake, NoWake, ApplyPendingRequests, shared, callers, ghosts
    <3> QED BY <3>1
  <2>4. CASE BlockInSelect \/ SampleScheduled \/ SamplePrewarm \/ FinishSample
    <3>1. /\ worker # "operate" /\ worker' # "operate"
          /\ UNCHANGED <<client, operation, executing, reply, outcome, runs>>
      BY <2>4 DEF BlockInSelect, SampleScheduled, SamplePrewarm, BeginSample, FinishSample,
                  shared, callers, ghosts
    <3> QED BY <3>1
  <2>5. CASE WorkerExits
    <3>1. /\ worker = "exiting" /\ worker' = "exited"
          /\ UNCHANGED <<client, executing, outcome, runs>>
      BY <2>5 DEF WorkerExits, ghosts
    <3>2. CASE UNCHANGED <<operation, reply>>
      BY <3>1, <3>2
    <3>3. CASE operation # None /\ operation' = None /\ reply' = [reply EXCEPT ![operation] = "lost"]
      BY <3>1, <3>3, RuntimeAssumption DEF TypeOK
    <3> QED BY <2>5, <3>2, <3>3 DEF WorkerExits
  <2> QED BY <1>2, <2>1, <2>2, <2>3, <2>4, <2>5 DEF WorkerStep
<1>3. CASE PeriodElapses
  <2>1. /\ worker # "operate" /\ worker' # "operate"
        /\ UNCHANGED <<client, operation, executing, reply, outcome, runs>>
    BY <1>3 DEF PeriodElapses, shared, callers, ghosts
  <2> QED BY <2>1
<1>4. CASE ProviderPanics
  <2>1. /\ worker' = "exiting" /\ executing' = None
        /\ reply' = IF executing = None THEN reply
                                        ELSE [reply EXCEPT ![executing] = "lost"]
        /\ UNCHANGED <<client, operation, outcome, runs>>
    BY <1>4 DEF ProviderPanics, shared, ghosts
  <2> QED BY <2>1, RuntimeAssumption DEF TypeOK
<1>5. CASE UNCHANGED vars
  BY <1>5 DEF vars, shared, callers, ghosts
<1> QED BY <1>1, <1>2, <1>3, <1>4, <1>5 DEF Next

LEMMA OperationInvariant == Spec => []OperationInv
<1>1. Init => OperationInv
  BY RuntimeAssumption DEF Init, OperationInv, OneReplyPerRequest, ReplyMatchesExecution
<1> QED BY <1>1, InitType, TypeStep, OperationStep, PTL DEF Spec

(* No request vanishes, is answered twice or is answered to someone else.  *)
THEOREM RepliesAreUnique == Spec => []OneReplyPerRequest
<1>1. OperationInv => OneReplyPerRequest
  BY DEF OperationInv
<1> QED BY <1>1, OperationInvariant, PTL

(* A caller is told the truth about whether its operation ran.             *)
THEOREM RepliesAreTrue == Spec => []ReplyMatchesExecution
<1>1. OperationInv => ReplyMatchesExecution
  BY DEF OperationInv
<1> QED BY <1>1, OperationInvariant, PTL

-----------------------------------------------------------------------------
(* Prewarm is interrupted at page boundaries.                              *)

\* A waiting operation, or token, has been overtaken at most by the sample
\* that runs now or has just ended.
BoundaryInv ==
  /\ \/ overtaken.operation = 0
     \/ overtaken.operation = 1 /\ Stopping
     \/ /\ overtaken.operation = 1
        /\ operation # None
        /\ worker \in {"sample", "poll_operation"}
  /\ \/ overtaken.wake = 0
     \/ overtaken.wake = 1 /\ Stopping
     \/ /\ overtaken.wake = 1
        /\ wake
        /\ worker \in {"sample", "poll_operation", "operate", "poll_wake"}

LEMMA BoundaryStep == TypeOK /\ BoundaryInv /\ [Next]_vars => BoundaryInv'
<1> SUFFICES ASSUME TypeOK, BoundaryInv, [Next]_vars PROVE BoundaryInv'
  OBVIOUS
<1> USE DEF BoundaryInv, Stopping
<1>1. ASSUME NEW c \in Clients, ClientStep(c) PROVE BoundaryInv'
  <2>1. UNCHANGED <<worker, overtaken>>
    BY <1>1 DEF ClientStep, RefuseStopped, RequestRefresh, UpdateOptions, NotifyWorker,
                SubmitOperation, ReceiveReply, BeginShutdown, SignalShutdown, JoinWorker,
                BeginCall, EndCall, ghosts
  <2>2. operation # None => operation' # None
    BY <1>1, RuntimeAssumption
       DEF ClientStep, RefuseStopped, RequestRefresh, UpdateOptions, NotifyWorker,
           SubmitOperation, ReceiveReply, BeginShutdown, SignalShutdown, JoinWorker, shared
  <2>3. wake => wake' \/ Stopping
    BY <1>1 DEF ClientStep, RefuseStopped, RequestRefresh, UpdateOptions, NotifyWorker,
                SubmitOperation, ReceiveReply, BeginShutdown, SignalShutdown, JoinWorker,
                WorkerGone, shared
  <2> QED BY <2>1, <2>2, <2>3
<1>2. CASE WorkerStep
  <2>1. CASE TakeOperation
    BY <2>1 DEF TakeOperation, TypeOK
  <2>2. CASE TakeWake
    BY <2>2 DEF TakeWake, TypeOK
  <2>3. CASE NoOperation \/ NoWake \/ FinishOperation \/ FinishSample \/ BlockInSelect
    BY <2>3 DEF NoOperation, NoWake, FinishOperation, FinishSample, BlockInSelect,
                shared, ghosts
  <2>4. CASE SampleScheduled \/ SamplePrewarm
    <3>1. PICK p : BeginSample(p)
      BY <2>4 DEF SampleScheduled, SamplePrewarm
    <3>2. overtaken.operation = 0 /\ overtaken.wake = 0
      BY <3>1 DEF BeginSample
    <3> QED BY <3>1, <3>2 DEF BeginSample, shared
  <2>5. CASE ApplyPendingRequests
    BY <2>5 DEF ApplyPendingRequests
  <2>6. CASE WorkerExits
    BY <2>6 DEF WorkerExits, ghosts
  <2> QED BY <1>2, <2>1, <2>2, <2>3, <2>4, <2>5, <2>6 DEF WorkerStep
<1>3. CASE PeriodElapses
  BY <1>3 DEF PeriodElapses, shared, ghosts
<1>4. CASE ProviderPanics
  BY <1>4 DEF ProviderPanics, shared, ghosts
<1>5. CASE UNCHANGED vars
  BY <1>5 DEF vars, shared, ghosts
<1> QED BY <1>1, <1>2, <1>3, <1>4, <1>5 DEF Next

(* An action or an explicit refresh waits for at most one page sample that *)
(* begins after it was announced, whatever else is queued.                 *)
THEOREM PrewarmInterrupted == Spec => []InterruptedAtPageBoundary
<1>1. Init => BoundaryInv
  BY DEF Init, BoundaryInv
<1>2. BoundaryInv => InterruptedAtPageBoundary
  BY DEF BoundaryInv, InterruptedAtPageBoundary
<1> QED BY <1>1, <1>2, InitType, TypeStep, BoundaryStep, PTL DEF Spec

-----------------------------------------------------------------------------
(* The queues hold a page once, and an activated page is in front until    *)
(* it is sampled.                                                          *)

(* A page waits in one place only, so the work that can pile up in front   *)
(* of an idle worker is bounded by the number of pages however often       *)
(* refreshes are requested.                                                *)
PagesQueuedOnce ==
  /\ \A i, j \in DOMAIN scheduled : i # j => scheduled[i] # scheduled[j]
  /\ \A i \in DOMAIN scheduled : scheduled[i] \notin prewarm

QueueInv ==
  /\ Distinct(scheduled)
  /\ \A q \in prewarm : ~ InQueue(scheduled, q)
  /\ unshown => scheduled # <<>> /\ Head(scheduled) = options.active
  /\ worker = "select" => prewarm = {}

\* apply_pending_requests: an activated page goes to the front, and whatever
\* is put in the queue is no longer in prewarm.
LEMMA ApplyQueues ==
  ASSUME TypeOK, QueueInv, ~ pending.shutdown, ApplyPendingRequests
  PROVE  QueueInv'
<1> DEFINE replacement == pending.options
           now == IF replacement = None THEN options ELSE replacement
           act == ActivatedSchedule(replacement)
           warm == ActivatedPrewarm(replacement)
           first == RequestedFirst(act, pending.pages, now.active)
<1>1. now \in Options /\ now.active \in Pages /\ Performance \in Pages
  BY RuntimeAssumption DEF TypeOK, Options
<1>2. /\ act \in Seq(Pages) /\ Distinct(act)
      /\ \A q : InQueue(act, q) => q \notin warm
      /\ unshown \/ Activates(replacement) => act # <<>> /\ Head(act) = now.active
  <2>1. CASE Activates(replacement)
    <3> DEFINE top == Promote(scheduled, replacement.active)
    <3>1. replacement # None /\ now.active = replacement.active
      BY <2>1 DEF Activates
    <3>2. /\ top \in Seq(Pages) /\ Distinct(top)
          /\ \A q : InQueue(top, q) => InQueue(scheduled, q) \/ q = now.active
          /\ top # <<>> /\ Head(top) = now.active
      BY <1>1, <3>1, PromoteLemma DEF TypeOK, QueueInv
    <3>3. act = Enqueue(top, Performance)
      BY <2>1 DEF ActivatedSchedule
    <3> HIDE DEF top
    <3>4. /\ act \in Seq(Pages) /\ Distinct(act)
          /\ \A q : InQueue(act, q) => InQueue(top, q) \/ q = Performance
          /\ act # <<>> /\ Head(act) = now.active
      <4> HIDE DEF act, now
      <4>1. act \in Seq(Pages) /\ Distinct(act)
        BY <1>1, <3>2, <3>3, EnqueueLemma
      <4>2. \A q : InQueue(act, q) => InQueue(top, q) \/ q = Performance
        BY <1>1, <3>2, <3>3, EnqueueLemma
      <4>3. act # <<>> /\ Head(act) = Head(top)
        BY <1>1, <3>2, <3>3, EnqueueLemma
      <4> QED BY <3>2, <4>1, <4>2, <4>3
    <3>5. \A q : q \in warm => q \in prewarm /\ q # now.active /\ q # Performance
      BY <2>1, <3>1 DEF ActivatedPrewarm
    <3> QED BY <3>2, <3>4, <3>5 DEF QueueInv
  <2>2. CASE ~ Activates(replacement)
    <3>1. act = scheduled /\ warm = prewarm
      BY <2>2 DEF ActivatedSchedule, ActivatedPrewarm
    <3>2. now.active = options.active
      BY <2>2 DEF Activates
    <3> QED BY <2>2, <3>1, <3>2 DEF QueueInv, TypeOK
  <2> QED BY <2>1, <2>2
<1> HIDE DEF act, warm, now
<1>3. /\ first \in Seq(Pages) /\ Distinct(first)
      /\ \A q : InQueue(first, q) => InQueue(act, q) \/ q \in pending.pages
      /\ act # <<>> /\ Head(act) = now.active => first # <<>> /\ Head(first) = now.active
  <2> DEFINE top == IF now.active \in pending.pages THEN Promote(act, now.active) ELSE act
  <2>1. /\ top \in Seq(Pages) /\ Distinct(top)
        /\ \A q : InQueue(top, q) => InQueue(act, q) \/ q \in pending.pages
        /\ act # <<>> /\ Head(act) = now.active => top # <<>> /\ Head(top) = now.active
    BY <1>1, <1>2, PromoteLemma
  <2>2. first = IF Performance \in pending.pages THEN Enqueue(top, Performance) ELSE top
    BY DEF RequestedFirst
  <2> HIDE DEF top, first
  <2>3. CASE Performance \in pending.pages
    BY <1>1, <2>1, <2>2, <2>3, EnqueueLemma
  <2>4. CASE Performance \notin pending.pages
    BY <2>1, <2>2, <2>4
  <2> QED BY <2>3, <2>4
<1>4. PICK rest \in Ordered(Unqueued(first, pending.pages)) : scheduled' = first \o rest
  BY DEF ApplyPendingRequests, now, act
<1>5. /\ rest \in Seq(Pages) /\ Distinct(rest)
      /\ \A q : InQueue(rest, q) => q \in pending.pages /\ ~ InQueue(first, q)
  <2>1. Unqueued(first, pending.pages) \in SUBSET Pages
    BY DEF Unqueued, TypeOK
  <2>2. /\ rest \in Seq(Pages) /\ Distinct(rest)
        /\ \A q : InQueue(rest, q) => q \in Unqueued(first, pending.pages)
    BY <1>4, <2>1, OrderedLemma
  <2> QED BY <2>2 DEF Unqueued
<1> HIDE DEF first
<1>6. /\ Distinct(scheduled')
      /\ \A q : InQueue(scheduled', q) => InQueue(first, q) \/ InQueue(rest, q)
      /\ first # <<>> => scheduled' # <<>> /\ Head(scheduled') = Head(first)
  BY <1>3, <1>4, <1>5, ConcatLemma
<1>7. /\ options' = now /\ prewarm' = warm \ pending.pages
      /\ unshown' = (unshown \/ Activates(replacement))
  BY DEF ApplyPendingRequests, now, warm
<1>8. \A q \in prewarm' : ~ InQueue(scheduled', q)
  BY <1>2, <1>3, <1>5, <1>6, <1>7
<1>9. unshown' => scheduled' # <<>> /\ Head(scheduled') = options'.active
  BY <1>2, <1>3, <1>6, <1>7
<1>10. worker' # "select"
  BY DEF ApplyPendingRequests
<1> QED BY <1>6, <1>8, <1>9, <1>10 DEF QueueInv, Distinct, InQueue

LEMMA QueueStep == TypeOK /\ QueueInv /\ [Next]_vars => QueueInv'
<1> SUFFICES ASSUME TypeOK, QueueInv, [Next]_vars PROVE QueueInv'
  OBVIOUS
<1>1. ASSUME UNCHANGED <<queues, unshown>>, worker' = "select" => prewarm = {} PROVE QueueInv'
  BY <1>1 DEF QueueInv, Distinct, InQueue, queues
<1>2. ASSUME NEW c \in Clients, ClientStep(c) PROVE QueueInv'
  BY <1>1, <1>2
     DEF QueueInv, ClientStep, RefuseStopped, RequestRefresh, UpdateOptions, NotifyWorker,
         SubmitOperation, ReceiveReply, BeginShutdown, SignalShutdown, JoinWorker,
         BeginCall, EndCall, ghosts
<1>3. CASE WorkerStep
  <2>1. CASE \/ TakeOperation \/ NoOperation \/ FinishOperation \/ TakeWake \/ NoWake
             \/ FinishSample \/ BlockInSelect \/ WorkerExits
    <3>1. UNCHANGED queues /\ UNCHANGED unshown
      BY <2>1 DEF TakeOperation, NoOperation, FinishOperation, TakeWake, NoWake,
                  FinishSample, BlockInSelect, WorkerExits, ghosts
    <3>2. worker' = "select" => prewarm = {}
      BY <2>1 DEF TakeOperation, NoOperation, FinishOperation, TakeWake, NoWake,
                  FinishSample, BlockInSelect, WorkerExits
    <3> QED BY <1>1, <3>1, <3>2
  <2>2. CASE ApplyPendingRequests
    <3>1. CASE pending.shutdown
      <4>1. UNCHANGED <<queues, unshown>> /\ worker' = "exiting"
        BY <2>2, <3>1 DEF ApplyPendingRequests
      <4> QED BY <1>1, <4>1
    <3>2. CASE ~ pending.shutdown
      BY <2>2, <3>2, ApplyQueues
    <3> QED BY <3>1, <3>2
  <2>3. CASE SampleScheduled
    <3>1. /\ scheduled # <<>> /\ scheduled' = Tail(scheduled)
          /\ unshown' = (unshown /\ Head(scheduled) # options.active)
          /\ UNCHANGED <<options, prewarm>> /\ worker' = "sample"
      BY <2>3 DEF SampleScheduled, BeginSample
    <3>2. /\ scheduled' \in Seq(Pages) /\ Len(scheduled') = Len(scheduled) - 1
          /\ \A i \in 1 .. Len(scheduled') : scheduled'[i] = scheduled[i + 1]
      BY <3>1, HeadTailProperties DEF TypeOK
    <3>3. \A i \in DOMAIN scheduled' : i + 1 \in DOMAIN scheduled /\ scheduled'[i] = scheduled[i + 1]
      BY <3>2 DEF TypeOK
    <3>4. Distinct(scheduled')
      <4> SUFFICES ASSUME NEW i \in DOMAIN scheduled', NEW j \in DOMAIN scheduled', i # j
                   PROVE  scheduled'[i] # scheduled'[j]
        BY DEF Distinct
      <4>1. i + 1 # j + 1
        BY <3>2
      <4> QED BY <3>3, <4>1 DEF QueueInv, Distinct
    <3>5. \A q \in prewarm' : ~ InQueue(scheduled', q)
      BY <3>1, <3>3 DEF QueueInv, InQueue
    <3>6. ~ unshown' /\ worker' # "select"
      BY <3>1 DEF QueueInv
    <3> QED BY <3>4, <3>5, <3>6 DEF QueueInv, Distinct, InQueue
  <2>4. CASE SamplePrewarm
    <3>1. /\ UNCHANGED <<options, scheduled>> /\ prewarm' \subseteq prewarm
          /\ unshown' => unshown
          /\ worker' = "sample"
      BY <2>4 DEF SamplePrewarm, BeginSample
    <3> QED BY <3>1 DEF QueueInv, Distinct, InQueue
  <2> QED BY <1>3, <2>1, <2>2, <2>3, <2>4 DEF WorkerStep
<1>4. CASE PeriodElapses
  <2> DEFINE s1 == Enqueue(scheduled, options.active)
             s2 == Enqueue(s1, Performance)
  <2>1. options.active \in Pages /\ Performance \in Pages
    BY RuntimeAssumption DEF TypeOK, Options
  <2>2. /\ s1 \in Seq(Pages) /\ Distinct(s1)
        /\ scheduled # <<>> => s1 # <<>> /\ Head(s1) = Head(scheduled)
    BY <2>1, EnqueueLemma DEF TypeOK, QueueInv
  <2> HIDE DEF s1
  <2>3. /\ Distinct(s2)
        /\ s1 # <<>> => s2 # <<>> /\ Head(s2) = Head(s1)
    BY <2>1, <2>2, EnqueueLemma
  <2>4. /\ scheduled' = s2 /\ UNCHANGED <<options, unshown>>
        /\ prewarm' = {} /\ worker' # "select"
    BY <1>4 DEF PeriodElapses, s1, ghosts, QueueInv
  <2> QED BY <2>2, <2>3, <2>4 DEF QueueInv, Distinct, InQueue
<1>5. CASE ProviderPanics
  BY <1>1, <1>5 DEF ProviderPanics, ghosts
<1>6. CASE UNCHANGED vars
  BY <1>1, <1>6 DEF vars, ghosts, QueueInv
<1> QED BY <1>2, <1>3, <1>4, <1>5, <1>6 DEF Next

LEMMA InitQueue == Init => QueueInv
<1> SUFFICES ASSUME Init PROVE QueueInv
  OBVIOUS
<1> DEFINE s == <<options.active>>
<1>1. options.active \in Pages /\ Performance \in Pages
  BY RuntimeAssumption DEF Init, Options
<1>2. s \in Seq(Pages) /\ Distinct(s)
  BY <1>1 DEF Distinct
<1> HIDE DEF s
<1>3. Distinct(Enqueue(s, Performance))
  BY <1>1, <1>2, EnqueueLemma
<1>4. scheduled = Enqueue(s, Performance) /\ prewarm = Unqueued(scheduled, Pages)
  BY DEF Init, s
<1>5. ~ unshown /\ worker # "select"
  BY DEF Init
<1> QED BY <1>3, <1>4, <1>5 DEF QueueInv, Unqueued

LEMMA QueueInvariant == Spec => []QueueInv
<1> QED BY InitType, TypeStep, InitQueue, QueueStep, PTL DEF Spec

(* However often refreshes are requested, a page waits in one place only.  *)
THEOREM QueuesBounded == Spec => []PagesQueuedOnce
<1>1. QueueInv => PagesQueuedOnce
  BY DEF QueueInv, PagesQueuedOnce, Distinct, InQueue
<1> QED BY <1>1, QueueInvariant, PTL

(* A newly activated page is the next page that is sampled.                *)
THEOREM ActivationFirst == Spec => ActivePageFirst
<1> DEFINE A == sampling' # sampling /\ sampling' # None /\ unshown
                  => sampling' = options.active
<1>1. TypeOK /\ QueueInv /\ [Next]_vars => A \/ UNCHANGED vars
  <2> SUFFICES ASSUME TypeOK, QueueInv, Next, sampling' # sampling, sampling' # None, unshown
               PROVE  sampling' = options.active
    OBVIOUS
  <2>1. scheduled # <<>> /\ Head(scheduled) = options.active
    BY DEF QueueInv
  <2>2. ASSUME NEW c \in Clients, ClientStep(c) PROVE sampling' = sampling
    BY <2>2 DEF ClientStep, RefuseStopped, RequestRefresh, UpdateOptions, NotifyWorker,
                SubmitOperation, ReceiveReply, BeginShutdown, SignalShutdown, JoinWorker,
                BeginCall, EndCall
  <2>3. CASE WorkerStep
    <3>1. SampleScheduled \/ SamplePrewarm
      BY <2>3 DEF WorkerStep, TakeOperation, NoOperation, FinishOperation, TakeWake, NoWake,
                  ApplyPendingRequests, FinishSample, BlockInSelect, WorkerExits
    <3> QED BY <2>1, <3>1 DEF SampleScheduled, SamplePrewarm, BeginSample
  <2>4. ~ PeriodElapses /\ ~ ProviderPanics
    BY DEF PeriodElapses, ProviderPanics
  <2> QED BY <2>2, <2>3, <2>4 DEF Next
<1>2. TypeOK /\ QueueInv /\ [Next]_vars => [A]_vars
  BY <1>1
<1> QED BY <1>2, TypeCorrect, QueueInvariant, PTL DEF Spec, ActivePageFirst

=============================================================================
