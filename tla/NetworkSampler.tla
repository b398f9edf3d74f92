--------------------------- MODULE NetworkSampler ---------------------------
(* The Network page on Linux: rates from the byte counters under             *)
(* /sys/class/net.  Interfaces come and go, a new one may take over a name    *)
(* and count from zero, and a counter may be unreadable for a while.         *)
EXTENDS SampleHistory

CONSTANTS
  Interfaces,       \* names of interfaces
  Counters,         \* the counters of an interface: received, sent
  HistoryCapacity,  \* HISTORY_CAPACITY
  MaxTraffic,       \* bound: bytes an interface counts, and between two samples
  MaxElapsed,       \* bound: ticks of the clock between two samples
  Missing           \* None of Option

\* None is no number and no baseline.
ASSUME NetworkAssumption ==
  /\ MaxTraffic \in Nat
  /\ Missing \notin Nat \cup [Counters -> Nat]

VARIABLES
  elapsed,   \* time since the last sample
  present,   \* the interfaces that exist
  bytes,     \* their counters
  readable,  \* the counters that can be read: <<interface, counter>>
  baseline,  \* Missing, or the counters an earlier sample left behind
  rate,      \* the rates of the last snapshot: Missing or bytes over time
  history,   \* the graphs of each interface
  flowed,    \* history: bytes under a name since a sample last read the counter
  carried,   \* and that value when the last sample was taken: Missing if guessed then
  guessed    \* history: counters whose baseline is the 0 of an unreadable file

networkVars ==
  <<elapsed, present, bytes, readable, baseline, rate, history, flowed, carried, guessed>>

PerCounter(value) == [i \in Interfaces |-> [c \in Counters |-> value]]

\* Interfaces that are there from the start have counted before.
NetworkInit ==
  /\ elapsed = 0
  /\ present \in SUBSET Interfaces
  /\ bytes \in [Interfaces -> [Counters -> 0..MaxTraffic]]
  /\ readable = Interfaces \X Counters
  /\ baseline = [i \in Interfaces |-> Missing]
  /\ rate = PerCounter(Missing)
  /\ history = PerCounter(<<>>)
  /\ flowed = PerCounter(0)
  /\ carried = PerCounter(0)
  /\ guessed = {}

(***************************************************************************)
(* The system (external)                                                   *)
(***************************************************************************)
Transfer(i, c) ==
  /\ i \in present
  /\ bytes[i][c] < MaxTraffic /\ flowed[i][c] < MaxTraffic
  /\ bytes' = [bytes EXCEPT ![i][c] = @ + 1]
  /\ flowed' = [flowed EXCEPT ![i][c] = @ + 1]
  /\ UNCHANGED <<elapsed, present, readable, baseline, rate, history, carried, guessed>>

\* An interface disappears, or appears with counters at zero.
PlugOrUnplug(i) ==
  /\ present' = IF i \in present THEN present \ {i} ELSE present \cup {i}
  /\ bytes' = [bytes EXCEPT ![i] = [c \in Counters |-> 0]]
  /\ UNCHANGED <<elapsed, readable, baseline, rate, history, flowed, carried, guessed>>

HideOrShow(i, c) ==
  /\ readable' = IF <<i, c>> \in readable THEN readable \ {<<i, c>>} ELSE readable \cup {<<i, c>>}
  /\ UNCHANGED <<elapsed, present, bytes, baseline, rate, history, flowed, carried, guessed>>

NetworkTick ==
  /\ elapsed < MaxElapsed
  /\ elapsed' = elapsed + 1
  /\ UNCHANGED <<present, bytes, readable, baseline, rate, history, flowed, carried, guessed>>

(***************************************************************************)
(* NetworkSampler::sample                                                  *)
(***************************************************************************)
ReadCounter(i, c) == IF <<i, c>> \in readable THEN bytes[i][c] ELSE Missing

OrElse(value, default) == IF value = Missing THEN default ELSE value

\* The entry of baselines, made from the first reading if there is none.  Every
\* sample leaves entries for the interfaces it saw and for no other, all with
\* its own time, so that what is `elapsed` is the same for all of them, and
\* nothing for an entry made now.
BaselineOf(i) == OrElse(baseline[i], [c \in Counters |-> OrElse(ReadCounter(i, c), 0)])
ElapsedFor(i) == IF baseline[i] = Missing THEN 0 ELSE elapsed

\* Mutant: the difference is taken modulo the width of the counter.
CounterRateWraps(i, c) ==
  LET now == ReadCounter(i, c)
  IN IF now # Missing /\ ElapsedFor(i) > 0
     THEN [bytes |-> (now + 16 - BaselineOf(i)[c]) % 16, over |-> ElapsedFor(i)]
     ELSE Missing

CounterRate(i, c) ==
  LET now == ReadCounter(i, c)
  IN IF now # Missing /\ ElapsedFor(i) > 0 /\ now >= BaselineOf(i)[c]
     THEN [bytes |-> now - BaselineOf(i)[c], over |-> ElapsedFor(i)]
     ELSE Missing

\* Every listed interface gets a row, and its baseline the time of this sample,
\* also where a counter could not be read.  A graph shows 0 for a missing rate.
SampleNetwork ==
  /\ rate' = [i \in Interfaces |-> [c \in Counters |->
               IF i \in present THEN CounterRate(i, c) ELSE Missing]]
  /\ history' = [i \in Interfaces |-> [c \in Counters |->
                  IF i \in present
                  THEN Push(history[i][c], HistoryCapacity, OrElse(CounterRate(i, c), 0))
                  ELSE <<>>]]
  /\ baseline' = [i \in Interfaces |->
                   IF i \in present
                   THEN [c \in Counters |-> OrElse(ReadCounter(i, c), BaselineOf(i)[c])]
                   ELSE Missing]
  /\ elapsed' = 0
  /\ flowed' = [i \in Interfaces |-> [c \in Counters |->
                 IF <<i, c>> \in readable THEN 0 ELSE flowed[i][c]]]
  /\ carried' = [i \in Interfaces |-> [c \in Counters |->
                  IF <<i, c>> \in guessed THEN Missing ELSE flowed[i][c]]]
  /\ guessed' = {k \in (present \X Counters) \ readable : baseline[k[1]] = Missing \/ k \in guessed}
  /\ UNCHANGED <<present, bytes, readable>>

NetworkNext ==
  \/ \E i \in Interfaces, c \in Counters : Transfer(i, c) \/ HideOrShow(i, c)
  \/ \E i \in Interfaces : PlugOrUnplug(i)
  \/ NetworkTick
  \/ SampleNetwork

NetworkSpec == NetworkInit /\ [][NetworkNext]_networkVars

-----------------------------------------------------------------------------
(* Properties *)

\* A rate never shows traffic that did not flow: its bytes passed under that name
\* since the counter was last read, also when the interface was replaced, counters
\* were reset or could not be read for some samples.  The first baseline of an
\* unreadable counter is 0, so that its first rate is all traffic it ever
\* counted; that case is left out (it is a hazard of the code).
NoPhantomTraffic ==
  \A i \in Interfaces, c \in Counters :
    rate[i][c] # Missing /\ carried[i][c] # Missing => rate[i][c].bytes <= carried[i][c]

=============================================================================
