--------------------------- MODULE WindowProvider ---------------------------
(* The choice of a source of windows on Linux and, where it is GNOME, the    *)
(* calls between the client and the Shell extension.  The extension asks the *)
(* bus for the caller's PID, looks at that process, asks again and looks     *)
(* again before it answers; meanwhile the caller may end, its PID may be     *)
(* given to another process, and the extension may be disabled and enabled.  *)
(*                                                                           *)
(* JavaScript runs one turn at a time: nothing of the Shell happens while a  *)
(* call is looking at a process, but the system does not wait for it, and a  *)
(* turn that a callback has made ready may run after others.  A connection   *)
(* to the bus closes with its process.                                       *)
EXTENDS Naturals, FiniteSets

CONSTANTS
  CallerPids,
  MaxCallers,   \* bound: processes ever started, numbered from 1
  Trusted,      \* those that run the installed program, for this user
  Calls,        \* bound: calls ever made
  MaxPending,   \* MAX_PENDING_AUTHORIZATIONS
  MaxProviders  \* bound: times the extension is enabled

ASSUME ProviderAssumption == {MaxCallers, MaxPending, MaxProviders} \subseteq Nat

VARIABLES
  runs,         \* the process that has a PID, 0 if none
  callersBorn,  \* how many have been started
  provider,     \* the provider that is exported, 0 if none
  enabledTimes, \* how many there have been
  authorizing,  \* _pendingAuthorizations of each provider
  call,         \* where each call is
  source        \* the backend the client uses

providerVars == <<runs, callersBorn, provider, enabledTimes, authorizing, call, source>>

Callers == 1..MaxCallers
Providers == 1..MaxProviders

\* A process is named by the number of its start: its start time.
NoCall == [step |-> "none", method |-> "GetVersion", caller |-> 0, pid |-> 0,
           provider |-> 0, before |-> 0, answer |-> "none"]

Methods == {"GetVersion", "GetWindows"}

ProviderInit ==
  /\ runs = [p \in CallerPids |-> 0]
  /\ callersBorn = 0
  /\ provider = 0
  /\ enabledTimes = 0
  /\ authorizing = [n \in Providers |-> {}]
  /\ call = [c \in Calls |-> NoCall]
  /\ source = "none"

Disabled(n) == provider # n

(***************************************************************************)
(* The system and the user (external)                                      *)
(***************************************************************************)
StartCaller(p) ==
  /\ runs[p] = 0
  /\ callersBorn < MaxCallers
  /\ callersBorn' = callersBorn + 1
  /\ runs' = [runs EXCEPT ![p] = callersBorn + 1]
  /\ UNCHANGED <<provider, enabledTimes, authorizing, call, source>>

EndCaller(p) ==
  /\ runs[p] # 0
  /\ runs' = [runs EXCEPT ![p] = 0]
  /\ UNCHANGED <<callersBorn, provider, enabledTimes, authorizing, call, source>>

(***************************************************************************)
(* The extension                                                           *)
(***************************************************************************)
\* A call is looking at a process: the Shell does nothing else.
Looking(c) == call[c].step \in {"start", "start again"}
Idle == \A c \in Calls : ~ Looking(c)

\* The caller of a call has the PID p, and so the answer of the bus is p.
Resolves(c, p) == runs[p] = call[c].caller

Answered(c, answer) ==
  call' = [call EXCEPT ![c] = [NoCall EXCEPT !.step = "answered", !.answer = answer]]

Freed(c) == authorizing' = [authorizing EXCEPT ![call[c].provider] = @ \ {c}]

\* enable
Enable ==
  /\ Idle
  /\ provider = 0
  /\ enabledTimes < MaxProviders
  /\ enabledTimes' = enabledTimes + 1
  /\ provider' = enabledTimes + 1
  /\ UNCHANGED <<runs, callersBorn, authorizing, call, source>>

\* disable: the lookups of the pending calls are cancelled, which is what
\* LookupFails does to them next.
Disable ==
  /\ Idle
  /\ provider # 0
  /\ authorizing' = [authorizing EXCEPT ![provider] = {}]
  /\ provider' = 0
  /\ UNCHANGED <<runs, callersBorn, enabledTimes, call, source>>

\* _startAuthorizedCall: what becomes of a call that arrives at provider n.
Start(n) == IF Cardinality(authorizing[n]) >= MaxPending THEN "busy" ELSE "pid"

\* A client calls GetVersion when it connects and GetWindows for a sample.
StartAuthorizedCall(c, p, method) ==
  /\ Idle
  /\ call[c].step = "none"
  /\ provider # 0
  /\ runs[p] # 0
  /\ LET first == [NoCall EXCEPT !.method = method, !.caller = runs[p],
                                 !.provider = provider]
     IN  IF Start(provider) = "busy"
           THEN Answered(c, "busy") /\ UNCHANGED authorizing
           ELSE /\ call' = [call EXCEPT ![c] = [first EXCEPT !.step = "pid"]]
                /\ authorizing' = [authorizing EXCEPT ![provider] = @ \union {c}]
  /\ UNCHANGED <<runs, callersBorn, provider, enabledTimes, source>>

\* resolveSenderPid: the reply to the first lookup.
ResolvePid(c, p) ==
  /\ Idle
  /\ call[c].step = "pid"
  /\ ~ Disabled(call[c].provider)
  /\ Resolves(c, p)
  /\ call' = [call EXCEPT ![c].step = "found", ![c].pid = p]
  /\ UNCHANGED <<runs, callersBorn, provider, enabledTimes, authorizing, source>>

\* The reply to the second one must be the same.
ResolveAgain(c, p) ==
  /\ Idle
  /\ call[c].step = "pid again"
  /\ ~ Disabled(call[c].provider)
  /\ Resolves(c, p)
  /\ p = call[c].pid
  /\ call' = [call EXCEPT ![c].step = "found again"]
  /\ UNCHANGED <<runs, callersBorn, provider, enabledTimes, authorizing, source>>

\* The bus does not know the name, does not answer in time, or the lookup has
\* been cancelled.
LookupFails(c) ==
  /\ Idle
  /\ call[c].step \in {"pid", "pid again"}
  /\ Answered(c, "denied")
  /\ Freed(c)
  /\ UNCHANGED <<runs, callersBorn, provider, enabledTimes, source>>

\* The process with the PID runs the installed program, which only root may
\* replace, for the user of the Shell.
IsTrusted(p) == runs[p] \in Trusted

\* inspectProcessExecutable: the executable, which must be the installed one.
InspectExecutable(c) ==
  /\ Idle
  /\ call[c].step \in {"found", "found again"}
  /\ IF IsTrusted(call[c].pid)
       THEN /\ call' = [call EXCEPT ![c].step = IF @ = "found" THEN "start" ELSE "start again"]
            /\ UNCHANGED authorizing
       ELSE Answered(c, "denied") /\ Freed(c)
  /\ UNCHANGED <<runs, callersBorn, provider, enabledTimes, source>>

\* Mutant: the caller's PID is looked up once.
AfterInspectionNoLookup == "found again"

\* What follows when the process has been inspected for the first time: the
\* second lookup.
AfterInspection == "pid again"

\* inspectProcessExecutable: the start time.
ReadStartTime(c) ==
  /\ call[c].step = "start"
  /\ IF runs[call[c].pid] = 0
       THEN Answered(c, "denied") /\ Freed(c)
       ELSE /\ call' = [call EXCEPT ![c].before = runs[call[c].pid],
                                    ![c].step = AfterInspection]
            /\ UNCHANGED authorizing
  /\ UNCHANGED <<runs, callersBorn, provider, enabledTimes, source>>

\* _authorizeAndReply: nothing from a provider disabled meanwhile, and a
\* snapshot may exceed its limits.
Replies(c) ==
  IF Disabled(call[c].provider) THEN {"failed"}
  ELSE IF call[c].method = "GetVersion" THEN {"version"}
  ELSE {"windows", "failed"}

\* The same start time again: the call is answered in the same turn.
Reply(c) ==
  /\ call[c].step = "start again"
  /\ \E answer \in IF runs[call[c].pid] = call[c].before THEN Replies(c) ELSE {"denied"} :
       Answered(c, answer)
  /\ Freed(c)
  /\ UNCHANGED <<runs, callersBorn, provider, enabledTimes, source>>

(***************************************************************************)
(* The client                                                              *)
(***************************************************************************)
\* What ApplicationsProvider::new takes: the first that works of Wayland's
\* registries, the extension and X11.
Chosen(wayland, version, x11) ==
  CASE wayland -> "wayland"
    [] ~ wayland /\ version -> "gnome"
    [] ~ wayland /\ ~ version /\ x11 -> "x11"
    [] OTHER -> "unavailable"

\* GnomeSession::connect succeeds when a GetVersion of a client was answered
\* with the version; any other answer, or none in time, is a failure.
Choose(wayland, x11) ==
  /\ source = "none"
  /\ \E version \in {FALSE} \union {call[c].answer = "version" : c \in Calls} :
       source' = Chosen(wayland, version, x11)
  /\ UNCHANGED <<runs, callersBorn, provider, enabledTimes, authorizing, call>>

ProviderNext ==
  \/ \E p \in CallerPids : StartCaller(p) \/ EndCaller(p)
  \/ Enable \/ Disable
  \/ \E c \in Calls, p \in CallerPids, m \in Methods : StartAuthorizedCall(c, p, m)
  \/ \E c \in Calls, p \in CallerPids : ResolvePid(c, p) \/ ResolveAgain(c, p)
  \/ \E c \in Calls : LookupFails(c) \/ InspectExecutable(c) \/ ReadStartTime(c) \/ Reply(c)
  \/ \E wayland, x11 \in BOOLEAN : Choose(wayland, x11)

ProviderSpec == ProviderInit /\ [][ProviderNext]_providerVars

(***************************************************************************)
(* Properties                                                              *)
(***************************************************************************)
\* Only the trusted program is answered, and by a provider that is enabled when
\* it answers, whatever happens while the caller is looked up; and a call holds
\* a slot of its provider exactly while it is under way, so that the limit is
\* neither exceeded nor used up for ever.
SlotsOfCallsUnderWay ==
  /\ \A n \in Providers : Cardinality(authorizing[n]) <= MaxPending
  /\ \A n \in Providers : authorizing[n] =
       {c \in Calls : call[c].step \notin {"none", "answered"} /\ call[c].provider = n} \
         (IF Disabled(n) THEN Calls ELSE {})

AnswersAreAuthorized ==
  /\ []SlotsOfCallsUnderWay
  /\ [][\A c \in Calls :
          /\ call[c].step # "answered"
          /\ call'[c].answer \in {"version", "windows"}
          => call[c].caller \in Trusted /\ ~ Disabled(call[c].provider)]_providerVars
=============================================================================
