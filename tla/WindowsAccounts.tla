--------------------------- MODULE WindowsAccounts ---------------------------
(* Account names on the Processes page of Windows: the names of security      *)
(* identifiers, kept in a cache of a fixed size, and the accounts of services, *)
(* enumerated while services start and stop, for the processes whose user      *)
(* cannot be read.  A name is represented by the identifier it belongs to.     *)
EXTENDS Integers, FiniteSets, FiniteSetsExt, Functions

CONSTANTS
  Sids,           \* security identifiers
  Services,       \* services: <<the PID that hosts it, its account>>
  MaxNames,       \* AccountNameCache::MAX_ENTRIES
  RefreshSteps,   \* SERVICE_ACCOUNT_REFRESH_INTERVAL, in samples
  MaxUnused,      \* bound: refreshes without a use that are told apart
  Unnamed         \* None of Option

ASSUME AccountAssumption ==
  /\ MaxNames \in Nat /\ MaxUnused \in Nat
  /\ \A service \in Services : service = <<service[1], service[2]>>

VARIABLES
  services,    \* the running services
  names,       \* AccountNameCache.entries: how many refreshes ago each was used
  listed,      \* the services this enumeration has returned, or Unnamed
  accounts,    \* the account of each PID so far, Unnamed where services differ
  readable,    \* history: the listed services whose account could be read
  known,       \* service_accounts
  age          \* samples since service_accounts_at, or Unnamed

accountVars == <<services, names, listed, accounts, readable, known, age>>

NoAccounts == [p \in {} |-> Unnamed]

AccountInit ==
  /\ services = {}
  /\ names = NoAccounts
  /\ listed = Unnamed /\ accounts = NoAccounts /\ readable = {}
  /\ known = NoAccounts /\ age = Unnamed

\* (external)
StartOrStopService(service) ==
  /\ services' = SymDiff(services, {service})
  /\ UNCHANGED <<names, listed, accounts, readable, known, age>>

-----------------------------------------------------------------------------
\* begin_refresh; then the services are enumerated if that has not succeeded
\* within the interval.
BeginRefresh ==
  /\ listed = Unnamed
  /\ names' = [s \in DOMAIN names |-> Min({names[s] + 1, MaxUnused})]
  /\ IF age = Unnamed \/ age = RefreshSteps
     THEN listed' = {} /\ UNCHANGED age
     ELSE age' = age + 1 /\ UNCHANGED listed
  /\ UNCHANGED <<services, accounts, readable, known>>

\* Mutant: those used last go.
RemovedNewest(sid) ==
  IF sid \in DOMAIN names \/ Cardinality(DOMAIN names) < MaxNames THEN {{}}
  ELSE {{s} : s \in {s \in DOMAIN names : \A t \in DOMAIN names : names[t] >= names[s]}}

\* AccountNameCache::insert: for a new name in a full cache, one of those unused
\* for longest goes.
Removed(sid) ==
  IF sid \in DOMAIN names \/ Cardinality(DOMAIN names) < MaxNames THEN {{}}
  ELSE {{s} : s \in {s \in DOMAIN names : \A t \in DOMAIN names : names[t] <= names[s]}}

\* A name is found in the cache, or looked up and kept.
AccountName(sid) ==
  /\ \E gone \in Removed(sid) :
       names' = [s \in (DOMAIN names \ gone) \cup {sid} |-> IF s = sid THEN 0 ELSE names[s]]
  /\ UNCHANGED <<services, listed, accounts, readable, known, age>>

\* query_service_process_accounts: the account of one more service, which may be
\* unreadable.  Services of one process that disagree leave it without account.
ReadService(service) ==
  /\ listed # Unnamed /\ service \in services \ listed
  /\ listed' = listed \cup {service}
  /\ LET pid == service[1]
         account == IF pid \in DOMAIN accounts /\ accounts[pid] # service[2]
                    THEN Unnamed ELSE service[2]
     IN \/ UNCHANGED <<accounts, readable>>
        \/ /\ accounts' = [p \in DOMAIN accounts \cup {pid} |->
                             IF p = pid THEN account ELSE accounts[p]]
           /\ readable' = readable \cup {service}
  /\ UNCHANGED <<services, names, known, age>>

\* A failed enumeration leaves the accounts known before, and is tried again.
EndServices ==
  /\ listed # Unnamed
  /\ \/ /\ services \subseteq listed
        /\ known' = Restrict(accounts, {p \in DOMAIN accounts : accounts[p] # Unnamed})
        /\ age' = 0
     \/ UNCHANGED <<known, age>>
  /\ listed' = Unnamed /\ accounts' = NoAccounts /\ readable' = {}
  /\ UNCHANGED <<services, names>>

AccountNext ==
  \/ \E service \in Services : StartOrStopService(service) \/ ReadService(service)
  \/ BeginRefresh
  \/ \E sid \in Sids : AccountName(sid)
  \/ EndServices

AccountSpec == AccountInit /\ [][AccountNext]_accountVars

-----------------------------------------------------------------------------
(* Properties *)

\* The cache keeps to its size and, as long as it can, every name used since the
\* refresh began; a process is shown under the account of a service only if all
\* services read with it agree, in whatever order they were returned and started.
AccountsSound ==
  [][/\ Cardinality(DOMAIN names') <= MaxNames
     /\ \A s \in DOMAIN names \ DOMAIN names' :
          names[s] > 0 \/ \A t \in DOMAIN names' : names'[t] = 0
     /\ known' # known =>
          \A p \in DOMAIN known' : {s \in readable : s[1] = p} = {<<p, known'[p]>>}
    ]_accountVars

=============================================================================
