-------------------------- MODULE DiagnosticStore --------------------------
(* Where the diagnostic log is kept: a root directory with one session for   *)
(* each start of the program, a session with numbered parts.  Every instance *)
(* removes old sessions when it starts and whenever it begins another part,  *)
(* without any lock against the other instances.                             *)
(*                                                                           *)
(* Sessions are numbered in the order of their names, which begin with the   *)
(* time they were created.  Sizes are counted in units of one record.        *)
EXTENDS Naturals, FiniteSets, FiniteSetsExt

CONSTANTS
  Writers,       \* instances of the program
  SessionLimit,  \* LOG_SESSION_LIMIT
  RootLimit,     \* LOG_ROOT_LIMIT_BYTES
  PartLimit,     \* LOG_PART_LIMIT_BYTES
  MaxSessions,   \* bound: sessions ever created
  MaxParts,      \* bound: parts of a session
  MaxForeign     \* bound: sessions with files of somebody else

ASSUME StoreAssumption ==
  /\ IsFiniteSet(Writers)
  /\ {SessionLimit, RootLimit, PartLimit, MaxSessions, MaxParts, MaxForeign} \subseteq Nat \ {0}

VARIABLES
  sessions,  \* the session directories that exist
  created,   \* how many there have ever been
  parts,     \* the sizes of the parts of each session, by number
  foreign,   \* the sessions in which somebody else put a file
  at,        \* where an instance is
  phase,     \* why it applies retention: first, second (starting) or rotation
  mine,      \* its session, 0 before it has one
  found,     \* the locals of cleanup_retention
  part,      \* FileSink::part
  written,   \* FileSink::bytes_written
  lapsed     \* history: some retention was cut short

storeVars == <<sessions, created, parts, foreign, at, phase, mine, found, part, written, lapsed>>

Ids == 1..MaxSessions
NoParts == [n \in {} |-> 0]
ForAll(value) == [w \in Writers |-> value]

\* todo: the sessions listed and not looked at yet; size: what they took;
\* total, remaining: what is believed to be left; files: those of the session
\* that is being deleted.
NothingYet == [todo |-> {}, size |-> <<>>, total |-> 0, remaining |-> 0, session |-> 0, files |-> {}]

StoreInit ==
  /\ sessions = {}
  /\ created = 0
  /\ parts = [s \in Ids |-> NoParts]
  /\ foreign = {}
  /\ at = ForAll("stopped")
  /\ phase = ForAll("first")
  /\ mine = ForAll(0)
  /\ found = ForAll(NothingYet)
  /\ part = ForAll(0)
  /\ written = ForAll(0)
  /\ lapsed = FALSE

\* directory_tree_size of a session: the files directly in it.
DirectorySize(s) == MapThenSumSet(LAMBDA n : parts[s][n], DOMAIN parts[s])

\* directory_tree_size of the root: it does not descend into the sessions, and
\* nothing is kept beside them.
RootSize == 0

Goto(w, place) == at' = [at EXCEPT ![w] = place]

(***************************************************************************)
(* cleanup_retention and delete_session_safely                             *)
(***************************************************************************)
Scan(w) ==
  /\ at[w] = "scan"
  /\ Goto(w, "examine")
  /\ found' = [found EXCEPT ![w] =
       [NothingYet EXCEPT !.todo = sessions,
                       !.size = [s \in sessions |-> DirectorySize(s)],
                       !.total = MapThenSumSet(DirectorySize, sessions),
                       !.remaining = Cardinality(sessions)]]
  /\ UNCHANGED <<sessions, created, parts, foreign, phase, mine, part, written, lapsed>>

\* Mutant: one session more is tolerated.
WithinLimitsLoosely(w) ==
  found[w].remaining <= SessionLimit + 1 /\ found[w].total <= RootLimit

WithinLimits(w) == found[w].remaining <= SessionLimit /\ found[w].total <= RootLimit

\* The oldest session is skipped if it is the own one (which the first phase
\* does not have yet), has vanished or holds an unknown file.
Examine(w) ==
  /\ at[w] = "examine"
  /\ found[w].todo # {}
  /\ ~WithinLimits(w)
  /\ LET s == Min(found[w].todo)
         rest == [found[w] EXCEPT !.todo = @ \ {s}]
     IN IF s = mine[w] \/ s \notin sessions \/ s \in foreign
        THEN found' = [found EXCEPT ![w] = rest] /\ UNCHANGED at
        ELSE /\ found' = [found EXCEPT ![w] =
                            [rest EXCEPT !.session = s, !.files = DOMAIN parts[s]]]
             /\ Goto(w, "delete")
  /\ UNCHANGED <<sessions, created, parts, foreign, phase, mine, part, written, lapsed>>

AfterRetention(w) ==
  CASE phase[w] = "first" -> "create"
    [] phase[w] = "second" -> "open"
    [] phase[w] = "rotation" -> "reserve"

RetentionDone(w) ==
  /\ at[w] = "examine"
  /\ found[w].todo = {} \/ WithinLimits(w)
  /\ Goto(w, AfterRetention(w))
  /\ found' = [found EXCEPT ![w] = NothingYet]
  /\ UNCHANGED <<sessions, created, parts, foreign, phase, mine, part, written, lapsed>>

\* At a start an error is noted and the start goes on; a rotation gives up, and
\* with it the log.
RetentionFails(w) ==
  /\ Goto(w, IF phase[w] = "rotation" THEN "disabled" ELSE AfterRetention(w))
  /\ found' = [found EXCEPT ![w] = NothingYet]
  /\ lapsed' = TRUE

\* The listed files are removed.  One that is gone already is an error.
RemoveFiles(w) ==
  /\ at[w] = "delete"
  /\ LET s == found[w].session
         present == DOMAIN parts[s]
     IN /\ parts' = [parts EXCEPT ![s] = [n \in present \ found[w].files |-> @[n]]]
        /\ IF found[w].files \subseteq present
           THEN Goto(w, "rmdir") /\ UNCHANGED <<found, lapsed>>
           ELSE RetentionFails(w)
  /\ UNCHANGED <<sessions, created, foreign, phase, mine, part, written>>

Deleted(w, s) ==
  /\ sessions' = sessions \ {s}
  /\ found' = [found EXCEPT ![w].total = @ - found[w].size[s],
                             ![w].remaining = @ - 1,
                             ![w].session = 0, ![w].files = {}]
  /\ Goto(w, "examine")
  /\ UNCHANGED lapsed

\* Mutant: the directory is removed with all that is in it.
RemoveDirectoryTree(w) ==
  /\ at[w] = "rmdir"
  /\ Deleted(w, found[w].session)
  /\ parts' = [parts EXCEPT ![found[w].session] = NoParts]
  /\ UNCHANGED <<created, foreign, phase, mine, part, written>>

\* remove_dir refuses a directory that is gone or is not empty.
RemoveDirectory(w) ==
  /\ at[w] = "rmdir"
  /\ LET s == found[w].session IN
       IF s \in sessions \ foreign /\ parts[s] = NoParts
       THEN Deleted(w, s)
       ELSE RetentionFails(w) /\ UNCHANGED sessions
  /\ UNCHANGED <<created, parts, foreign, phase, mine, part, written>>

(***************************************************************************)
(* prepare_directories, FileSink::open, write_line and rotate              *)
(***************************************************************************)
Start(w) ==
  /\ at[w] = "stopped"
  /\ created < MaxSessions
  /\ Goto(w, "scan")
  /\ UNCHANGED <<sessions, created, parts, foreign, phase, mine, found, part, written, lapsed>>

\* create_session_directory: names carry time, process and a sequence number;
\* one that exists is tried again with another number.
CreateSession(w) ==
  /\ at[w] = "create"
  /\ created < MaxSessions
  /\ created' = created + 1
  /\ sessions' = sessions \cup {created + 1}
  /\ mine' = [mine EXCEPT ![w] = created + 1]
  /\ phase' = [phase EXCEPT ![w] = "second"]
  /\ Goto(w, "scan")
  /\ UNCHANGED <<parts, foreign, found, part, written, lapsed>>

\* A part can be created while the session exists.
CreatePart(w, n, size) ==
  IF mine[w] \in sessions
  THEN /\ parts' = [parts EXCEPT ![mine[w]] =
                      [m \in DOMAIN @ \cup {n} |-> IF m = n THEN size ELSE @[m]]]
       /\ part' = [part EXCEPT ![w] = n]
       /\ written' = [written EXCEPT ![w] = size]
       /\ Goto(w, "running")
  ELSE /\ Goto(w, "disabled")
       /\ UNCHANGED <<parts, part, written>>

OpenSink(w) ==
  /\ at[w] = "open"
  /\ CreatePart(w, 0, 0)
  /\ UNCHANGED <<sessions, created, foreign, phase, mine, found, lapsed>>

\* write_line.  Records go on into a part that somebody has deleted.
WriteLine(w) ==
  /\ at[w] = "running"
  /\ written[w] < PartLimit
  /\ written' = [written EXCEPT ![w] = @ + 1]
  /\ parts' = IF part[w] \in DOMAIN parts[mine[w]]
              THEN [parts EXCEPT ![mine[w]][part[w]] = @ + 1]
              ELSE parts
  /\ UNCHANGED <<sessions, created, foreign, at, phase, mine, found, part, lapsed>>

\* The next record does not fit.
Rotate(w) ==
  /\ at[w] = "running"
  /\ written[w] = PartLimit
  /\ part[w] + 1 < MaxParts
  /\ Goto(w, "scan")
  /\ phase' = [phase EXCEPT ![w] = "rotation"]
  /\ UNCHANGED <<sessions, created, parts, foreign, mine, found, part, written, lapsed>>

\* Room for another part is looked for in the root; then the record is written.
ReservePart(w) ==
  /\ at[w] = "reserve"
  /\ IF RootSize + PartLimit > RootLimit
     THEN Goto(w, "disabled") /\ UNCHANGED <<parts, part, written>>
     ELSE CreatePart(w, part[w] + 1, 1)
  /\ UNCHANGED <<sessions, created, foreign, phase, mine, found, lapsed>>

(***************************************************************************)
(* The user                                                                *)
(***************************************************************************)
\* An instance ends, in the middle of whatever it does.
Halt(w) ==
  /\ at[w] # "stopped"
  /\ Goto(w, "stopped")
  /\ phase' = [phase EXCEPT ![w] = "first"]
  /\ mine' = [mine EXCEPT ![w] = 0]
  /\ found' = [found EXCEPT ![w] = NothingYet]
  /\ part' = [part EXCEPT ![w] = 0]
  /\ written' = [written EXCEPT ![w] = 0]
  /\ lapsed' = (lapsed \/ at[w] \notin {"running", "disabled"})
  /\ UNCHANGED <<sessions, created, parts, foreign>>

PlaceFile(s) ==
  /\ s \in sessions
  /\ Cardinality(foreign) < MaxForeign
  /\ foreign' = foreign \cup {s}
  /\ UNCHANGED <<sessions, created, parts, at, phase, mine, found, part, written, lapsed>>

StoreNext ==
  \/ \E w \in Writers :
       \/ Start(w) \/ Scan(w) \/ Examine(w) \/ RetentionDone(w)
       \/ RemoveFiles(w) \/ RemoveDirectory(w)
       \/ CreateSession(w) \/ OpenSink(w)
       \/ WriteLine(w) \/ Rotate(w) \/ ReservePart(w)
       \/ Halt(w)
  \/ \E s \in Ids : PlaceFile(s)

StoreSpec == StoreInit /\ [][StoreNext]_storeVars

-----------------------------------------------------------------------------
(* Properties *)

\* A file that somebody else put into a session is never deleted, whenever it
\* is put there (the test retention_removes_only_known_direct_session_files).
ForeignFilesKept == foreign \subseteq sessions

\* Two instances may list, delete and create sessions at the same time: unless
\* a retention was cut short, there are no more sessions than the limit and
\* those whose instance has not come to its second cleanup's end.
SessionsBounded ==
  lapsed \/ Cardinality(sessions)
            <= SessionLimit + Cardinality(foreign)
               + Cardinality({w \in Writers : phase[w] = "second"
                                              /\ at[w] \notin {"open", "running", "disabled", "stopped"}})

\* Retention removes the program's own old sessions, all of them that exceed the
\* limits, and nothing else.
RetentionSafe == ForeignFilesKept /\ SessionsBounded

=============================================================================
