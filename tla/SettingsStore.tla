--------------------------- MODULE SettingsStore ---------------------------
(* The settings file: one or more instances of the program load it, put it   *)
(* aside when they cannot parse it, and replace it through a temporary file. *)
(* Several saves of one instance may overlap, because each runs on a thread  *)
(* of its own; an instance may be killed, and the power may fail.            *)
(*                                                                           *)
(* The file system is external.  What matters of it is that a rename is      *)
(* atomic, that data are on the disk only after sync_all, and names only     *)
(* after the directory was synced (sync_directory does that on Unix).        *)
(* `images` are the directories a power failure may leave.                   *)
EXTENDS Naturals, FiniteSets

CONSTANTS
  Instances,       \* instances of the program that run at the same time
  Saves,           \* calls of save; each one writes settings of its own
  MaxMillis,       \* bound: the clock (milliseconds) goes from 0 to MaxMillis
  SyncsDirectory,  \* TRUE on Unix
  NoFile, Damaged  \* no settings file; one that no save has written

ASSUME SettingsAssumption ==
  /\ MaxMillis \in Nat
  /\ SyncsDirectory \in BOOLEAN
  /\ {NoFile, Damaged} \cap Saves = {}
  /\ NoFile # Damaged

VARIABLES
  millis,   \* unix_time_millis()
  file,     \* what settings.json is: NoFile, Damaged or the save it comes from
  aside,    \* the files put aside: <<millisecond in the name, what it is>>
  images,   \* the values of [file, aside] the disk may hold
  temps,    \* temporary files: <<instance and millisecond in the name, save>>
  content,  \* what the file written by a save holds
  call,     \* where a call of save is
  owner,    \* the instance that made it
  instance, \* where an instance is: down, loading, replacing or running
  done,     \* saves that returned Ok
  before    \* the saves that had returned Ok when a save began

settingsVars == <<millis, file, aside, images, temps, content, call, owner,
                  instance, done, before>>

SettingsInit ==
  /\ millis = 0
  /\ file = Damaged
  /\ aside = {}
  /\ images = {[file |-> Damaged, aside |-> {}]}
  /\ temps = {}
  /\ content = [s \in Saves |-> "none"]
  /\ call = [s \in Saves |-> "unused"]
  /\ owner = [s \in Saves |-> NoFile]
  /\ instance = [i \in Instances |-> "down"]
  /\ done = {}
  /\ before = [s \in Saves |-> {}]

\* One change of the directory: it is visible at once, on the disk some time.
Rename(newFile, newAside) ==
  /\ file' = newFile
  /\ aside' = newAside
  /\ images' = images \cup {[file |-> newFile, aside |-> newAside]}

(***************************************************************************)
(* load                                                                    *)
(***************************************************************************)
\* An instance opens and parses the file.  Nothing more happens if there is
\* none, if it cannot be opened, or if it is good; but a read error in the
\* middle of a good file reaches the same branch as a syntax error.
Load(i) ==
  /\ instance[i] = "down"
  /\ \E result \in {"running"} \cup (IF file = NoFile THEN {} ELSE {"replacing"}) :
       instance' = [instance EXCEPT ![i] = result]
  /\ UNCHANGED <<millis, file, aside, images, temps, content, call, owner, done, before>>

\* Mutant: the corrupt file is removed.
PutAsideRemoves(i) ==
  /\ instance[i] = "replacing"
  /\ instance' = [instance EXCEPT ![i] = "running"]
  /\ IF file = NoFile THEN UNCHANGED <<file, aside, images>> ELSE Rename(NoFile, aside)
  /\ UNCHANGED <<millis, temps, content, call, owner, done, before>>

\* It renames whatever now has the name; if nothing has, load fails.
PutAside(i) ==
  /\ instance[i] = "replacing"
  /\ instance' = [instance EXCEPT ![i] = "running"]
  /\ IF file = NoFile
     THEN UNCHANGED <<file, aside, images>>
     ELSE Rename(NoFile, {a \in aside : a[1] # millis} \cup {<<millis, file>>})
  /\ UNCHANGED <<millis, temps, content, call, owner, done, before>>

(***************************************************************************)
(* save                                                                    *)
(***************************************************************************)
Begin(i, s) ==
  /\ instance[i] = "running"
  /\ call[s] = "unused"
  /\ call' = [call EXCEPT ![s] = "create"]
  /\ owner' = [owner EXCEPT ![s] = i]
  /\ before' = [before EXCEPT ![s] = done]
  /\ UNCHANGED <<millis, file, aside, images, temps, content, instance, done>>

\* create_private_file refuses a name that exists.
CreateTemporary(s) ==
  /\ call[s] = "create"
  /\ IF \E t \in temps : t[1] = owner[s] /\ t[2] = millis
     THEN /\ call' = [call EXCEPT ![s] = "failed"]
          /\ UNCHANGED <<temps, content>>
     ELSE /\ call' = [call EXCEPT ![s] = "write"]
          /\ temps' = temps \cup {<<owner[s], millis, s>>}
          /\ content' = [content EXCEPT ![s] = "partial"]
  /\ UNCHANGED <<millis, file, aside, images, owner, instance, done, before>>

\* Mutant: the file is renamed without being synced.
WriteTemporaryUnsynced(s) ==
  /\ call[s] = "write"
  /\ call' = [call EXCEPT ![s] = "rename"]
  /\ content' = [content EXCEPT ![s] = "whole"]
  /\ UNCHANGED <<millis, file, aside, images, temps, owner, instance, done, before>>

WriteTemporary(s) ==
  /\ call[s] = "write"
  /\ call' = [call EXCEPT ![s] = "sync"]
  /\ content' = [content EXCEPT ![s] = "whole"]
  /\ UNCHANGED <<millis, file, aside, images, temps, owner, instance, done, before>>

SyncTemporary(s) ==
  /\ call[s] = "sync"
  /\ call' = [call EXCEPT ![s] = "rename"]
  /\ content' = [content EXCEPT ![s] = "synced"]
  /\ UNCHANGED <<millis, file, aside, images, temps, owner, instance, done, before>>

\* The temporary name goes with the rename.
Replace(s) ==
  /\ call[s] = "rename"
  /\ call' = [call EXCEPT ![s] = "directory"]
  /\ Rename(s, aside)
  /\ temps' = {t \in temps : t[3] # s}
  /\ UNCHANGED <<millis, content, owner, instance, done, before>>

SyncDirectory(s) ==
  /\ call[s] = "directory"
  /\ call' = [call EXCEPT ![s] = "ok"]
  /\ done' = done \cup {s}
  /\ images' = IF SyncsDirectory THEN {[file |-> file, aside |-> aside]} ELSE images
  /\ UNCHANGED <<millis, file, aside, temps, content, owner, instance, before>>

\* Any of the calls may return an error, which leaves everything as it is, the
\* temporary file included.
SaveFails(s) ==
  /\ call[s] \in {"create", "write", "sync", "rename", "directory"}
  /\ call' = [call EXCEPT ![s] = "failed"]
  /\ UNCHANGED <<millis, file, aside, images, temps, content, owner, instance, done, before>>

(***************************************************************************)
(* The clock, an instance that is killed, and a power failure              *)
(***************************************************************************)
MillisecondPasses ==
  /\ millis < MaxMillis
  /\ millis' = millis + 1
  /\ UNCHANGED <<file, aside, images, temps, content, call, owner, instance, done, before>>

Abandoned(c, gone) ==
  [s \in Saves |-> IF owner[s] \in gone /\ c[s] \notin {"ok", "failed"} THEN "failed" ELSE c[s]]

InstanceDies(i) ==
  /\ instance[i] # "down"
  /\ instance' = [instance EXCEPT ![i] = "down"]
  /\ call' = Abandoned(call, {i})
  /\ UNCHANGED <<millis, file, aside, images, temps, content, owner, done, before>>

\* What was not synced may be lost.
PowerFails ==
  /\ \E i \in Instances : instance[i] # "down"
  /\ instance' = [i \in Instances |-> "down"]
  /\ call' = Abandoned(call, Instances)
  /\ content' = [s \in Saves |-> IF content[s] = "whole" THEN "partial" ELSE content[s]]
  /\ \E image \in images :
       /\ file' = image.file
       /\ aside' = image.aside
       /\ images' = {image}
  /\ UNCHANGED <<millis, temps, owner, done, before>>

SettingsNext ==
  \/ \E i \in Instances :
       \/ Load(i)
       \/ PutAside(i)
       \/ InstanceDies(i)
       \/ \E s \in Saves : Begin(i, s)
  \/ \E s \in Saves :
       \/ CreateTemporary(s)
       \/ WriteTemporary(s)
       \/ SyncTemporary(s)
       \/ Replace(s)
       \/ SyncDirectory(s)
       \/ SaveFails(s)
  \/ MillisecondPasses
  \/ PowerFails

SettingsSpec == SettingsInit /\ [][SettingsNext]_settingsVars

-----------------------------------------------------------------------------
(* Properties *)

\* A later save, begun after these returned, has returned too.
Superseded == UNION {before[s] : s \in done}

Held(image) == {image.file} \cup {a[2] : a \in image.aside}

\* No crash, at any point of any save, leaves a settings file that is written
\* in part: whatever directory the disk may hold, its settings file is absent,
\* the one found at the start, or one that was written and synced to its end.
SettingsWhole ==
  \A image \in images : image.file \in {NoFile, Damaged} \/ content[image.file] = "synced"

\* Settings whose save returned Ok are replaced by later ones only.  Overlapping
\* saves, a load that takes a good file for a corrupt one and puts it aside,
\* instances that die and a power failure all leave, in the settings file or
\* in one put aside, settings that no completed save was meant to replace.
SavedSettingsKept ==
  done # {} => \A image \in images : (Held(image) \cap Saves) \ Superseded # {}

\* Both hold together: what the program saved survives every crash, whole.
SettingsDurable == SettingsWhole /\ SavedSettingsKept

=============================================================================
