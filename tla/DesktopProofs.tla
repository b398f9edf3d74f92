----------------------------- MODULE DesktopProofs -----------------------------
(***************************************************************************)
(* Machine-checked proofs about the desktop program's own state: the       *)
(* settings file and what is in it, the sessions of the log, the single    *)
(* instance, the export of a bundle and the icon of the window, for any    *)
(* number of instances, saves, windows, crashes, parts, clicks, columns.   *)
(***************************************************************************)
EXTENDS SettingsStore, DiagnosticStore, SingleInstance, BundleArchive, TrayWindow, UiSettings,
        SequenceTheorems, FiniteSetTheorems, WellFoundedInduction, TLAPS

-----------------------------------------------------------------------------
(* SettingsStore: what was saved survives every crash, whole.              *)

Calls == {"unused", "create", "write", "sync", "rename", "directory", "ok", "failed"}
Renamed == {"directory", "ok", "failed"}

Current == [file |-> file, aside |-> aside]

SettingsTypeOK ==
  /\ call \in [Saves -> Calls]
  /\ content \in [Saves -> {"none", "partial", "whole", "synced"}]
  /\ owner \in [Saves -> Instances \cup {NoFile}]
  /\ \A s \in Saves : call[s] # "unused" => owner[s] \in Instances
  /\ before \in [Saves -> SUBSET Saves]
  /\ done \subseteq Saves
  /\ Current \in images
  /\ \A image \in images : image = [file |-> image.file, aside |-> image.aside]

\* A call is ok when its save is done, and a save replaces what was done before
\* it began.
DoneIsOk ==
  /\ \A s \in done : call[s] = "ok"
  /\ \A s \in Saves : before[s] \subseteq done

\* What a directory may hold: saves that were renamed, and so synced.
HoldsRenamed(image) ==
  \A s \in Held(image) : \/ s \in {NoFile, Damaged}
                         \/ s \in Saves /\ call[s] \in Renamed /\ content[s] = "synced"

\* The file found at the start is there only until something is put aside.
DamagedComesFirst(image) == image.file = Damaged => image.aside = {}

ImagesAreWhole ==
  /\ \A image \in images : HoldsRenamed(image) /\ DamagedComesFirst(image)
  /\ \A s \in Saves : call[s] \in {"rename", "directory"} => content[s] = "synced"

\* A directory keeps a save outside `old`: the settings file itself if it comes
\* from a save, or else a file put aside.
Keeps(image, old) ==
  IF image.file \in Saves THEN image.file \notin old
  ELSE \E a \in image.aside : a[2] \in Saves \ old

\* Renamed, and about to sync the directory.
Syncing == {s \in Saves : call[s] = "directory"}

\* Every directory the disk may hold keeps a save that no done one replaces; the
\* visible one keeps a save that not even those about to be done replace.
EveryImageKeeps ==
  /\ done # {} => \A image \in images : Keeps(image, Superseded)
  /\ done \cup Syncing # {} => Keeps(Current, Superseded \cup UNION {before[s] : s \in Syncing})

SettingsInv ==
  SettingsTypeOK /\ DoneIsOk /\ ImagesAreWhole /\ (SyncsDirectory => EveryImageKeeps)

LEMMA SettingsInitially == SettingsInit => SettingsInv
<1> SUFFICES ASSUME SettingsInit PROVE SettingsInv
  OBVIOUS
<1>1. SettingsTypeOK /\ DoneIsOk
  BY DEF SettingsInit, SettingsTypeOK, DoneIsOk, Calls, Current
<1>2. ImagesAreWhole
  BY DEF SettingsInit, ImagesAreWhole, HoldsRenamed, DamagedComesFirst, Held
<1>3. EveryImageKeeps
  BY DEF SettingsInit, EveryImageKeeps, Syncing
<1> QED
  BY <1>1, <1>2, <1>3 DEF SettingsInv

\* Steps that change neither the directory nor what is done, and move no call
\* to or from where its file may be named.
LEMMA QuietKeeps ==
  ASSUME SettingsInv, SettingsTypeOK',
         UNCHANGED <<file, aside, images, done>>,
         \A s \in Saves : call[s] = "ok" => call'[s] = "ok",
         \A s \in Saves : call[s] \in Renamed =>
                            call'[s] \in Renamed /\ content'[s] = content[s],
         \A s \in Saves : call'[s] = "directory" => call[s] = "directory",
         \A s \in Saves : call'[s] = "rename" => content'[s] = "synced",
         \A s \in Saves : before'[s] \subseteq done,
         \A s \in Saves : call[s] # "unused" => before'[s] = before[s]
  PROVE  SettingsInv'
<1> USE DEF SettingsInv
<1>1. DoneIsOk'
  BY DEF DoneIsOk, SettingsTypeOK
<1>2. ImagesAreWhole'
  BY DEF ImagesAreWhole, HoldsRenamed, DamagedComesFirst, Renamed
<1>3. SyncsDirectory => EveryImageKeeps'
  <2>1. \A s \in done : before'[s] = before[s]
    BY DEF DoneIsOk, SettingsTypeOK
  <2>2. Superseded' = Superseded
    BY <2>1 DEF Superseded
  <2>3. Syncing' \subseteq Syncing /\ \A s \in Syncing : before'[s] = before[s]
    BY DEF Syncing
  <2>4. UNION {before'[s] : s \in Syncing'} \subseteq UNION {before[s] : s \in Syncing}
    BY <2>3
  <2>5. Current' = Current
    BY DEF Current
  <2> QED
    BY <2>2, <2>3, <2>4, <2>5 DEF EveryImageKeeps, Keeps
<1> QED
  BY <1>1, <1>2, <1>3

LEMMA LoadKeeps ==
  ASSUME SettingsInv,
         (\E i \in Instances : Load(i)) \/ MillisecondPasses
  PROVE  SettingsInv'
<1>1. UNCHANGED <<file, aside, images, content, call, owner, done, before>>
  BY DEF Load, MillisecondPasses
<1>2. SettingsTypeOK'
  BY <1>1 DEF SettingsInv, SettingsTypeOK, Current
<1> QED
  BY <1>1, <1>2, QuietKeeps DEF SettingsInv, DoneIsOk, ImagesAreWhole, SettingsTypeOK

LEMMA BeginKeeps ==
  ASSUME SettingsInv, NEW i \in Instances, NEW s \in Saves, Begin(i, s)
  PROVE  SettingsInv'
<1> USE DEF SettingsInv, SettingsTypeOK
<1>1. SettingsTypeOK'
  BY DEF Begin, Calls, Current
<1>2. /\ UNCHANGED <<file, aside, images, content, done>>
      /\ call[s] = "unused" /\ call' = [call EXCEPT ![s] = "create"]
      /\ before' = [before EXCEPT ![s] = done]
  BY DEF Begin
<1>3. \A r \in Saves : call'[r] = "rename" => content'[r] = "synced"
  BY <1>2 DEF ImagesAreWhole
<1>4. \A r \in Saves : before'[r] \subseteq done
  BY <1>2 DEF DoneIsOk
<1>5. /\ \A r \in Saves : call[r] = "ok" => call'[r] = "ok"
      /\ \A r \in Saves : call[r] \in Renamed => call'[r] \in Renamed /\ content'[r] = content[r]
      /\ \A r \in Saves : call'[r] = "directory" => call[r] = "directory"
      /\ \A r \in Saves : call[r] # "unused" => before'[r] = before[r]
  BY <1>2 DEF Renamed
<1> QED
  BY <1>1, <1>2, <1>3, <1>4, <1>5, QuietKeeps

\* The steps of a save up to the rename, and its errors.
LEMMA WritingKeeps ==
  ASSUME SettingsInv, NEW s \in Saves,
         CreateTemporary(s) \/ WriteTemporary(s) \/ SyncTemporary(s) \/ SaveFails(s)
  PROVE  SettingsInv'
<1> USE DEF SettingsInv, SettingsTypeOK
<1>1. PICK to \in {"write", "sync", "rename", "failed"},
           what \in {"none", "partial", "whole", "synced"} :
        /\ call' = [call EXCEPT ![s] = to] /\ content' = [content EXCEPT ![s] = what]
        /\ call[s] \in {"create", "write", "sync", "rename", "directory"}
        /\ call[s] = "directory" => to = "failed" /\ what = content[s]
        /\ to = "rename" => what = "synced"
  <2>1. content = [content EXCEPT ![s] = content[s]]
    OBVIOUS
  <2> QED
    BY <2>1 DEF CreateTemporary, WriteTemporary, SyncTemporary, SaveFails
<1>2. UNCHANGED <<file, aside, images, owner, done, before>>
  BY DEF CreateTemporary, WriteTemporary, SyncTemporary, SaveFails
<1>3. SettingsTypeOK'
  BY <1>1, <1>2 DEF Calls, Current
<1>4. \A r \in Saves : call'[r] = "rename" => content'[r] = "synced"
  BY <1>1 DEF ImagesAreWhole
<1>5. /\ \A r \in Saves : call[r] = "ok" => call'[r] = "ok"
      /\ \A r \in Saves : call[r] \in Renamed => call'[r] \in Renamed /\ content'[r] = content[r]
      /\ \A r \in Saves : call'[r] = "directory" => call[r] = "directory"
  BY <1>1 DEF Renamed
<1> QED
  BY <1>2, <1>3, <1>4, <1>5, QuietKeeps DEF DoneIsOk

LEMMA InstanceDiesKeeps ==
  ASSUME SettingsInv, NEW i \in Instances, InstanceDies(i)
  PROVE  SettingsInv'
<1> USE DEF SettingsInv, SettingsTypeOK
<1>1. /\ UNCHANGED <<file, aside, images, content, owner, done, before>>
      /\ call' = [s \in Saves |-> IF owner[s] \in {i} /\ call[s] \notin {"ok", "failed"}
                                 THEN "failed" ELSE call[s]]
  BY DEF InstanceDies, Abandoned
<1>2. \A s \in Saves : call'[s] = call[s] \/ (call'[s] = "failed" /\ owner[s] = i /\ call[s] # "ok")
  BY <1>1
<1>3. SettingsTypeOK'
  BY <1>1, <1>2 DEF Calls, Current
<1>4. /\ \A s \in Saves : call[s] = "ok" => call'[s] = "ok"
      /\ \A s \in Saves : call[s] \in Renamed => call'[s] \in Renamed /\ content'[s] = content[s]
      /\ \A s \in Saves : call'[s] = "directory" => call[s] = "directory"
      /\ \A s \in Saves : before'[s] = before[s]
  BY <1>1, <1>2 DEF Renamed
<1>5. \A s \in Saves : call'[s] = "rename" => content'[s] = "synced"
  BY <1>1, <1>2 DEF ImagesAreWhole
<1> QED
  BY <1>1, <1>3, <1>4, <1>5, QuietKeeps DEF DoneIsOk

\* A new directory made of files that were synced, which keeps a save.
LEMMA RenameKeeps ==
  ASSUME SettingsInv, SettingsTypeOK', DoneIsOk',
         NEW newFile, NEW newAside, Rename(newFile, newAside), UNCHANGED <<content, done, before>>,
         \A s \in Saves : call[s] \in Renamed => call'[s] \in Renamed,
         \A s \in Saves : call'[s] \in {"rename", "directory"} => content[s] = "synced",
         (HoldsRenamed(Current) /\ DamagedComesFirst(Current))',
         done \cup Syncing' # {} => 
           Keeps(Current, Superseded \cup UNION {before[s] : s \in Syncing})' \/ ~SyncsDirectory
  PROVE  SettingsInv'
<1> USE DEF SettingsInv
<1>1. images' = images \cup {Current'}
  BY DEF Rename, Current
<1>2. ImagesAreWhole'
  BY <1>1 DEF ImagesAreWhole, HoldsRenamed, DamagedComesFirst
<1>3. ASSUME SyncsDirectory PROVE EveryImageKeeps'
  <2>1. Superseded' = Superseded
    BY DEF Superseded
  <2>2. done # {} => Keeps(Current, Superseded)'
    BY <1>3, <2>1 DEF Keeps
  <2>3. done # {} => \A image \in images : Keeps(image, Superseded')
    BY <1>3, <2>1 DEF EveryImageKeeps, Keeps
  <2>4. done # {} => \A image \in images' : Keeps(image, Superseded')
    <3>1. Keeps(Current, Superseded)' = Keeps(Current', Superseded')
      BY DEF Keeps
    <3> QED
      BY <1>1, <2>2, <2>3, <3>1
  <2>5. (\A image \in images' : Keeps(image, Superseded')) => (\A image \in images : Keeps(image, Superseded))'
    BY DEF Keeps
  <2> QED
    BY <1>3, <2>4, <2>5 DEF EveryImageKeeps
<1> QED
  BY <1>2, <1>3

LEMMA PutAsideKeeps ==
  ASSUME SettingsInv, NEW i \in Instances, PutAside(i)
  PROVE  SettingsInv'
<1> USE DEF SettingsInv
<1>1. UNCHANGED <<content, call, owner, done, before>>
  BY DEF PutAside
<1>2. DoneIsOk' /\ Syncing' = Syncing /\ Superseded' = Superseded
  BY <1>1 DEF DoneIsOk, Syncing, Superseded
<1>3. CASE file = NoFile
  <2>1. UNCHANGED <<file, aside, images>>
    BY <1>3 DEF PutAside
  <2>2. SettingsTypeOK'
    BY <1>1, <2>1 DEF SettingsTypeOK, Current
  <2> QED
    BY <1>1, <2>1, <2>2, QuietKeeps DEF DoneIsOk, ImagesAreWhole
<1>4. CASE file # NoFile
  <2> DEFINE newAside == {a \in aside : a[1] # millis} \cup {<<millis, file>>}
  <2>1. Rename(NoFile, newAside)
    BY <1>4 DEF PutAside
  <2>2. file' = NoFile /\ aside' = newAside
    BY <2>1 DEF Rename
  <2>3. SettingsTypeOK'
    BY <1>1, <2>1 DEF SettingsTypeOK, Current, Rename
  <2>4. (HoldsRenamed(Current) /\ DamagedComesFirst(Current))'
    <3>1. Held(Current)' \subseteq Held(Current) \cup {NoFile}
      BY <2>2 DEF Held, Current
    <3>2. HoldsRenamed(Current)
      BY DEF ImagesAreWhole, SettingsTypeOK
    <3>3. Current'.file = NoFile
      BY <2>2 DEF Current
    <3> QED
      BY <1>1, <3>1, <3>2, <3>3, SettingsAssumption DEF HoldsRenamed, DamagedComesFirst
  <2>5. ASSUME SyncsDirectory, done \cup Syncing' # {}
        PROVE  Keeps(Current, Superseded \cup UNION {before[s] : s \in Syncing})'
    <3> DEFINE old == Superseded \cup UNION {before[s] : s \in Syncing}
    <3>1. Keeps(Current, old) /\ DamagedComesFirst(Current)
      BY <1>2, <2>5 DEF EveryImageKeeps, ImagesAreWhole, SettingsTypeOK
    <3>2. file \in Saves /\ file \notin old
      <4>1. file \in Saves \/ file = Damaged
        BY <1>4 DEF ImagesAreWhole, SettingsTypeOK, HoldsRenamed, Held, Current
      <4> QED
        BY <3>1, <4>1 DEF Keeps, DamagedComesFirst, Current
    <3>3. <<millis, file>> \in aside' /\ file' \notin Saves
      BY <2>2, SettingsAssumption
    <3>4. old' = old
      BY <1>1, <1>2
    <3> QED
      BY <3>2, <3>3, <3>4 DEF Keeps, Current
  <2> QED
    BY <1>1, <1>2, <2>1, <2>3, <2>4, <2>5, RenameKeeps DEF ImagesAreWhole
<1> QED
  BY <1>3, <1>4

LEMMA ReplaceKeeps ==
  ASSUME SettingsInv, NEW s \in Saves, Replace(s)
  PROVE  SettingsInv'
<1> USE DEF SettingsInv
<1>1. /\ call[s] = "rename" /\ call' = [call EXCEPT ![s] = "directory"]
      /\ Rename(s, aside) /\ file' = s /\ aside' = aside
      /\ UNCHANGED <<content, owner, done, before>>
  BY DEF Replace, Rename
<1>2. SettingsTypeOK' /\ DoneIsOk'
  BY <1>1 DEF SettingsTypeOK, DoneIsOk, Calls, Current, Rename
<1>3. \A r \in Saves : call[r] \in Renamed => call'[r] \in Renamed
  BY <1>1 DEF SettingsTypeOK, Renamed
<1>4. \A r \in Saves : call'[r] \in {"rename", "directory"} => content[r] = "synced"
  BY <1>1 DEF SettingsTypeOK, ImagesAreWhole
<1>5. (HoldsRenamed(Current) /\ DamagedComesFirst(Current))'
  <2>1. Held(Current)' \subseteq Held(Current) \cup {s}
    BY <1>1 DEF Held, Current
  <2>2. HoldsRenamed(Current)
    BY DEF ImagesAreWhole, SettingsTypeOK
  <2>3. Current'.file = s /\ s # Damaged
    BY <1>1, SettingsAssumption DEF Current
  <2>4. content'[s] = "synced" /\ call'[s] \in Renamed
    BY <1>1, <1>4 DEF SettingsTypeOK, Renamed
  <2> QED
    BY <1>1, <1>3, <2>1, <2>2, <2>3, <2>4 DEF HoldsRenamed, DamagedComesFirst
<1>6. Keeps(Current, Superseded \cup UNION {before[r] : r \in Syncing})'
  <2>1. s \notin done /\ \A r \in Saves : before'[r] \subseteq done
    BY <1>1 DEF DoneIsOk
  <2>2. done \subseteq Saves /\ Syncing' \subseteq Saves
    BY DEF SettingsTypeOK, Syncing
  <2>3. s \notin (Superseded \cup UNION {before[r] : r \in Syncing})'
    BY <1>1, <2>1, <2>2 DEF Superseded
  <2> QED
    BY <1>1, <2>3 DEF Keeps, Current
<1> QED
  BY <1>1, <1>2, <1>3, <1>4, <1>5, <1>6, RenameKeeps

LEMMA SyncDirectoryKeeps ==
  ASSUME SettingsInv, NEW s \in Saves, SyncDirectory(s)
  PROVE  SettingsInv'
<1> USE DEF SettingsInv
<1>1. /\ call[s] = "directory" /\ call' = [call EXCEPT ![s] = "ok"] /\ done' = done \cup {s}
      /\ images' \subseteq images /\ Current' = Current /\ Current \in images'
      /\ SyncsDirectory => images' = {Current}
      /\ UNCHANGED <<content, owner, before, file, aside>>
  BY DEF SyncDirectory, SettingsTypeOK, Current
<1>2. SettingsTypeOK' /\ DoneIsOk'
  BY <1>1 DEF SettingsTypeOK, DoneIsOk, Calls
<1>3. ImagesAreWhole'
  <2>1. \A r \in Saves : call[r] \in Renamed => call'[r] \in Renamed
    BY <1>1 DEF SettingsTypeOK, Renamed
  <2>2. \A r \in Saves : call'[r] \in {"rename", "directory"} => call[r] = call'[r]
    BY <1>1 DEF SettingsTypeOK
  <2> QED
    BY <1>1, <2>1, <2>2 DEF ImagesAreWhole, HoldsRenamed, DamagedComesFirst
<1>4. ASSUME SyncsDirectory PROVE EveryImageKeeps'
  <2> DEFINE old == Superseded \cup UNION {before[r] : r \in Syncing}
  <2>1. Keeps(Current, old)
    BY <1>1, <1>4 DEF EveryImageKeeps, Syncing
  <2>2. s \in Syncing /\ Syncing' \subseteq Syncing
    BY <1>1 DEF Syncing, SettingsTypeOK
  <2>3. Superseded' = Superseded \cup before[s]
    BY <1>1 DEF Superseded
  <2>4. old' \subseteq old /\ Superseded' \subseteq old
    BY <1>1, <2>2, <2>3
  <2>5. Keeps(Current, old)' /\ Keeps(Current, Superseded)'
    BY <1>1, <2>1, <2>4 DEF Keeps
  <2>6. \A image \in images' : Keeps(image, Superseded')
    BY <1>1, <1>4, <2>5 DEF Keeps
  <2> QED
    BY <2>5, <2>6 DEF EveryImageKeeps, Keeps
<1> QED
  BY <1>2, <1>3, <1>4

LEMMA PowerFailsKeeps ==
  ASSUME SettingsInv, PowerFails
  PROVE  SettingsInv'
<1> USE DEF SettingsInv
<1>1. PICK image \in images : file' = image.file /\ aside' = image.aside /\ images' = {image}
  BY DEF PowerFails
<1>2. /\ UNCHANGED <<owner, done, before>>
      /\ call' = [s \in Saves |-> IF owner[s] \in Instances /\ call[s] \notin {"ok", "failed"}
                                 THEN "failed" ELSE call[s]]
      /\ content' = [s \in Saves |-> IF content[s] = "whole" THEN "partial" ELSE content[s]]
  BY DEF PowerFails, Abandoned
<1>3. Current' = image /\ SettingsTypeOK'
  <2>1. image = [file |-> image.file, aside |-> image.aside]
    BY DEF SettingsTypeOK
  <2>2. Current' = image
    BY <1>1, <2>1 DEF Current
  <2>3. call' \in [Saves -> Calls] /\ content' \in [Saves -> {"none", "partial", "whole", "synced"}]
    BY <1>2 DEF SettingsTypeOK, Calls
  <2>4. \A s \in Saves : call'[s] # "unused" => owner[s] \in Instances
    BY <1>2 DEF SettingsTypeOK
  <2> QED
    BY <1>1, <1>2, <2>1, <2>2, <2>3, <2>4 DEF SettingsTypeOK
<1>4. \A s \in Saves : call'[s] \in {"unused", "ok", "failed"}
  BY <1>2 DEF SettingsTypeOK, Calls
<1>5. \A s \in Saves :
        /\ (call[s] = "ok" => call'[s] = "ok")
        /\ (call[s] \in Renamed => call'[s] \in Renamed)
        /\ (content[s] = "synced" => content'[s] = "synced")
  BY <1>2 DEF Renamed
<1>6. DoneIsOk'
  BY <1>2, <1>5 DEF DoneIsOk, SettingsTypeOK
<1>7. ImagesAreWhole'
  BY <1>1, <1>4, <1>5 DEF ImagesAreWhole, HoldsRenamed, DamagedComesFirst
<1>8. SyncsDirectory => EveryImageKeeps'
  <2>1. Syncing' = {}
    BY <1>4 DEF Syncing
  <2>2. Superseded' = Superseded
    BY <1>2 DEF Superseded
  <2>3. SyncsDirectory /\ done # {} => Keeps(image, Superseded)
    BY DEF EveryImageKeeps
  <2> QED
    BY <1>1, <1>2, <1>3, <2>1, <2>2, <2>3 DEF EveryImageKeeps, Keeps
<1> QED
  BY <1>3, <1>6, <1>7, <1>8

LEMMA SettingsStep == SettingsInv /\ [SettingsNext]_settingsVars => SettingsInv'
<1> SUFFICES ASSUME SettingsInv, [SettingsNext]_settingsVars PROVE SettingsInv'
  OBVIOUS
<1>1. CASE UNCHANGED settingsVars
  BY <1>1 DEF settingsVars, SettingsInv, SettingsTypeOK, DoneIsOk, ImagesAreWhole, HoldsRenamed,
    DamagedComesFirst, EveryImageKeeps, Keeps, Superseded, Syncing, Current, Held
<1>2. CASE SettingsNext
  BY <1>2, LoadKeeps, BeginKeeps, WritingKeeps, InstanceDiesKeeps, PutAsideKeeps, ReplaceKeeps,
    SyncDirectoryKeeps, PowerFailsKeeps DEF SettingsNext
<1> QED
  BY <1>1, <1>2

\* The settings file is never one that was written in part, whatever is synced.
THEOREM SettingsAreWhole == SettingsSpec => []SettingsWhole
<1>1. SettingsInv => SettingsWhole
  BY DEF SettingsInv, ImagesAreWhole, HoldsRenamed, Held, SettingsWhole
<1> QED
  BY <1>1, SettingsInitially, SettingsStep, PTL DEF SettingsSpec

\* Where the directory is synced as well, what the program saved survives every
\* crash: settings whose save returned Ok are replaced by later ones only.
THEOREM SettingsAreDurable ==
  ASSUME SyncsDirectory = TRUE PROVE SettingsSpec => []SettingsDurable
<1>1. SettingsInv => SettingsDurable
  <2> SUFFICES ASSUME SettingsInv PROVE SettingsDurable
    OBVIOUS
  <2>1. SettingsWhole
    BY DEF SettingsInv, ImagesAreWhole, HoldsRenamed, Held, SettingsWhole
  <2>2. SavedSettingsKept
    <3> SUFFICES ASSUME done # {}, NEW image \in images
                 PROVE  (Held(image) \cap Saves) \ Superseded # {}
      BY DEF SavedSettingsKept
    <3>1. Keeps(image, Superseded)
      BY DEF SettingsInv, EveryImageKeeps
    <3> QED
      BY <3>1 DEF Keeps, Held
  <2> QED
    BY <2>1, <2>2 DEF SettingsDurable
<1> QED
  BY <1>1, SettingsInitially, SettingsStep, PTL DEF SettingsSpec

-----------------------------------------------------------------------------
(* SingleInstance: one instance of each identity.                          *)

Searching == {"search", "open", "authenticate", "send", "confirm", "activated", "create", "created"}
Looking == {"open", "authenticate", "send", "confirm"}
Phases == {"new", "acquire", "wait", "running", "ended"} \cup Searching

StartTypeOK ==
  /\ progress \in [Starts -> Phases]
  /\ pidOf \in [Starts -> StartPids \cup {NoOne}]
  /\ hwnd \in [Starts -> Hwnds \cup {NoOne}]
  /\ mutexHolders \subseteq Starts
  /\ mutexOwner \in mutexHolders \cup {NoOne}
  /\ tried \in [Starts -> SUBSET Hwnds]
  /\ candidate \in [Starts -> [window : Hwnds \cup {NoOne}, id : StartPids \cup {NoOne},
                               process : Starts \cup {NoOne}]]
  /\ answeredBy \in [Starts -> Starts \cup {NoOne}]

\* A PID and a window belong to one process, which has reached that far.
Distinct ==
  /\ \A p, q \in Starts : pidOf[p] = pidOf[q] /\ pidOf[p] # NoOne => p = q
  /\ \A p, q \in Starts : hwnd[p] = hwnd[q] /\ hwnd[p] # NoOne => p = q
  /\ \A p \in Starts :
       /\ (hwnd[p] # NoOne <=> progress[p] \in {"created", "running"})
       /\ (pidOf[p] = NoOne <=> progress[p] \in {"new", "ended"})
       /\ (progress[p] \in {"new", "acquire", "wait"} => tried[p] = {})
       /\ (progress[p] = "wait" => p \in mutexHolders)

\* Who searches without an excuse owns the mutex.
Owning ==
  /\ \A p \in Starts \ excused : progress[p] \in Searching => mutexOwner = p
  /\ mutexOwner # NoOne => progress[mutexOwner] \in Searching

\* The window p looks at is that of q.
LooksAt(p, q) ==
  /\ progress[p] \in Looking
  /\ candidate[p].window = hwnd[q] /\ candidate[p].id = pidOf[q]
  /\ progress[p] # "open" => candidate[p].process = q

\* A search passes by no window of its own identity.
SeesAll(p) ==
  \A q \in Starts \ excused :
    p # q /\ SameIdentity(p, q) /\ hwnd[q] # NoOne /\ progress[p] \in Searching =>
      /\ progress[p] \notin {"create", "created"}
      /\ hwnd[q] \in tried[p] => LooksAt(p, q) \/ progress[p] = "activated"

PassesNone == \A p \in Starts \ excused : SeesAll(p)

\* The peer has been authenticated, and answers or has ended.
PeerOf(p) ==
  LET c == candidate[p].process IN
  /\ progress[p] \in Looking => candidate[p].window # NoOne
  /\ progress[p] \in {"authenticate", "send", "confirm"} => c \in Starts
  /\ progress[p] \in {"send", "confirm"} => SameIdentity(p, c)
  /\ progress[p] = "send" => hwnd[c] = candidate[p].window \/ progress[c] = "ended"
  /\ progress[p] = "confirm" => answeredBy[p] = c \/ progress[c] = "ended"

PeerAnswers == \A p \in Starts : PeerOf(p)

StartInv ==
  StartTypeOK /\ Distinct /\ Owning /\ PassesNone /\ PeerAnswers /\ OneInstance

LEMMA OwnerOfWindow ==
  ASSUME StartTypeOK, Distinct, NEW h, h # NoOne
  PROVE  /\ \A q \in Starts : hwnd[q] = h => OwnerOf(h) = q
         /\ OwnerOf(h) # NoOne => OwnerOf(h) \in Starts /\ hwnd[OwnerOf(h)] = h
         /\ OwnerOf(h) = NoOne => \A q \in Starts : hwnd[q] # h
<1>1. ASSUME NEW q \in Starts, hwnd[q] = h PROVE OwnerOf(h) = q
  <2>1. \A p \in Starts : hwnd[p] = h => p = q
    BY <1>1 DEF Distinct
  <2>2. OwnerOf(h) = CHOOSE p \in Starts : hwnd[p] = h
    BY <1>1 DEF OwnerOf
  <2> QED
    BY <1>1, <2>1, <2>2
<1>2. ASSUME \A q \in Starts : hwnd[q] # h PROVE OwnerOf(h) = NoOne
  BY <1>2 DEF OwnerOf
<1> QED
  BY <1>1, <1>2, StartAssumption

LEMMA StartInitially == StartInit => StartInv
<1> SUFFICES ASSUME StartInit PROVE StartInv
  OBVIOUS
<1>1. StartTypeOK
  BY DEF StartInit, StartTypeOK, Phases, Nowhere
<1>2. Distinct /\ Owning /\ PassesNone /\ PeerAnswers /\ OneInstance
  BY DEF StartInit, Distinct, Owning, PassesNone, SeesAll, PeerAnswers, PeerOf, OneInstance, Searching, Looking
<1> QED
  BY <1>1, <1>2 DEF StartInv

LEMMA BeginStartKeeps ==
  ASSUME StartInv, NEW p \in Starts, BeginStart(p)
  PROVE  StartInv'
<1> USE DEF StartInv, StartTypeOK
<1>1. PICK i \in FreePids : pidOf' = [pidOf EXCEPT ![p] = i]
  BY DEF BeginStart
<1>2. i \in StartPids /\ i # NoOne /\ \A q \in Starts : pidOf[q] # i
  BY <1>1, StartAssumption DEF FreePids
<1>3. /\ progress[p] = "new" /\ progress' = [progress EXCEPT ![p] = "acquire"]
      /\ UNCHANGED <<hwnd, mutexHolders, mutexOwner, candidate, tried, answeredBy, excused>>
  BY DEF BeginStart, Stands, Reaches, mutex, search
<1>4. StartTypeOK'
  BY <1>1, <1>2, <1>3 DEF Phases
<1>5. Distinct'
  BY <1>1, <1>2, <1>3 DEF Distinct
<1>6. Owning'
  BY <1>3 DEF Owning, Searching
<1>7. PassesNone'
  <2>1. \A q \in Starts : hwnd[q] # NoOne => q # p
    BY <1>3 DEF Distinct
  <2> QED
    BY <1>1, <1>3, <2>1 DEF PassesNone, SeesAll, LooksAt, Searching, Looking, SameIdentity
<1>8. PeerAnswers' /\ OneInstance'
  BY <1>3 DEF PeerAnswers, PeerOf, OneInstance, Looking, SameIdentity
<1> QED
  BY <1>4, <1>5, <1>6, <1>7, <1>8

LEMMA DiesKeeps ==
  ASSUME StartInv, NEW p \in Starts, progress[p] \notin {"new", "ended"}, Dies(p)
  PROVE  StartInv'
<1> USE DEF StartInv, StartTypeOK
<1>1. /\ progress' = [progress EXCEPT ![p] = "ended"]
      /\ pidOf' = [pidOf EXCEPT ![p] = NoOne] /\ hwnd' = [hwnd EXCEPT ![p] = NoOne]
      /\ candidate' = [candidate EXCEPT ![p] = Nowhere] /\ tried' = [tried EXCEPT ![p] = {}]
      /\ answeredBy' = [answeredBy EXCEPT ![p] = NoOne]
      /\ mutexHolders' = mutexHolders \ {p}
      /\ mutexOwner' = IF mutexOwner = p THEN NoOne ELSE mutexOwner
      /\ excused' = excused
  BY DEF Dies, Reaches
<1>2. StartTypeOK'
  BY <1>1 DEF Phases, Nowhere
<1>3. Distinct'
  BY <1>1, StartAssumption DEF Distinct
<1>4. Owning'
  BY <1>1, StartAssumption DEF Owning, Searching
<1>5. PassesNone'
  BY <1>1 DEF PassesNone, SeesAll, LooksAt, Searching, Looking, SameIdentity
<1>6. PeerAnswers' /\ OneInstance'
  BY <1>1 DEF PeerAnswers, PeerOf, OneInstance, Looking, SameIdentity
<1> QED
  BY <1>2, <1>3, <1>4, <1>5, <1>6

\* Acquire, WaitSucceeds and WaitTimesOut.
LEMMA AcquireKeeps ==
  ASSUME StartInv, NEW p \in Starts, Acquire(p) \/ WaitSucceeds(p) \/ WaitTimesOut(p)
  PROVE  StartInv'
<1> USE DEF StartInv, StartTypeOK
<1>1. /\ progress[p] \in {"acquire", "wait"} /\ tried[p] = {}
      /\ UNCHANGED <<pidOf, hwnd, candidate, tried, answeredBy>>
  BY DEF Acquire, WaitSucceeds, WaitTimesOut, Stands, Distinct, search
<1>2. PICK to \in {"wait", "search"} : progress' = [progress EXCEPT ![p] = to]
  BY DEF Acquire, WaitSucceeds, WaitTimesOut, Reaches, Unlocked
<1>3. /\ to = "search" => p \in excused' \/ (mutexOwner = NoOne /\ mutexOwner' = p)
      /\ mutexOwner' = mutexOwner \/ (mutexOwner = NoOne /\ mutexOwner' = p /\ to = "search")
      /\ excused \subseteq excused'
      /\ mutexOwner # p
  <2>1. mutexOwner # p
    BY <1>1, StartAssumption DEF Owning, Searching
  <2>2. CASE Acquire(p)
    BY <1>2, <2>1, <2>2 DEF Acquire, Reaches, Unlocked, mutex
  <2>3. CASE WaitSucceeds(p)
    BY <1>2, <2>1, <2>3 DEF WaitSucceeds, Reaches
  <2>4. CASE WaitTimesOut(p)
    BY <1>2, <2>1, <2>4 DEF WaitTimesOut, Reaches, Unlocked
  <2> QED
    BY <2>1, <2>2, <2>3, <2>4
<1>4. /\ mutexHolders' \subseteq Starts /\ mutexOwner' \in mutexHolders' \cup {NoOne}
      /\ \A q \in Starts : progress'[q] = "wait" => q \in mutexHolders'
  <2>1. \A q \in Starts : progress[q] = "wait" => q \in mutexHolders
    BY DEF Distinct
  <2>2. CASE Acquire(p)
    BY <1>3, <2>1, <2>2 DEF Acquire, Reaches, Unlocked, mutex
  <2>3. CASE WaitSucceeds(p)
    BY <1>3, <2>1, <2>3 DEF WaitSucceeds, Reaches, Stands
  <2>4. CASE WaitTimesOut(p)
    BY <1>3, <2>1, <2>4 DEF WaitTimesOut, Reaches, Unlocked
  <2> QED
    BY <2>2, <2>3, <2>4
<1>5. StartTypeOK'
  BY <1>1, <1>2, <1>4 DEF Phases, Searching
<1>6. Distinct'
  BY <1>1, <1>2, <1>4 DEF Distinct
<1>7. Owning'
  <2>1. ASSUME NEW q \in Starts \ excused', progress'[q] \in Searching PROVE mutexOwner' = q
    <3>1. CASE q = p
      BY <1>2, <1>3, <2>1, <3>1 DEF Searching
    <3>2. CASE q # p
      BY <1>2, <1>3, <2>1, <3>2, StartAssumption DEF Owning
    <3> QED
      BY <3>1, <3>2
  <2>2. mutexOwner' # NoOne => progress'[mutexOwner'] \in Searching
    BY <1>2, <1>3 DEF Owning, Searching
  <2> QED
    BY <2>1, <2>2 DEF Owning
<1>8. PassesNone'
  <2> SUFFICES ASSUME NEW q \in Starts \ excused' PROVE SeesAll(q)'
    BY DEF PassesNone
  <2>1. CASE q = p
    BY <1>1, <1>2, <2>1 DEF SeesAll
  <2>2. CASE q # p
    BY <1>1, <1>2, <1>3, <2>2 DEF PassesNone, SeesAll, LooksAt, SameIdentity
  <2> QED
    BY <2>1, <2>2
<1>9. PeerAnswers'
  BY <1>1, <1>2 DEF PeerAnswers, PeerOf, Looking, SameIdentity
<1>10. OneInstance'
  BY <1>1, <1>2, <1>3 DEF OneInstance, SameIdentity
<1> QED
  BY <1>5, <1>6, <1>7, <1>8, <1>9, <1>10

\* Steps of a search: what holds whatever it finds.
LEMMA SearchFrame ==
  ASSUME StartInv, NEW p \in Starts, progress[p] \in Searching \ {"created"},
         NEW to \in Searching \ {"created"}, progress' = [progress EXCEPT ![p] = to],
         UNCHANGED <<pidOf, hwnd, mutexHolders, mutexOwner>>, excused \subseteq excused',
         \A q \in Starts : q # p => tried'[q] = tried[q]
  PROVE  Distinct' /\ Owning'
<1> USE DEF StartInv, StartTypeOK
<1>1. Distinct'
  BY DEF Distinct, Searching
<1>2. Owning'
  BY DEF Owning
<1> QED
  BY <1>1, <1>2

\* ... and what has to be shown of the window that it looks at, and of its peer.
LEMMA SearchKeeps ==
  ASSUME StartInv, StartTypeOK', NEW p \in Starts, progress[p] \in Searching \ {"created"},
         NEW to \in Searching \ {"created"}, progress' = [progress EXCEPT ![p] = to],
         UNCHANGED <<pidOf, hwnd, mutexHolders, mutexOwner>>, excused \subseteq excused',
         \A q \in Starts : q # p => /\ tried'[q] = tried[q] /\ candidate'[q] = candidate[q]
                                    /\ answeredBy'[q] = answeredBy[q],
         p \notin excused' => SeesAll(p)', PeerOf(p)',
         to = "activated" => SameIdentity(p, answeredBy'[p])
  PROVE  StartInv'
<1> USE DEF StartInv, StartTypeOK
<1>1. Distinct' /\ Owning'
  BY SearchFrame
<1>2. PassesNone'
  <2> SUFFICES ASSUME NEW q \in Starts \ excused', q # p PROVE SeesAll(q)'
    BY DEF PassesNone
  <2>1. SeesAll(q)
    BY DEF PassesNone
  <2> QED
    BY <2>1 DEF SeesAll, LooksAt, SameIdentity
<1>3. PeerAnswers'
  <2> SUFFICES ASSUME NEW q \in Starts, q # p PROVE PeerOf(q)'
    BY DEF PeerAnswers
  <2>1. \A c \in Starts : progress[c] = "ended" => progress'[c] = "ended"
    BY DEF Searching
  <2>2. PeerOf(q)
    BY DEF PeerAnswers
  <2> QED
    BY <2>1, <2>2 DEF PeerOf, SameIdentity
<1>4. OneInstance'
  BY DEF OneInstance, SameIdentity
<1> QED
  BY <1>1, <1>2, <1>3, <1>4

LEMMA FindWindowKeeps ==
  ASSUME StartInv, NEW p \in Starts, NEW h \in Hwnds, FindWindow(p, h)
  PROVE  StartInv'
<1> USE DEF StartInv, StartTypeOK
<1> DEFINE hit == [window |-> h, id |-> pidOf[OwnerOf(h)], process |-> NoOne]
<1>1. /\ progress[p] = "search" /\ progress' = [progress EXCEPT ![p] = "open"]
      /\ tried' = [tried EXCEPT ![p] = @ \cup {h}]
      /\ candidate' = [candidate EXCEPT ![p] = hit]
      /\ UNCHANGED <<pidOf, hwnd, mutexHolders, mutexOwner, answeredBy, excused>>
  BY DEF FindWindow, Stands, Reaches, mutex
<1>2. h # NoOne /\ OwnerOf(h) \in Starts /\ hwnd[OwnerOf(h)] = h
  BY StartAssumption, OwnerOfWindow DEF FindWindow
<1>3. hit \in [window : Hwnds \cup {NoOne}, id : StartPids \cup {NoOne}, process : Starts \cup {NoOne}]
  BY <1>2
<1>4. StartTypeOK'
  BY <1>1, <1>3 DEF Phases, Searching
<1>5. candidate'[p] = hit /\ candidate'[p].window = h /\ candidate'[p].id = pidOf[OwnerOf(h)]
  BY <1>1
<1>6. ASSUME NEW r \in Starts \ excused', p \notin excused', p # r, SameIdentity(p, r),
             hwnd[r] # NoOne, hwnd[r] \in tried'[p]
      PROVE  LooksAt(p, r)'
  <2>1. hwnd[r] \notin tried[p]
    BY <1>1, <1>6 DEF PassesNone, SeesAll, LooksAt, Looking, Searching
  <2>2. hwnd[r] = h
    BY <1>1, <1>6, <2>1
  <2>3. OwnerOf(h) = r
    BY <1>2, <2>2 DEF Distinct
  <2> QED
    BY <1>1, <1>5, <2>2, <2>3 DEF LooksAt, Looking
<1>7. "open" \in Searching \ {"created"} /\ progress[p] \in Searching \ {"created"}
  BY <1>1 DEF Searching
<1>8. p \notin excused' => SeesAll(p)'
  BY <1>1, <1>6 DEF SeesAll, SameIdentity
<1>9. PeerOf(p)'
  BY <1>1, <1>2, <1>5 DEF PeerOf, Looking
<1> QED
  BY <1>1, <1>4, <1>7, <1>8, <1>9, SearchKeeps

LEMMA EndSearchKeeps ==
  ASSUME StartInv, NEW p \in Starts, EndSearch(p)
  PROVE  StartInv'
<1> USE DEF StartInv, StartTypeOK
<1>1. /\ progress[p] = "search" /\ progress' = [progress EXCEPT ![p] = "create"]
      /\ excused' = IF {hwnd[q] : q \in Starts} \subseteq tried[p] \cup {NoOne}
                    THEN excused ELSE excused \cup {p}
      /\ UNCHANGED <<pidOf, hwnd, mutexHolders, mutexOwner, candidate, tried, answeredBy>>
  BY DEF EndSearch, Stands, Reaches, mutex, search
<1>2. StartTypeOK'
  BY <1>1 DEF Phases, Searching
<1>3. ASSUME NEW r \in Starts \ excused', p \notin excused', p # r, SameIdentity(p, r), hwnd[r] # NoOne
      PROVE  FALSE
  <2>1. hwnd[r] \in tried[p] /\ excused' = excused
    BY <1>1, <1>3
  <2> QED
    BY <1>1, <1>3, <2>1 DEF PassesNone, SeesAll, LooksAt, Looking, Searching
<1>4. "create" \in Searching \ {"created"} /\ progress[p] \in Searching \ {"created"}
  BY <1>1 DEF Searching
<1>5. (p \notin excused' => SeesAll(p)') /\ PeerOf(p)'
  BY <1>1, <1>3 DEF SeesAll, PeerOf, Looking, SameIdentity
<1> QED
  BY <1>1, <1>2, <1>4, <1>5, SearchKeeps

\* A candidate is dropped: nothing was found, or there is an excuse.
LEMMA ContinueKeeps ==
  ASSUME StartInv, NEW p \in Starts, progress[p] \in Looking, Continue(p),
         UNCHANGED <<pidOf, hwnd, mutex, tried>>, excused' \in {excused, excused \cup {p}},
         \A r \in Starts : p \notin excused' /\ p # r /\ SameIdentity(p, r) => ~LooksAt(p, r)
  PROVE  StartInv'
<1> USE DEF StartInv, StartTypeOK
<1>1. /\ progress' = [progress EXCEPT ![p] = "search"]
      /\ candidate' = [candidate EXCEPT ![p] = Nowhere]
      /\ answeredBy' = [answeredBy EXCEPT ![p] = NoOne]
      /\ UNCHANGED <<pidOf, hwnd, mutexHolders, mutexOwner, tried>>
  BY DEF Continue, Reaches, mutex
<1>2. StartTypeOK'
  BY <1>1 DEF Phases, Searching, Nowhere
<1>3. ASSUME NEW r \in Starts \ excused', p \notin excused', p # r, SameIdentity(p, r), hwnd[r] # NoOne
      PROVE  hwnd[r] \notin tried[p]
  BY <1>3 DEF PassesNone, SeesAll, Looking, Searching
<1>4. "search" \in Searching \ {"created"} /\ progress[p] \in Searching \ {"created"}
  BY DEF Searching, Looking
<1>5. (p \notin excused' => SeesAll(p)') /\ PeerOf(p)'
  BY <1>1, <1>3 DEF SeesAll, PeerOf, Looking, SameIdentity
<1> QED
  BY <1>1, <1>2, <1>4, <1>5, SearchKeeps

LEMMA OpenPeerKeeps ==
  ASSUME StartInv, NEW p \in Starts, OpenPeer(p)
  PROVE  StartInv'
<1> USE DEF StartInv, StartTypeOK
<1>1. progress[p] = "open" /\ UNCHANGED <<pidOf, hwnd, mutex, mutexHolders, mutexOwner, tried>>
  BY DEF OpenPeer, Stands, mutex
<1>2. CASE Continue(p) /\ excused' = excused \cup {p}
  BY <1>1, <1>2, ContinueKeeps DEF Looking
<1>3. ASSUME NEW q \in Starts \ {p}, pidOf[q] = candidate[p].id,
             candidate' = [candidate EXCEPT ![p].process = q],
             Reaches(p, "authenticate"), UNCHANGED <<excused, answeredBy>>
      PROVE  StartInv'
  <2>1. progress' = [progress EXCEPT ![p] = "authenticate"]
    BY <1>3 DEF Reaches
  <2>2. StartTypeOK'
    BY <1>1, <1>3, <2>1 DEF Phases, Searching
  <2>3. /\ candidate'[p].process = q
        /\ candidate'[p].window = candidate[p].window /\ candidate'[p].id = candidate[p].id
        /\ \A r \in Starts : r # p => candidate'[r] = candidate[r]
    BY <1>3
  <2>4. ASSUME NEW r \in Starts \ excused, p \notin excused, p # r, SameIdentity(p, r),
               hwnd[r] # NoOne, hwnd[r] \in tried[p]
        PROVE  LooksAt(p, r)'
    <3>1. LooksAt(p, r)
      BY <1>1, <2>4 DEF PassesNone, SeesAll, Searching
    <3>2. pidOf[r] # NoOne
      BY <2>4 DEF Distinct
    <3>3. q = r
      BY <1>3, <3>1, <3>2 DEF LooksAt, Distinct
    <3> QED
      BY <1>1, <2>1, <2>3, <3>1, <3>3 DEF LooksAt, Looking
  <2>5. candidate[p].window # NoOne
    BY <1>1 DEF PeerAnswers, PeerOf, Looking
  <2>6. "authenticate" \in Searching \ {"created"} /\ progress[p] \in Searching \ {"created"}
    BY <1>1 DEF Searching
  <2>7. p \notin excused' => SeesAll(p)'
    BY <1>1, <1>3, <2>1, <2>4 DEF SeesAll, SameIdentity
  <2>8. PeerOf(p)'
    BY <1>3, <2>1, <2>3, <2>5 DEF PeerOf
  <2> QED
    BY <1>1, <1>3, <2>1, <2>2, <2>3, <2>6, <2>7, <2>8, SearchKeeps
<1> QED
  BY <1>2, <1>3 DEF OpenPeer

LEMMA AuthenticateKeeps ==
  ASSUME StartInv, NEW p \in Starts, Authenticate(p)
  PROVE  StartInv'
<1> USE DEF StartInv, StartTypeOK
<1>1. /\ progress[p] = "authenticate"
      /\ UNCHANGED <<pidOf, hwnd, mutex, mutexHolders, mutexOwner, tried>>
  BY DEF Authenticate, Stands, mutex
<1>2. candidate[p].window # NoOne /\ candidate[p].process \in Starts
  BY <1>1 DEF PeerAnswers, PeerOf, Looking
<1>3. CASE Continue(p) /\ excused' = excused \cup {p}
  BY <1>1, <1>3, ContinueKeeps DEF Looking
<1>4. CASE /\ ~(SameIdentity(p, candidate[p].process) /\ StillBound(p))
           /\ Continue(p) /\ UNCHANGED excused
  <2>1. ASSUME NEW r \in Starts, SameIdentity(p, r), LooksAt(p, r) PROVE FALSE
    <3>1. candidate[p].process = r /\ hwnd[r] = candidate[p].window /\ pidOf[r] = candidate[p].id
      BY <1>1, <2>1 DEF LooksAt
    <3>2. OwnerOf(candidate[p].window) = r
      BY <1>2, <3>1, OwnerOfWindow
    <3> QED
      BY <1>4, <2>1, <3>1, <3>2 DEF StillBound
  <2> QED
    BY <1>1, <1>4, <2>1, ContinueKeeps DEF Looking
<1>5. CASE /\ SameIdentity(p, candidate[p].process) /\ StillBound(p)
           /\ Reaches(p, "send") /\ UNCHANGED <<candidate, answeredBy, excused>>
  <2>1. progress' = [progress EXCEPT ![p] = "send"]
    BY <1>5 DEF Reaches
  <2>2. StartTypeOK'
    BY <1>1, <1>5, <2>1 DEF Phases, Searching
  <2>3. hwnd[candidate[p].process] = candidate[p].window
    BY <1>2, <1>5, OwnerOfWindow, StartAssumption DEF StillBound
  <2>4. ASSUME NEW r \in Starts \ excused, p \notin excused, p # r, SameIdentity(p, r),
               hwnd[r] # NoOne, hwnd[r] \in tried[p]
        PROVE  LooksAt(p, r)'
    <3>1. LooksAt(p, r)
      BY <1>1, <2>4 DEF PassesNone, SeesAll, Searching
    <3> QED
      BY <1>1, <1>5, <2>1, <3>1 DEF LooksAt, Looking
  <2>5. "send" \in Searching \ {"created"} /\ progress[p] \in Searching \ {"created"}
    BY <1>1 DEF Searching
  <2>6. p \notin excused' => SeesAll(p)'
    BY <1>1, <1>5, <2>1, <2>4 DEF SeesAll, SameIdentity
  <2>7. PeerOf(p)'
    <3>1. progress'[p] = "send" /\ candidate' = candidate /\ hwnd' = hwnd
      BY <1>1, <1>5, <2>1
    <3> QED
      BY <1>2, <1>5, <2>3, <3>1 DEF PeerOf, SameIdentity
  <2> QED
    BY <1>1, <1>5, <2>1, <2>2, <2>5, <2>6, <2>7, SearchKeeps
<1> QED
  BY <1>3, <1>4, <1>5 DEF Authenticate

LEMMA SendMessageKeeps ==
  ASSUME StartInv, NEW p \in Starts, SendMessage(p)
  PROVE  StartInv'
<1> USE DEF StartInv, StartTypeOK
<1> DEFINE c == candidate[p].process
           q == OwnerOf(candidate[p].window)
<1>1. /\ progress[p] = "send"
      /\ UNCHANGED <<pidOf, hwnd, mutex, mutexHolders, mutexOwner, tried>>
  BY DEF SendMessage, Stands, mutex
<1>2. /\ candidate[p].window # NoOne /\ c \in Starts /\ SameIdentity(p, c)
      /\ hwnd[c] = candidate[p].window \/ progress[c] = "ended"
  BY <1>1 DEF PeerAnswers, PeerOf, Looking
<1>3. CASE Continue(p) /\ excused' = IF q = c THEN excused \cup {p} ELSE excused
  <2>1. ASSUME NEW r \in Starts, LooksAt(p, r) PROVE q = c
    <3>1. c = r /\ hwnd[r] = candidate[p].window
      BY <1>1, <2>1 DEF LooksAt
    <3> QED
      BY <1>2, <3>1, OwnerOfWindow
  <2> QED
    BY <1>1, <1>3, <2>1, ContinueKeeps DEF Looking
<1>4. CASE /\ q # NoOne /\ progress[q] = "running"
           /\ answeredBy' = [answeredBy EXCEPT ![p] = q]
           /\ Reaches(p, "confirm") /\ UNCHANGED <<candidate, excused>>
  <2>1. q \in Starts
    BY <1>2, <1>4, OwnerOfWindow
  <2>2. progress' = [progress EXCEPT ![p] = "confirm"]
    BY <1>4 DEF Reaches
  <2>3. StartTypeOK'
    BY <1>1, <1>4, <2>1, <2>2 DEF Phases, Searching
  <2>4. q = c \/ progress[c] = "ended"
    BY <1>2, OwnerOfWindow
  <2>5. ASSUME NEW r \in Starts \ excused, p \notin excused, p # r, SameIdentity(p, r),
               hwnd[r] # NoOne, hwnd[r] \in tried[p]
        PROVE  LooksAt(p, r)'
    <3>1. LooksAt(p, r)
      BY <1>1, <2>5 DEF PassesNone, SeesAll, Searching
    <3> QED
      BY <1>1, <1>4, <2>2, <3>1 DEF LooksAt, Looking
  <2>6. "confirm" \in Searching \ {"created"} /\ progress[p] \in Searching \ {"created"}
    BY <1>1 DEF Searching
  <2>7. p \notin excused' => SeesAll(p)'
    BY <1>1, <1>4, <2>2, <2>5 DEF SeesAll, SameIdentity
  <2>8. PeerOf(p)'
    BY <1>1, <1>2, <1>4, <2>2, <2>4 DEF PeerOf, SameIdentity
  <2> QED
    BY <1>1, <1>4, <2>2, <2>3, <2>6, <2>7, <2>8, SearchKeeps
<1> QED
  BY <1>3, <1>4 DEF SendMessage

LEMMA ConfirmKeeps ==
  ASSUME StartInv, NEW p \in Starts, Confirm(p)
  PROVE  StartInv'
<1> USE DEF StartInv, StartTypeOK
<1> DEFINE c == candidate[p].process
<1>1. /\ progress[p] = "confirm"
      /\ UNCHANGED <<pidOf, hwnd, mutex, mutexHolders, mutexOwner, tried, excused>>
  BY DEF Confirm, Stands, mutex
<1>2. /\ candidate[p].window # NoOne /\ c \in Starts /\ SameIdentity(p, c)
      /\ answeredBy[p] = c \/ progress[c] = "ended"
  BY <1>1 DEF PeerAnswers, PeerOf, Looking
<1>3. CASE ~StillBound(p)
  <2>1. ASSUME NEW r \in Starts, LooksAt(p, r) PROVE FALSE
    <3>1. c = r /\ hwnd[r] = candidate[p].window /\ pidOf[r] = candidate[p].id
      BY <1>1, <2>1 DEF LooksAt
    <3>2. OwnerOf(candidate[p].window) = r
      BY <1>2, <3>1, OwnerOfWindow
    <3> QED
      BY <1>3, <3>1, <3>2 DEF StillBound
  <2> QED
    BY <1>1, <1>3, <2>1, ContinueKeeps DEF Looking, Confirm
<1>4. CASE StillBound(p)
  <2>1. /\ progress' = [progress EXCEPT ![p] = "activated"]
        /\ UNCHANGED <<candidate, answeredBy>>
    BY <1>4 DEF Confirm, Reaches
  <2>2. StartTypeOK'
    BY <1>1, <2>1 DEF Phases, Searching
  <2>3. hwnd[c] = candidate[p].window
    BY <1>2, <1>4, OwnerOfWindow, StartAssumption DEF StillBound
  <2>4. answeredBy[p] = c
    BY <1>2, <2>3 DEF Distinct
  <2>5. "activated" \in Searching \ {"created"} /\ progress[p] \in Searching \ {"created"}
    BY <1>1 DEF Searching
  <2>6. (p \notin excused' => SeesAll(p)') /\ PeerOf(p)'
    BY <2>1 DEF SeesAll, PeerOf, Looking
  <2>7. SameIdentity(p, answeredBy'[p])
    BY <1>2, <2>1, <2>4
  <2> QED
    BY <1>1, <2>1, <2>2, <2>5, <2>6, <2>7, SearchKeeps
<1> QED
  BY <1>3, <1>4

LEMMA CreateKeeps ==
  ASSUME StartInv, NEW p \in Starts, Create(p)
  PROVE  StartInv'
<1> USE DEF StartInv, StartTypeOK
<1>1. PICK h \in Hwnds : OwnerOf(h) = NoOne /\ hwnd' = [hwnd EXCEPT ![p] = h]
  BY DEF Create
<1>2. /\ progress[p] = "create" /\ progress' = [progress EXCEPT ![p] = "created"]
      /\ UNCHANGED <<pidOf, mutexHolders, mutexOwner, candidate, tried, answeredBy, excused>>
  BY DEF Create, Stands, Reaches, mutex, search
<1>3. h # NoOne /\ \A q \in Starts : hwnd[q] # h
  BY <1>1, StartAssumption, OwnerOfWindow
<1>4. hwnd[p] = NoOne
  BY <1>2 DEF Distinct
<1>5. StartTypeOK'
  BY <1>1, <1>2 DEF Phases, Searching
<1>6. Distinct'
  BY <1>1, <1>2, <1>3 DEF Distinct
<1>7. Owning'
  BY <1>2 DEF Owning, Searching
<1>8. PassesNone'
  <2> SUFFICES ASSUME NEW q \in Starts \ excused, NEW r \in Starts \ excused,
                      q # r, SameIdentity(q, r), hwnd'[r] # NoOne, progress'[q] \in Searching
               PROVE  /\ progress'[q] \notin {"create", "created"}
                      /\ hwnd'[r] \in tried[q] => LooksAt(q, r)' \/ progress'[q] = "activated"
    BY <1>2 DEF PassesNone, SeesAll, SameIdentity
  <2>1. progress[q] \in Searching
    BY <1>2 DEF Searching
  <2>2. r # p
    BY <1>2, <2>1 DEF Owning, Searching
  <2>3. hwnd[r] # NoOne /\ hwnd'[r] = hwnd[r]
    BY <1>1, <2>2
  <2>4. q # p
    BY <1>2, <2>1, <2>3 DEF PassesNone, SeesAll
  <2> QED
    BY <1>1, <1>2, <2>1, <2>3, <2>4 DEF PassesNone, SeesAll, LooksAt
<1>9. PeerAnswers'
  <2> SUFFICES ASSUME NEW q \in Starts PROVE PeerOf(q)'
    BY DEF PeerAnswers
  <2>1. PeerOf(q)
    BY DEF PeerAnswers
  <2>2. progress[q] \in Looking => q # p
    BY <1>2 DEF Looking
  <2>3. progress[q] = "send" /\ hwnd[candidate[q].process] = candidate[q].window
        => candidate[q].process # p
    BY <1>4, <2>1 DEF PeerOf, Looking
  <2> QED
    BY <1>1, <1>2, <2>1, <2>2, <2>3 DEF PeerOf, Looking, SameIdentity
<1>10. OneInstance'
  <2>1. ASSUME NEW q \in Starts \ excused, p \notin excused, q # p, SameIdentity(p, q)
        PROVE  hwnd[q] = NoOne
    BY <1>2, <2>1 DEF PassesNone, SeesAll, Searching
  <2>2. \A q \in Starts : SameIdentity(q, p) <=> SameIdentity(p, q)
    BY DEF SameIdentity
  <2>3. ASSUME NEW q \in Starts \ excused, NEW r \in Starts \ excused,
               hwnd'[q] # NoOne, hwnd'[r] # NoOne, SameIdentity(q, r)
        PROVE  q = r
    <3>1. CASE q # p /\ r # p
      BY <1>1, <2>3, <3>1 DEF OneInstance
    <3>2. CASE q = p \/ r = p
      BY <1>1, <2>1, <2>2, <2>3, <3>2
    <3> QED
      BY <3>1, <3>2
  <2>4. \A q \in Starts : progress'[q] = "activated" => SameIdentity(q, answeredBy'[q])
    BY <1>2 DEF OneInstance
  <2> QED
    BY <1>2, <2>3, <2>4 DEF OneInstance, SameIdentity
<1> QED
  BY <1>5, <1>6, <1>7, <1>8, <1>9, <1>10

LEMMA RunKeeps ==
  ASSUME StartInv, NEW p \in Starts, Run(p)
  PROVE  StartInv'
<1> USE DEF StartInv, StartTypeOK
<1>1. /\ progress[p] = "created" /\ progress' = [progress EXCEPT ![p] = "running"]
      /\ mutexHolders' = mutexHolders \ {p}
      /\ mutexOwner' = IF mutexOwner = p THEN NoOne ELSE mutexOwner
      /\ UNCHANGED <<pidOf, hwnd, candidate, tried, answeredBy, excused>>
  BY DEF Run, Stands, Reaches, Release, search
<1>2. StartTypeOK'
  BY <1>1 DEF Phases
<1>3. Distinct'
  BY <1>1 DEF Distinct
<1>4. Owning'
  BY <1>1, StartAssumption DEF Owning, Searching
<1>5. PassesNone'
  BY <1>1 DEF PassesNone, SeesAll, LooksAt, Searching, SameIdentity
<1>6. PeerAnswers' /\ OneInstance'
  BY <1>1 DEF PeerAnswers, PeerOf, OneInstance, Looking, SameIdentity
<1> QED
  BY <1>2, <1>3, <1>4, <1>5, <1>6

LEMMA StartStep == StartInv /\ [StartNext]_startVars => StartInv'
<1> SUFFICES ASSUME StartInv, [StartNext]_startVars PROVE StartInv'
  OBVIOUS
<1>1. CASE UNCHANGED startVars
  BY <1>1 DEF startVars, mutex, search, StartInv, StartTypeOK, Distinct, Owning, PassesNone,
    SeesAll, LooksAt, PeerAnswers, PeerOf, OneInstance, SameIdentity
<1>2. ASSUME NEW p \in Starts, CloseOrCrash(p) \/ GiveUp(p) PROVE StartInv'
  BY <1>2, DiesKeeps DEF CloseOrCrash, GiveUp, Stands
<1>3. ASSUME NEW p \in Starts, NEW h \in Hwnds, FindWindow(p, h) PROVE StartInv'
  BY <1>3, FindWindowKeeps
<1>4. CASE StartNext
  BY <1>2, <1>3, <1>4, BeginStartKeeps, AcquireKeeps, EndSearchKeeps, OpenPeerKeeps,
    AuthenticateKeeps, SendMessageKeeps, ConfirmKeeps, CreateKeeps, RunKeeps DEF StartNext
<1> QED
  BY <1>1, <1>4

\* Whatever starts, closes and crashes when, and whoever gets its PID and window
\* handle: without an excuse no second instance of an identity shows a window,
\* and none gives up for one of another identity.
THEOREM OneInstanceOfEach == StartSpec => []OneInstance
<1>1. StartInv => OneInstance
  BY DEF StartInv
<1> QED
  BY <1>1, StartInitially, StartStep, PTL DEF StartSpec

-----------------------------------------------------------------------------
(* BundleArchive: what is written can be read back.                        *)

Block == [kind : {"header", "data", "descriptor", "central", "end"}, name : Nat]

\* Entry e at offset i of a file, up to its descriptor.
Whole(blocks, i, e) ==
  /\ blocks[i + 1] = [kind |-> "header", name |-> e.name]
  /\ \A j \in 1..e.size : blocks[i + 1 + j] = [kind |-> "data", name |-> e.name]
  /\ blocks[i + e.size + 2] = [kind |-> "descriptor", name |-> e.name]

\* ... which is the last block of the file.
Closing(blocks, i, e) == Whole(blocks, i, e) /\ i + e.size + 2 = Len(blocks)

ArchiveTyped ==
  /\ position \in Nat
  /\ disk \in Seq(Block)
  /\ position = Len(disk)
  /\ entries \in Seq([name : Nat, offset : Nat, size : Nat])
  /\ partSize \in Seq(Nat)
  /\ DOMAIN adding = {"name", "limit", "offset", "size"}
  /\ adding.name \in Nat /\ adding.offset \in Nat /\ adding.size \in Nat
  /\ stage \in {"idle", "create", "add", "copy", "ok", "failed"}

\* Every entry lies where it was noted; another block follows, or the file is
\* still being written and ends with its descriptor.
EntriesOK ==
  \A n \in DOMAIN entries :
    /\ entries[n].offset <= MaxOffset
    /\ \/ Closing(disk, entries[n].offset, entries[n]) /\ stage \in {"add", "failed"}
       \/ Readable(disk, entries[n].offset, entries[n])

\* The entry that is being copied is the end of the file.
CopyOK ==
  stage = "copy" =>
    /\ adding.offset <= MaxOffset
    /\ Len(disk) = adding.offset + 1 + adding.size
    /\ disk[adding.offset + 1] = [kind |-> "header", name |-> adding.name]
    /\ \A j \in 1..adding.size :
         disk[adding.offset + 1 + j] = [kind |-> "data", name |-> adding.name]

FileOK ==
  /\ stage = "ok" => position <= MaxOffset + 1
  /\ stage \in {"idle", "create"} => entries = <<>>
  /\ stage \in {"idle", "create"} => destination # "bundle"
  /\ stage \in {"add", "copy"} => destination = "bundle"
  /\ DestinationKept

ArchiveInv == ArchiveTyped /\ EntriesOK /\ CopyOK /\ FileOK


LEMMA ArchiveInitInv == ArchiveInit => ArchiveInv
<1> SUFFICES ASSUME ArchiveInit PROVE ArchiveInv
  OBVIOUS
<1>1. disk = <<>> /\ entries = <<>> /\ partSize = <<>> /\ Len(disk) = 0 /\ DOMAIN entries = {}
  BY EmptySeq DEF ArchiveInit
<1>2. disk \in Seq(Block) /\ partSize \in Seq(Nat)
      /\ entries \in Seq([name : Nat, offset : Nat, size : Nat])
  BY <1>1
<1> QED
  BY <1>1, <1>2
  DEF ArchiveInit, ArchiveInv, ArchiveTyped, EntriesOK, CopyOK, FileOK, DestinationKept,
      NoEntry, Manifest

\* What others do, and the steps before the first block.
LEMMA OthersKeep ==
  ASSUME ArchiveInv,
         PartGrows \/ (\E p \in 1..MaxListed : PartDeleted(p)) \/ OtherCreates
           \/ ListParts \/ CreateBundle
  PROVE  ArchiveInv'
<1>1. UNCHANGED <<disk, position, entries, adding>>
  BY DEF PartGrows, PartDeleted, OtherCreates, ListParts, CreateBundle
<1>2. partSize' \in Seq(Nat)
  <2>1. CASE PartGrows
    <3>1. \/ partSize' = Append(partSize, 0)
          \/ partSize' = [partSize EXCEPT ![Len(partSize)] = @ + 1] /\ Len(partSize) # 0
      BY <2>1 DEF PartGrows
    <3>2. partSize \in Seq(Nat)
      BY DEF ArchiveInv, ArchiveTyped
    <3>3. CASE partSize' = Append(partSize, 0)
      BY <3>2, <3>3
    <3>4. CASE partSize' = [partSize EXCEPT ![Len(partSize)] = @ + 1] /\ Len(partSize) # 0
      <4>1. Len(partSize) \in 1..Len(partSize) /\ partSize[Len(partSize)] \in Nat
        BY <3>2, <3>4
      <4> QED
        BY <3>2, <3>4, <4>1, ExceptSeq
    <3> QED
      BY <3>1, <3>3, <3>4
  <2>2. CASE ~ PartGrows
    BY <2>2 DEF PartDeleted, OtherCreates, ListParts, CreateBundle, ArchiveInv, ArchiveTyped
  <2> QED
    BY <2>1, <2>2
<1>3. \/ stage' = stage
      \/ stage = "idle" /\ stage' = "create"
      \/ stage = "create" /\ stage' \in {"add", "failed"}
  BY DEF PartGrows, PartDeleted, OtherCreates, ListParts, CreateBundle
<1>4. ArchiveTyped'
  BY <1>1, <1>2, <1>3 DEF ArchiveInv, ArchiveTyped
<1>5. EntriesOK'
  <2>1. CASE stage \in {"idle", "create"}
    <3>1. DOMAIN entries = {}
      BY <2>1, EmptySeq DEF ArchiveInv, FileOK
    <3> QED
      BY <1>1, <3>1 DEF EntriesOK
  <2>2. CASE stage' = stage
    BY <1>1, <2>2 DEF ArchiveInv, EntriesOK, Closing, Whole, Readable
  <2> QED
    BY <1>3, <2>1, <2>2
<1>6. CopyOK'
  BY <1>1, <1>3 DEF ArchiveInv, CopyOK
<1>7. FileOK'
  <2>1. FileOK
    BY DEF ArchiveInv
  <2>2. CASE UNCHANGED <<stage, destination, foreignFile>>
    BY <1>1, <2>1, <2>2 DEF FileOK, DestinationKept
  <2>3. CASE OtherCreates
    BY <1>1, <2>1, <2>3 DEF OtherCreates, FileOK, DestinationKept
  <2>4. CASE ListParts
    BY <1>1, <2>1, <2>4 DEF ListParts, FileOK, DestinationKept
  <2>5. CASE CreateBundle
    BY <1>1, <2>1, <2>5 DEF CreateBundle, FileOK, DestinationKept
  <2> QED
    BY <2>2, <2>3, <2>4, <2>5 DEF PartGrows, PartDeleted
<1> QED
  BY <1>4, <1>5, <1>6, <1>7 DEF ArchiveInv

\* An export that is given up removes its file and adds nothing.
LEMMA AbandonKeeps ==
  ASSUME ArchiveInv, stage \in {"add", "copy"}, Abandon, UNCHANGED <<partSize, foreignFile>>
  PROVE  ArchiveInv'
<1>1. UNCHANGED <<disk, position, entries, adding, partSize, foreignFile>>
      /\ stage' = "failed" /\ destination' = "nobody"
  BY DEF Abandon
<1>2. EntriesOK'
  BY <1>1 DEF ArchiveInv, EntriesOK, Closing, Whole, Readable
<1> QED
  BY <1>1, <1>2 DEF ArchiveInv, ArchiveTyped, CopyOK, FileOK, DestinationKept

\* A block more leaves a readable entry readable, and completes one whose
\* descriptor was the last block.
LEMMA BlockAfter ==
  ASSUME NEW blocks, NEW longer, NEW len \in Nat, Len(blocks) = len, DOMAIN blocks = 1..len,
         NEW more \in Nat, more > len, DOMAIN longer = 1..more,
         \A k \in 1..len : longer[k] = blocks[k],
         NEW i \in Nat, NEW e, e.size \in Nat,
         \/ Closing(blocks, i, e) /\ longer[len + 1].kind \in {"header", "central"}
         \/ Readable(blocks, i, e)
  PROVE  Readable(longer, i, e)
<1>1. CASE Closing(blocks, i, e) /\ longer[len + 1].kind \in {"header", "central"}
  <2>1. i + e.size + 2 = len
    BY <1>1 DEF Closing
  <2>2. longer[i + 1] = blocks[i + 1] /\ longer[i + e.size + 2] = blocks[i + e.size + 2]
    <3>1. i + 1 \in 1..len /\ i + e.size + 2 \in 1..len
      BY <2>1
    <3> QED
      BY <3>1
  <2>3. \A j \in 1..e.size : longer[i + 1 + j] = blocks[i + 1 + j]
    <3> SUFFICES ASSUME NEW j \in 1..e.size
                 PROVE  longer[i + 1 + j] = blocks[i + 1 + j]
      OBVIOUS
    <3>1. i + 1 + j \in 1..len
      BY <2>1
    <3> QED
      BY <3>1
  <2>4. longer[i + e.size + 3].kind \in {"header", "central"}
    <3>1. i + e.size + 3 = len + 1
      BY <2>1
    <3> QED
      BY <1>1, <3>1
  <2>5. i + e.size + 3 \in DOMAIN longer
    BY <2>1
  <2> QED
    BY <1>1, <2>2, <2>3, <2>4, <2>5 DEF Closing, Whole, Readable
<1>2. CASE Readable(blocks, i, e)
  <2>1. i + e.size + 3 \in 1..len
    <3>1. i + e.size + 3 \in DOMAIN blocks
      BY <1>2 DEF Readable
    <3> QED
      BY <3>1
  <2>2. longer[i + 1] = blocks[i + 1] /\ longer[i + e.size + 2] = blocks[i + e.size + 2]
    <3>1. i + 1 \in 1..len /\ i + e.size + 2 \in 1..len
      BY <2>1
    <3> QED
      BY <3>1
  <2>3. \A j \in 1..e.size : longer[i + 1 + j] = blocks[i + 1 + j]
    <3> SUFFICES ASSUME NEW j \in 1..e.size
                 PROVE  longer[i + 1 + j] = blocks[i + 1 + j]
      OBVIOUS
    <3>1. i + 1 + j \in 1..len
      BY <2>1
    <3> QED
      BY <3>1
  <2>4. longer[i + e.size + 3] = blocks[i + e.size + 3] /\ i + e.size + 3 \in DOMAIN longer
    BY <2>1
  <2> QED
    BY <1>2, <2>2, <2>3, <2>4 DEF Readable
<1> QED
  BY <1>1, <1>2

\* A block more: entries that were there are there, and one whose descriptor
\* was the last block is readable if the block is a header or of the directory.
LEMMA BlockAdded ==
  ASSUME ArchiveInv, stage \in {"add", "copy"}, NEW block \in Block, WriteBlock(block),
         stage = "add" => block.kind \in {"header", "central"}
  PROVE  /\ disk' \in Seq(Block) /\ Len(disk') = Len(disk) + 1
         /\ position' \in Nat /\ position' = Len(disk')
         /\ \A i \in 1..Len(disk) : disk'[i] = disk[i]
         /\ disk'[Len(disk) + 1] = block
         /\ \A n \in DOMAIN entries : Readable(disk', entries[n].offset, entries[n])
<1>1. /\ disk' = Append(disk, block) /\ position' = position + 1
      /\ disk \in Seq(Block) /\ Len(disk) \in Nat /\ position = Len(disk)
  BY DEF WriteBlock, ArchiveInv, ArchiveTyped
<1>2. /\ disk' \in Seq(Block) /\ Len(disk') = Len(disk) + 1
      /\ \A i \in 1..Len(disk) : disk'[i] = disk[i]
      /\ disk'[Len(disk) + 1] = block
  BY <1>1, AppendProperties
<1>3. ASSUME NEW n \in DOMAIN entries
      PROVE  Readable(disk', entries[n].offset, entries[n])
  <2>1. entries[n].offset \in Nat /\ entries[n].size \in Nat
    <3>1. entries \in Seq([name : Nat, offset : Nat, size : Nat])
      BY DEF ArchiveInv, ArchiveTyped
    <3>2. n \in 1..Len(entries)
      BY <3>1, LenProperties
    <3>3. entries[n] \in [name : Nat, offset : Nat, size : Nat]
      BY <3>1, <3>2, ElementOfSeq
    <3> QED
      BY <3>3
  <2>2. Len(disk) \in Nat /\ DOMAIN disk = 1..Len(disk) /\ DOMAIN disk' = 1..(Len(disk) + 1)
    BY <1>1, <1>2, LenProperties
  <2>3. \/ /\ Closing(disk, entries[n].offset, entries[n])
           /\ block.kind \in {"header", "central"}
        \/ Readable(disk, entries[n].offset, entries[n])
    BY DEF ArchiveInv, EntriesOK
  <2>4. \/ /\ Closing(disk, entries[n].offset, entries[n])
           /\ disk'[Len(disk) + 1].kind \in {"header", "central"}
        \/ Readable(disk, entries[n].offset, entries[n])
    BY <1>2, <2>3
  <2>5. \A k \in 1..Len(disk) : disk'[k] = disk[k]
    BY <1>2
  <2>6. Len(disk) + 1 \in Nat /\ Len(disk) + 1 > Len(disk)
    BY <2>2
  <2> QED
    BY <2>1, <2>2, <2>4, <2>5, <2>6, BlockAfter
<1> QED
  BY <1>1, <1>2, <1>3

LEMMA BeginEntryKeeps ==
  ASSUME ArchiveInv, BeginEntry
  PROVE  ArchiveInv'
<1>1. stage = "add" /\ UNCHANGED <<partSize, deleted, foreignFile>>
  BY DEF BeginEntry
<1>2. CASE Abandon
  BY <1>1, <1>2, AbandonKeeps
<1>3. CASE ~ Abandon
  <2> DEFINE name == Head(queue)[1]
             block == [kind |-> "header", name |-> name]
  <2>1. /\ name = Manifest \/ name \in Existing
        /\ position <= MaxOffset
        /\ stage' = "copy" /\ WriteBlock(block)
        /\ adding' = [name |-> name, limit |-> Head(queue)[2], offset |-> position, size |-> 0]
        /\ UNCHANGED <<destination, entries>>
    <3>1. position \in Nat /\ MaxOffset \in Nat
      BY ArchiveAssumption DEF ArchiveInv, ArchiveTyped
    <3> QED
      BY <1>3, <3>1 DEF BeginEntry
  <2>2. name \in Nat
    <3>1. DOMAIN partSize \subseteq Nat
      BY LenProperties DEF ArchiveInv, ArchiveTyped
    <3> QED
      BY <2>1, <3>1 DEF Manifest, Existing
  <2>3. block \in Block /\ block.kind = "header"
    BY <2>2 DEF Block
  <2>4. /\ disk' \in Seq(Block) /\ Len(disk') = Len(disk) + 1
        /\ position' \in Nat /\ position' = Len(disk')
        /\ disk'[Len(disk) + 1] = block
        /\ \A n \in DOMAIN entries : Readable(disk', entries[n].offset, entries[n])
    BY <1>1, <2>1, <2>3, BlockAdded
  <2>5. position = Len(disk) /\ position \in Nat
    BY DEF ArchiveInv, ArchiveTyped
  <2>6. /\ adding'.name = name /\ adding'.offset = position /\ adding'.size = 0
        /\ DOMAIN adding' = {"name", "limit", "offset", "size"}
    BY <2>1
  <2>7. CopyOK'
    <3>1. disk'[position + 1] = [kind |-> "header", name |-> name]
      BY <2>4, <2>5
    <3>2. Len(disk') = position + 1 + 0 /\ 1..0 = {}
      BY <2>4, <2>5
    <3> QED
      BY <2>1, <2>6, <3>1, <3>2 DEF CopyOK
  <2>8. EntriesOK'
    BY <2>1, <2>4 DEF ArchiveInv, EntriesOK
  <2>9. ArchiveTyped'
    BY <1>1, <2>1, <2>2, <2>4, <2>5, <2>6 DEF ArchiveInv, ArchiveTyped
  <2>10. FileOK'
    BY <1>1, <2>1 DEF ArchiveInv, FileOK, DestinationKept
  <2> QED
    BY <2>7, <2>8, <2>9, <2>10 DEF ArchiveInv
<1> QED
  BY <1>2, <1>3

LEMMA CopyBytesKeeps ==
  ASSUME ArchiveInv, CopyBytes
  PROVE  ArchiveInv'
<1>1. stage = "copy" /\ UNCHANGED <<partSize, deleted, foreignFile>>
  BY DEF CopyBytes
<1>2. CASE Abandon
  BY <1>1, <1>2, AbandonKeeps
<1>3. CASE ~ Abandon
  <2> DEFINE block == [kind |-> "data", name |-> adding.name]
  <2>1. /\ WriteBlock(block)
        /\ adding' = [adding EXCEPT !.size = @ + 1]
        /\ UNCHANGED <<stage, destination, entries>>
    BY <1>3 DEF CopyBytes
  <2>2. adding.name \in Nat /\ adding.offset \in Nat /\ adding.size \in Nat
    BY DEF ArchiveInv, ArchiveTyped
  <2>3. block \in Block
    BY <2>2 DEF Block
  <2>4. /\ disk' \in Seq(Block) /\ Len(disk') = Len(disk) + 1
        /\ position' \in Nat /\ position' = Len(disk')
        /\ \A i \in 1..Len(disk) : disk'[i] = disk[i]
        /\ disk'[Len(disk) + 1] = block
        /\ \A n \in DOMAIN entries : Readable(disk', entries[n].offset, entries[n])
    BY <1>1, <2>1, <2>3, BlockAdded
  <2>6. /\ adding'.name = adding.name /\ adding'.offset = adding.offset
        /\ adding'.size = adding.size + 1
        /\ DOMAIN adding' = DOMAIN adding
    BY <2>1 DEF ArchiveInv, ArchiveTyped
  <2>7. CopyOK'
    <3>0. Len(disk) = adding.offset + 1 + adding.size /\ Len(disk) \in Nat
      BY <1>1, <2>2 DEF ArchiveInv, CopyOK
    <3>5. Len(disk) + 1 = adding.offset + 1 + (adding.size + 1)
      BY ONLY <2>2, <3>0
    <3>1. /\ Len(disk) = adding.offset + 1 + adding.size
          /\ disk[adding.offset + 1] = [kind |-> "header", name |-> adding.name]
          /\ \A j \in 1..adding.size : disk[adding.offset + 1 + j] = block
          /\ adding.offset <= MaxOffset
      BY <1>1 DEF ArchiveInv, CopyOK
    <3>2. disk'[adding.offset + 1] = [kind |-> "header", name |-> adding.name]
      BY <2>2, <2>4, <3>1
    <3>3. \A j \in 1..(adding.size + 1) : disk'[adding.offset + 1 + j] = block
      <4> SUFFICES ASSUME NEW j \in 1..(adding.size + 1)
                   PROVE  disk'[adding.offset + 1 + j] = block
        OBVIOUS
      <4>1. CASE j = adding.size + 1
        <5>1. adding.offset + 1 + j = Len(disk) + 1
          BY <3>5, <4>1
        <5> QED
          BY <2>4, <5>1
      <4>2. CASE j \in 1..adding.size
        <5>1. adding.offset + 1 + j \in 1..Len(disk)
          BY ONLY <2>2, <3>0, <4>2
        <5>2. disk'[adding.offset + 1 + j] = disk[adding.offset + 1 + j]
          BY <2>4, <5>1
        <5> QED
          BY <3>1, <4>2, <5>2
      <4>3. j = adding.size + 1 \/ j \in 1..adding.size
        BY <2>2
      <4> QED
        BY <4>1, <4>2, <4>3
    <3>4. Len(disk') = adding.offset + 1 + (adding.size + 1)
      BY <2>4, <3>5
    <3> QED
      BY <2>1, <2>6, <3>1, <3>2, <3>3, <3>4 DEF CopyOK
  <2>8. EntriesOK'
    BY <2>1, <2>4 DEF ArchiveInv, EntriesOK
  <2>9. ArchiveTyped'
    BY <1>1, <2>1, <2>2, <2>4, <2>6 DEF ArchiveInv, ArchiveTyped
  <2>10. FileOK'
    BY <1>1, <2>1 DEF ArchiveInv, FileOK, DestinationKept
  <2> QED
    BY <2>7, <2>8, <2>9, <2>10 DEF ArchiveInv
<1> QED
  BY <1>2, <1>3

LEMMA EndEntryKeeps ==
  ASSUME ArchiveInv, EndEntry
  PROVE  ArchiveInv'
<1> DEFINE block == [kind |-> "descriptor", name |-> adding.name]
           entry == [name |-> adding.name, offset |-> adding.offset, size |-> adding.size]
<1>1. /\ stage = "copy" /\ stage' = "add" /\ UNCHANGED <<partSize, destination, foreignFile>>
      /\ WriteBlock(block) /\ entries' = Append(entries, entry) /\ adding' = NoEntry
  BY DEF EndEntry
<1>2. /\ adding.name \in Nat /\ adding.offset \in Nat /\ adding.size \in Nat
      /\ entries \in Seq([name : Nat, offset : Nat, size : Nat])
  BY DEF ArchiveInv, ArchiveTyped
<1>3. block \in Block
  BY <1>2 DEF Block
<1>4. /\ disk' \in Seq(Block) /\ Len(disk') = Len(disk) + 1
      /\ position' \in Nat /\ position' = Len(disk')
      /\ \A i \in 1..Len(disk) : disk'[i] = disk[i]
      /\ disk'[Len(disk) + 1] = block
      /\ \A n \in DOMAIN entries : Readable(disk', entries[n].offset, entries[n])
  BY <1>1, <1>3, BlockAdded
<1>5. /\ Len(disk) = adding.offset + 1 + adding.size
      /\ disk[adding.offset + 1] = [kind |-> "header", name |-> adding.name]
      /\ \A j \in 1..adding.size :
           disk[adding.offset + 1 + j] = [kind |-> "data", name |-> adding.name]
      /\ adding.offset <= MaxOffset
  BY <1>1 DEF ArchiveInv, CopyOK
<1>6. /\ entry.name = adding.name /\ entry.offset = adding.offset /\ entry.size = adding.size
      /\ entry \in [name : Nat, offset : Nat, size : Nat]
  BY <1>2
<1> HIDE DEF entry
<1>7. Closing(disk', entry.offset, entry)
  <2>1. disk'[adding.offset + 1] = [kind |-> "header", name |-> adding.name]
    BY <1>2, <1>4, <1>5
  <2>2. ASSUME NEW j \in 1..adding.size
        PROVE  disk'[adding.offset + 1 + j] = [kind |-> "data", name |-> adding.name]
    <3>1. adding.offset + 1 + j \in 1..Len(disk)
      BY <1>2, <1>5
    <3>2. disk'[adding.offset + 1 + j] = disk[adding.offset + 1 + j]
      BY <1>4, <3>1
    <3> QED
      BY <1>5, <3>2
  <2>3. adding.offset + adding.size + 2 = Len(disk) + 1
    BY <1>2, <1>5
  <2>4. disk'[adding.offset + adding.size + 2] = block
    BY <1>4, <2>3
  <2>5. adding.offset + adding.size + 2 = Len(disk')
    BY <1>4, <2>3
  <2> QED
    BY <1>6, <2>1, <2>2, <2>4, <2>5 DEF Closing, Whole
<1>8. /\ entries' \in Seq([name : Nat, offset : Nat, size : Nat])
      /\ DOMAIN entries' = DOMAIN entries \cup {Len(entries) + 1}
      /\ \A n \in DOMAIN entries : entries'[n] = entries[n]
      /\ entries'[Len(entries) + 1] = entry
  <2>1. entries' \in Seq([name : Nat, offset : Nat, size : Nat])
    BY <1>1, <1>2, <1>6, AppendProperties
  <2>2. /\ Len(entries') = Len(entries) + 1 /\ entries'[Len(entries) + 1] = entry
        /\ \A n \in 1..Len(entries) : entries'[n] = entries[n]
    BY <1>1, <1>2, <1>6, AppendProperties
  <2>3. /\ DOMAIN entries = 1..Len(entries) /\ Len(entries) \in Nat
        /\ DOMAIN entries' = 1..(Len(entries) + 1)
    BY <1>2, <2>1, <2>2, LenProperties
  <2> QED
    BY <2>1, <2>2, <2>3
<1>9. EntriesOK'
  <2> SUFFICES ASSUME NEW n \in DOMAIN entries'
               PROVE  /\ entries'[n].offset <= MaxOffset
                      /\ \/ Closing(disk', entries'[n].offset, entries'[n])
                         \/ Readable(disk', entries'[n].offset, entries'[n])
    BY <1>1 DEF EntriesOK
  <2>1. CASE n \in DOMAIN entries
    BY <1>4, <1>8, <2>1 DEF ArchiveInv, EntriesOK
  <2>2. CASE n = Len(entries) + 1
    BY <1>5, <1>6, <1>7, <1>8, <2>2
  <2> QED
    BY <1>8, <2>1, <2>2
<1>10. ArchiveTyped'
  BY <1>1, <1>4, <1>8 DEF ArchiveInv, ArchiveTyped, NoEntry, Manifest
<1> QED
  BY <1>1, <1>9, <1>10 DEF ArchiveInv, CopyOK, FileOK, DestinationKept

\* A sequence, then a directory, then its end.
LEMMA DirectoryAppended ==
  ASSUME NEW s \in Seq(Block), NEW count \in Nat, NEW dir \in [1..count -> Block],
         NEW end \in Block
  PROVE  /\ s \o dir \o <<end>> \in Seq(Block)
         /\ Len(s \o dir \o <<end>>) = Len(s) + count + 1
         /\ \A i \in 1..Len(s) : (s \o dir \o <<end>>)[i] = s[i]
         /\ count # 0 => (s \o dir \o <<end>>)[Len(s) + 1] = dir[1]
<1>1. dir \in Seq(Block) /\ Len(dir) = count
  <2>1. dir \in Seq(Block)
    BY SeqDef
  <2>2. DOMAIN dir = 1..Len(dir) /\ DOMAIN dir = 1..count /\ Len(dir) \in Nat
    BY <2>1, LenProperties
  <2> QED
    BY <2>1, <2>2
<1> DEFINE t == s \o dir
<1>2. /\ t \in Seq(Block) /\ Len(t) = Len(s) + count
      /\ \A i \in 1..Len(s) : t[i] = s[i]
      /\ count # 0 => t[Len(s) + 1] = dir[1]
  <2>1. /\ t \in Seq(Block) /\ Len(t) = Len(s) + Len(dir)
        /\ \A i \in 1..(Len(s) + Len(dir)) :
             t[i] = IF i <= Len(s) THEN s[i] ELSE dir[i - Len(s)]
    BY <1>1, ConcatProperties
  <2>2. Len(s) \in Nat
    BY LenProperties
  <2>3. ASSUME count # 0 PROVE t[Len(s) + 1] = dir[1]
    <3>1. /\ Len(s) + 1 \in 1..(Len(s) + count) /\ ~ (Len(s) + 1 <= Len(s))
          /\ Len(s) + 1 - Len(s) = 1
      BY <2>2, <2>3
    <3> QED
      BY <1>1, <2>1, <3>1
  <2>4. \A i \in 1..Len(s) : i \in 1..(Len(s) + Len(dir)) /\ i <= Len(s)
    BY <1>1, <2>2
  <2> QED
    BY <1>1, <2>1, <2>3, <2>4
<1> HIDE DEF t
<1>3. /\ Append(t, end) \in Seq(Block) /\ Len(Append(t, end)) = Len(t) + 1
      /\ \A i \in 1..Len(t) : Append(t, end)[i] = t[i]
  <2>1. t \in Seq(Block) /\ DOMAIN t = 1..Len(t)
    BY <1>2, LenProperties
  <2> QED
    BY <2>1, AppendProperties
<1>4. t \o <<end>> = Append(t, end)
  BY <1>2, AppendIsConcat
<1>5. Len(s) \in Nat
  BY LenProperties
<1>6. \A i \in 1..Len(s) : i \in 1..Len(t)
  BY <1>2, <1>5
<1>7. count # 0 => Len(s) + 1 \in 1..Len(t)
  BY <1>2, <1>5
<1> QED
  BY <1>2, <1>3, <1>4, <1>5, <1>6, <1>7 DEF t

LEMMA FinishKeeps ==
  ASSUME ArchiveInv, Finish
  PROVE  ArchiveInv'
<1>1. stage = "add" /\ UNCHANGED <<partSize, deleted, foreignFile>>
  BY DEF Finish
<1>2. CASE Abandon
  BY <1>1, <1>2, AbandonKeeps
<1>3. CASE ~ Abandon
  <2> DEFINE dir == [i \in 1..Len(entries) |-> [kind |-> "central", name |-> entries[i].name]]
             end == [kind |-> "end", name |-> Manifest]
  <2>1. /\ entries \in Seq([name : Nat, offset : Nat, size : Nat])
        /\ Len(entries) \in Nat /\ DOMAIN entries = 1..Len(entries)
        /\ disk \in Seq(Block) /\ position = Len(disk) /\ position \in Nat
    BY LenProperties DEF ArchiveInv, ArchiveTyped
  <2>2. /\ stage' = "ok" /\ disk' = disk \o dir \o <<end>>
        /\ position' = position + Len(entries) + 1 /\ position + Len(entries) <= MaxOffset
        /\ UNCHANGED <<destination, entries, adding>>
    <3>1. position + Len(entries) \in Nat /\ MaxOffset \in Nat
      BY <2>1, ArchiveAssumption
    <3>2. ~ (position + Len(entries) > MaxOffset \/ Len(entries) > MaxEntries)
      BY <1>3 DEF Finish
    <3>3. position + Len(entries) <= MaxOffset
      BY <3>1, <3>2
    <3> QED
      BY <1>3, <3>2, <3>3 DEF Finish
  <2>3. \A i \in 1..Len(entries) :
          entries[i].name \in Nat /\ entries[i].offset \in Nat /\ entries[i].size \in Nat
    <3> SUFFICES ASSUME NEW i \in 1..Len(entries)
                 PROVE  entries[i].name \in Nat /\ entries[i].offset \in Nat
                        /\ entries[i].size \in Nat
      OBVIOUS
    <3>1. entries[i] \in [name : Nat, offset : Nat, size : Nat]
      BY <2>1, ElementOfSeq
    <3> QED
      BY <3>1
  <2>4. dir \in [1..Len(entries) -> Block] /\ end \in Block
    BY <2>3 DEF Block, Manifest
  <2>5. /\ disk' \in Seq(Block) /\ Len(disk') = Len(disk) + Len(entries) + 1
        /\ \A i \in 1..Len(disk) : disk'[i] = disk[i]
        /\ Len(entries) # 0 => disk'[Len(disk) + 1] = dir[1]
    <3>1. disk' = disk \o dir \o <<end>> /\ disk \in Seq(Block) /\ Len(entries) \in Nat
      BY <2>1, <2>2
    <3> HIDE DEF dir, end
    <3> QED
      BY <2>4, <3>1, DirectoryAppended
  <2>6. Len(entries) # 0 => disk'[Len(disk) + 1].kind = "central"
    <3>1. Len(entries) # 0 => 1 \in 1..Len(entries)
      BY <2>1
    <3> QED
      BY <2>5, <3>1
  <2>10. ASSUME NEW n \in DOMAIN entries
         PROVE  Readable(disk', entries[n].offset, entries[n])
    <3>1. n \in 1..Len(entries) /\ Len(entries) # 0
      BY <2>1, <2>10
    <3>2. DOMAIN disk = 1..Len(disk) /\ Len(disk) \in Nat
      BY <2>1
    <3>3. Len(disk') \in Nat /\ Len(disk') > Len(disk) /\ DOMAIN disk' = 1..Len(disk')
      BY <2>1, <2>5, LenProperties
    <3>4. \/ Closing(disk, entries[n].offset, entries[n])
          \/ Readable(disk, entries[n].offset, entries[n])
      BY DEF ArchiveInv, EntriesOK
    <3>5. /\ entries[n].offset \in Nat /\ entries[n].size \in Nat
          /\ disk'[Len(disk) + 1].kind = "central"
          /\ \A i \in 1..Len(disk) : disk'[i] = disk[i]
      BY <2>3, <2>5, <2>6, <3>1
    <3>6. \/ /\ Closing(disk, entries[n].offset, entries[n])
             /\ disk'[Len(disk) + 1].kind \in {"header", "central"}
          \/ Readable(disk, entries[n].offset, entries[n])
      BY <3>4, <3>5
    <3> HIDE DEF dir, end
    <3> QED
      BY <3>2, <3>3, <3>5, <3>6, BlockAfter
  <2>11. EntriesOK'
    BY <2>2, <2>10 DEF ArchiveInv, EntriesOK
  <2>12. position' \in Nat /\ position' = Len(disk') /\ position' <= MaxOffset + 1
    <3>1. MaxOffset \in Nat
      BY ArchiveAssumption
    <3> QED
      BY <2>1, <2>2, <2>5, <3>1
  <2>13. ArchiveTyped'
    BY <1>1, <2>2, <2>5, <2>12 DEF ArchiveInv, ArchiveTyped
  <2>14. FileOK'
    BY <1>1, <2>2, <2>12 DEF ArchiveInv, FileOK, DestinationKept
  <2> QED
    BY <2>2, <2>11, <2>13, <2>14 DEF ArchiveInv, CopyOK
<1> QED
  BY <1>2, <1>3

LEMMA ArchiveStep == ArchiveInv /\ [ArchiveNext]_archiveVars => ArchiveInv'
<1> SUFFICES ASSUME ArchiveInv, [ArchiveNext]_archiveVars PROVE ArchiveInv'
  OBVIOUS
<1>1. CASE UNCHANGED archiveVars
  BY <1>1 DEF archiveVars, ArchiveInv, ArchiveTyped, EntriesOK, CopyOK, FileOK, DestinationKept
<1>2. CASE ArchiveFails
  BY <1>2, AbandonKeeps DEF ArchiveFails
<1> QED
  BY <1>1, <1>2, OthersKeep, BeginEntryKeeps, CopyBytesKeeps, EndEntryKeeps, FinishKeeps
  DEF ArchiveNext

\* For any number and length of log parts and any limits of the format: a bundle
\* that is reported as written can be read back from its directory, one that is
\* not leaves no file, and a file of somebody else's is never touched.
THEOREM ExportsAreSound == ArchiveSpec => []ExportSound
<1>1. ArchiveInv => ExportSound
  <2> SUFFICES ASSUME ArchiveInv PROVE ExportSound
    OBVIOUS
  <2>1. stage = "ok" => \A n \in DOMAIN entries :
          entries[n].offset <= MaxOffset /\ Readable(disk, entries[n].offset, entries[n])
    BY DEF ArchiveInv, EntriesOK
  <2> QED
    BY <2>1 DEF ArchiveInv, ArchiveTyped, FileOK, ExportSound, ArchiveReadable
<1> QED
  BY <1>1, ArchiveInitInv, ArchiveStep, PTL DEF ArchiveSpec

-----------------------------------------------------------------------------
(* TrayWindow: the window and its icon, and two queues between them.       *)

\* A queue of tokens, calls or messages; its tokens need not look alike.
Queue(q) == q \in Seq({q[i] : i \in DOMAIN q})

Has(q, name) == \E i \in DOMAIN q : q[i].then = name
HasOp(q, op) == \E i \in DOMAIN q : q[i].op = op

\* The continuations of initializeTray, of which at most one is under way.
Initial == {"iconSet", "menuSet", "initFailed"}
HasInitial(q) == \E i \in DOMAIN q : q[i].then \in Initial
Once(q) == \A i, j \in DOMAIN q : q[i].then \in Initial /\ q[j].then \in Initial => i = j

\* The notification area has refused the first icon.
Refused(q) == \E i \in DOMAIN q : q[i].then = "iconSet" /\ ~q[i].ok

\* The option of the window in a reply: itself, or an entry of the menu.
Option(m) == IF m.then = "topSet" THEN m.arg ELSE m.arg.checked

\* The last token of a continuation carries this option.
Latest(q, name, value) ==
  \A i \in DOMAIN q :
    q[i].then = name /\ (\A j \in DOMAIN q : j > i => q[j].then # name) => Option(q[i]) = value

\* Every icon that is still to be set is removed later.
Covered(q) ==
  \A i \in DOMAIN q : q[i].op = "setIcon" => \E j \in DOMAIN q : j > i /\ q[j].op = "destroy"

\* What a continuation waits for.
OpOf(name) ==
  CASE name \in {"iconSet", "updated"} -> "setIcon"
    [] name \in {"menuSet", "topRefreshed", "hide", "ignored"} -> "setContextMenu"
    [] name \in {"destroyed", "initFailed"} -> "destroy"
    [] name = "topSet" -> "setAlwaysOnTop"
    [] name = "hidden" -> "hide"
    [] name = "shown" -> "show"
    [] name = "knowsMinimized" -> "isMinimized"
    [] name = "visible" -> "restore"
    [] OTHER -> "none"
Fits(q) == \A i \in DOMAIN q : q[i].op = OpOf(q[i].then) /\ q[i].op # "none"

\* The first token c of a queue q is taken, and rest is left.
Took(q, c, rest) ==
  /\ Queue(rest)
  /\ \A name : Has(q, name) <=> c.then = name \/ Has(rest, name)
  /\ \A op : HasOp(q, op) <=> c.op = op \/ HasOp(rest, op)
  /\ HasInitial(q) <=> c.then \in Initial \/ HasInitial(rest)
  /\ Once(q) => Once(rest) /\ (c.then \in Initial => ~HasInitial(rest))
  /\ Refused(q) <=> (c.then = "iconSet" /\ ~c.ok) \/ Refused(rest)
  /\ \A name, value : Latest(q, name, value) =>
       /\ Latest(rest, name, value)
       /\ c.then = name /\ ~Has(rest, name) => Option(c) = value
  /\ Covered(q) => Covered(rest) /\ (c.op = "setIcon" => HasOp(rest, "destroy"))
  /\ Fits(q) => Fits(rest) /\ c.op = OpOf(c.then) /\ c.op # "none"

\* A token c is put behind a queue q, which becomes longer.
Gave(q, c, longer) ==
  /\ Queue(longer)
  /\ \A name : Has(longer, name) <=> c.then = name \/ Has(q, name)
  /\ \A op : HasOp(longer, op) <=> c.op = op \/ HasOp(q, op)
  /\ HasInitial(longer) <=> c.then \in Initial \/ HasInitial(q)
  /\ Once(q) /\ (c.then \in Initial => ~HasInitial(q)) => Once(longer)
  /\ Refused(longer) <=> (c.then = "iconSet" /\ ~c.ok) \/ Refused(q)
  /\ \A name, value :
       Latest(longer, name, value) <=> IF c.then = name THEN Option(c) = value
                                       ELSE Latest(q, name, value)
  /\ (c.op = "destroy") \/ (c.op # "setIcon" /\ Covered(q)) => Covered(longer)
  /\ Fits(q) /\ c.op = OpOf(c.then) /\ c.op # "none" => Fits(longer)

\* What a queue without a token of some kind need not say of it.
Absent(q) ==
  /\ HasInitial(q) <=> \E name \in Initial : Has(q, name)
  /\ Refused(q) => Has(q, "iconSet")
  /\ \A name, value : ~Has(q, name) => Latest(q, name, value)
  /\ ~HasOp(q, "setIcon") => Covered(q)
  /\ Fits(q) /\ HasOp(q, "setIcon") => Has(q, "iconSet") \/ Has(q, "updated")

LEMMA AbsentTokens == ASSUME NEW q PROVE Absent(q)
<1>1. HasInitial(q) <=> \E name \in Initial : Has(q, name)
  BY DEF HasInitial, Has
<1>2. Refused(q) => Has(q, "iconSet")
  BY DEF Refused, Has
<1>3. \A name, value : ~Has(q, name) => Latest(q, name, value)
  BY DEF Latest, Has
<1>4. ~HasOp(q, "setIcon") => Covered(q)
  BY DEF HasOp, Covered
<1>5. Fits(q) /\ HasOp(q, "setIcon") => Has(q, "iconSet") \/ Has(q, "updated")
  BY DEF Fits, HasOp, Has, OpOf
<1> QED
  BY <1>1, <1>2, <1>3, <1>4, <1>5 DEF Absent

\* A queue is a sequence of its own tokens.
LEMMA QueueOf == ASSUME NEW S, NEW q \in Seq(S) PROVE Queue(q)
<1>1. Len(q) \in Nat /\ q \in [1 .. Len(q) -> S] /\ DOMAIN q = 1 .. Len(q)
  BY LenProperties
<1>2. q \in [1 .. Len(q) -> {q[i] : i \in DOMAIN q}]
  BY <1>1
<1> QED
  BY <1>1, <1>2, SeqDef DEF Queue

\* The tokens of a queue whose first one is taken, ...
LEMMA TailTokens ==
  ASSUME NEW q, Queue(q), q # <<>>
  PROVE  /\ Queue(Tail(q)) /\ Len(q) \in Nat \ {0} /\ DOMAIN q = 1 .. Len(q)
         /\ DOMAIN Tail(q) = 1 .. Len(q) - 1
         /\ \A i \in 1 .. Len(q) - 1 : i + 1 \in 1 .. Len(q) /\ Tail(q)[i] = q[i + 1]
         /\ \A i \in 1 .. Len(q) : i = 1 \/ i - 1 \in 1 .. Len(q) - 1
         /\ 1 \in 1 .. Len(q) /\ Head(q) = q[1]
<1> DEFINE S == {q[i] : i \in DOMAIN q}
<1>1. q \in Seq(S)
  BY DEF Queue
<1>2. Len(q) \in Nat \ {0} /\ DOMAIN q = 1 .. Len(q)
  BY <1>1, LenProperties, EmptySeq
<1>3. Tail(q) \in Seq(S) /\ Len(Tail(q)) = Len(q) - 1 /\ Head(q) = q[1]
  BY <1>1, HeadTailProperties
<1>4. \A i \in 1 .. Len(q) - 1 : i + 1 \in 1 .. Len(q) /\ Tail(q)[i] = q[i + 1]
  BY <1>1, <1>2, <1>3, HeadTailProperties
<1>5. DOMAIN Tail(q) = 1 .. Len(q) - 1
  BY <1>2, <1>3, LenProperties
<1>6. Queue(Tail(q))
  BY <1>3, QueueOf
<1> QED
  BY <1>2, <1>3, <1>4, <1>5, <1>6
\* ... and of one that becomes longer.
LEMMA AppendTokens ==
  ASSUME NEW q, Queue(q), NEW c
  PROVE  /\ Queue(Append(q, c)) /\ Len(q) \in Nat /\ DOMAIN q = 1 .. Len(q)
         /\ DOMAIN Append(q, c) = 1 .. Len(q) + 1
         /\ \A i \in 1 .. Len(q) : i \in 1 .. Len(q) + 1 /\ Append(q, c)[i] = q[i]
         /\ \A i \in 1 .. Len(q) + 1 : i \in 1 .. Len(q) \/ i = Len(q) + 1
         /\ Len(q) + 1 \in 1 .. Len(q) + 1 /\ Append(q, c)[Len(q) + 1] = c
<1> DEFINE S == {q[i] : i \in DOMAIN q} \cup {c}
<1>1. q \in Seq(S)
  <2>1. q \in Seq({q[i] : i \in DOMAIN q})
    BY DEF Queue
  <2> QED
    BY <2>1, SeqMonotonic
<1>2. Len(q) \in Nat /\ DOMAIN q = 1 .. Len(q)
  BY <1>1, LenProperties
<1>3. c \in S
  OBVIOUS
<1> HIDE DEF S
<1>4. /\ Append(q, c) \in Seq(S) /\ Len(Append(q, c)) = Len(q) + 1
      /\ \A i \in 1 .. Len(q) : Append(q, c)[i] = q[i]
      /\ Append(q, c)[Len(q) + 1] = c
  BY <1>1, <1>3, AppendProperties
<1>5. DOMAIN Append(q, c) = 1 .. Len(q) + 1
  BY <1>4, LenProperties
<1>6. Queue(Append(q, c))
  BY <1>4, QueueOf
<1> QED
  BY <1>2, <1>4, <1>5, <1>6

LEMMA HeadTaken ==
  ASSUME NEW q, Queue(q), q # <<>>
  PROVE  Took(q, Head(q), Tail(q))
<1> DEFINE c == Head(q)
           r == Tail(q)
           n == Len(q)
<1>1. /\ Queue(r) /\ n \in Nat \ {0} /\ DOMAIN q = 1 .. n
      /\ DOMAIN r = 1 .. n - 1
      /\ \A i \in 1 .. n - 1 : i + 1 \in 1 .. n /\ r[i] = q[i + 1]
      /\ \A i \in 1 .. n : i = 1 \/ i - 1 \in 1 .. n - 1
      /\ 1 \in 1 .. n /\ c = q[1]
  BY TailTokens
<1> HIDE DEF c, r, n
<1>2. \A i \in 1 .. n : q[i] = c \/ (i - 1 \in 1 .. n - 1 /\ q[i] = r[i - 1])
  BY <1>1
<1>3. \A name : Has(q, name) <=> c.then = name \/ Has(r, name)
  BY <1>1, <1>2 DEF Has
<1>4. \A op : HasOp(q, op) <=> c.op = op \/ HasOp(r, op)
  BY <1>1, <1>2 DEF HasOp
<1>5. HasInitial(q) <=> c.then \in Initial \/ HasInitial(r)
  BY <1>1, <1>2 DEF HasInitial
<1>6. Once(q) => Once(r) /\ (c.then \in Initial => ~HasInitial(r))
  <2> SUFFICES ASSUME Once(q) PROVE Once(r) /\ (c.then \in Initial => ~HasInitial(r))
    OBVIOUS
  <2>1. \A i, j \in 1 .. n : q[i].then \in Initial /\ q[j].then \in Initial => i = j
    BY <1>1 DEF Once
  <2>2. ASSUME NEW i \in 1 .. n - 1, NEW j \in 1 .. n - 1, r[i].then \in Initial, r[j].then \in Initial
        PROVE  i = j
    <3>1. i + 1 = j + 1
      BY <1>1, <2>1, <2>2
    <3> QED
      BY <3>1
  <2>3. ASSUME NEW i \in 1 .. n - 1, r[i].then \in Initial PROVE c.then \notin Initial
    <3>1. i + 1 \in 1 .. n /\ q[i + 1].then \in Initial /\ i + 1 # 1
      BY <1>1, <2>3
    <3> QED
      BY <1>1, <2>1, <3>1
  <2> QED
    BY <1>1, <2>2, <2>3 DEF Once, HasInitial
<1>7. Refused(q) <=> (c.then = "iconSet" /\ ~c.ok) \/ Refused(r)
  BY <1>1, <1>2 DEF Refused
<1>8. ASSUME NEW name, NEW value, Latest(q, name, value)
      PROVE  /\ Latest(r, name, value)
             /\ c.then = name /\ ~Has(r, name) => Option(c) = value
  <2>1. \A i \in 1 .. n : /\ q[i].then = name
                          /\ \A j \in 1 .. n : j > i => q[j].then # name
                          => Option(q[i]) = value
    BY <1>1, <1>8 DEF Latest
  <2>2. ASSUME NEW i \in 1 .. n - 1, r[i].then = name,
               \A j \in 1 .. n - 1 : j > i => r[j].then # name
        PROVE  Option(r[i]) = value
    <3>1. i + 1 \in 1 .. n /\ q[i + 1] = r[i]
      BY <1>1
    <3>2. ASSUME NEW j \in 1 .. n, j > i + 1 PROVE q[j].then # name
      <4>1. j - 1 \in 1 .. n - 1 /\ j - 1 > i /\ (j - 1) + 1 = j
        BY <1>1, <3>2
      <4>2. q[(j - 1) + 1] = r[j - 1]
        BY <1>1, <4>1
      <4> QED
        BY <2>2, <4>1, <4>2
    <3> QED
      BY <2>1, <2>2, <3>1, <3>2
  <2>3. ASSUME c.then = name, ~Has(r, name) PROVE Option(c) = value
    <3>1. \A j \in 1 .. n - 1 : r[j].then # name
      BY <1>1, <2>3 DEF Has
    <3>2. ASSUME NEW j \in 1 .. n, j > 1 PROVE q[j].then # name
      <4>1. j - 1 \in 1 .. n - 1 /\ (j - 1) + 1 = j
        BY <1>1, <3>2
      <4>2. q[(j - 1) + 1] = r[j - 1]
        BY <1>1, <4>1
      <4> QED
        BY <3>1, <4>1, <4>2
    <3> QED
      BY <1>1, <2>1, <2>3, <3>2
  <2> QED
    BY <1>1, <2>2, <2>3 DEF Latest
<1>9. Covered(q) => Covered(r) /\ (c.op = "setIcon" => HasOp(r, "destroy"))
  <2> SUFFICES ASSUME Covered(q) PROVE Covered(r) /\ (c.op = "setIcon" => HasOp(r, "destroy"))
    OBVIOUS
  <2>1. \A i \in 1 .. n : q[i].op = "setIcon" => \E j \in 1 .. n : j > i /\ q[j].op = "destroy"
    BY <1>1 DEF Covered
  <2>2. ASSUME NEW i \in 1 .. n, q[i].op = "setIcon"
        PROVE  \E k \in 1 .. n - 1 : k + 1 > i /\ r[k].op = "destroy"
    <3>1. PICK j \in 1 .. n : j > i /\ q[j].op = "destroy"
      BY <2>1, <2>2
    <3>2. j - 1 \in 1 .. n - 1 /\ (j - 1) + 1 = j
      BY <1>1, <3>1
    <3>3. q[(j - 1) + 1] = r[j - 1]
      BY <1>1, <3>2
    <3> QED
      BY <3>1, <3>2, <3>3
  <2>3. ASSUME NEW i \in 1 .. n - 1, r[i].op = "setIcon"
        PROVE  \E k \in 1 .. n - 1 : k > i /\ r[k].op = "destroy"
    <3>1. i + 1 \in 1 .. n /\ q[i + 1].op = "setIcon"
      BY <1>1, <2>3
    <3>2. PICK k \in 1 .. n - 1 : k + 1 > i + 1 /\ r[k].op = "destroy"
      BY <2>2, <3>1
    <3> QED
      BY <3>2
  <2>4. c.op = "setIcon" => HasOp(r, "destroy")
    BY <1>1, <2>2 DEF HasOp
  <2> QED
    BY <1>1, <2>3, <2>4 DEF Covered
<1>10. Fits(q) => Fits(r) /\ c.op = OpOf(c.then) /\ c.op # "none"
  BY <1>1 DEF Fits
<1>11. Took(q, c, r)
  BY <1>1, <1>3, <1>4, <1>5, <1>6, <1>7, <1>8, <1>9, <1>10 DEF Took
<1> QED
  BY <1>11 DEF c, r

LEMMA TokenGiven ==
  ASSUME NEW q, Queue(q), NEW c
  PROVE  Gave(q, c, Append(q, c))
<1> DEFINE l == Append(q, c)
           n == Len(q)
<1>1. /\ Queue(l) /\ n \in Nat /\ DOMAIN q = 1 .. n
      /\ DOMAIN l = 1 .. n + 1
      /\ \A i \in 1 .. n : i \in 1 .. n + 1 /\ l[i] = q[i]
      /\ \A i \in 1 .. n + 1 : i \in 1 .. n \/ i = n + 1
      /\ n + 1 \in 1 .. n + 1 /\ l[n + 1] = c
  BY AppendTokens
<1> HIDE DEF l, n
<1>2. \A i \in 1 .. n + 1 : l[i] = c \/ (i \in 1 .. n /\ l[i] = q[i])
  BY <1>1
<1>3. \A name : Has(l, name) <=> c.then = name \/ Has(q, name)
  BY <1>1, <1>2 DEF Has
<1>4. \A op : HasOp(l, op) <=> c.op = op \/ HasOp(q, op)
  BY <1>1, <1>2 DEF HasOp
<1>5. HasInitial(l) <=> c.then \in Initial \/ HasInitial(q)
  BY <1>1, <1>2 DEF HasInitial
<1>6. Once(q) /\ (c.then \in Initial => ~HasInitial(q)) => Once(l)
  <2> SUFFICES ASSUME Once(q), c.then \in Initial => ~HasInitial(q) PROVE Once(l)
    OBVIOUS
  <2>1. ASSUME NEW i \in 1 .. n + 1, NEW j \in 1 .. n + 1, l[i].then \in Initial, l[j].then \in Initial
        PROVE  i = j
    <3>1. CASE i \in 1 .. n /\ j \in 1 .. n
      BY <1>1, <2>1, <3>1 DEF Once
    <3>2. CASE i \in 1 .. n /\ j = n + 1
      BY <1>1, <2>1, <3>2 DEF HasInitial
    <3>3. CASE i = n + 1 /\ j \in 1 .. n
      BY <1>1, <2>1, <3>3 DEF HasInitial
    <3> QED
      BY <1>1, <3>1, <3>2, <3>3
  <2> QED
    BY <1>1, <2>1 DEF Once
<1>7. Refused(l) <=> (c.then = "iconSet" /\ ~c.ok) \/ Refused(q)
  BY <1>1, <1>2 DEF Refused
<1>8. ASSUME NEW name, NEW value
      PROVE  Latest(l, name, value) <=> IF c.then = name THEN Option(c) = value
                                        ELSE Latest(q, name, value)
  <2>1. CASE c.then = name
    <3>1. \A i \in 1 .. n : n + 1 > i
      BY <1>1
    <3>2. ~ \E j \in 1 .. n + 1 : j > n + 1
      BY <1>1
    <3> QED
      BY <1>1, <2>1, <3>1, <3>2 DEF Latest
  <2>2. CASE c.then # name
    <3>1. ASSUME NEW i \in 1 .. n
          PROVE  (\A j \in 1 .. n + 1 : j > i => l[j].then # name)
                   <=> (\A j \in 1 .. n : j > i => q[j].then # name)
      BY <1>1, <1>2, <2>2
    <3> QED
      BY <1>1, <2>2, <3>1 DEF Latest
  <2> QED
    BY <2>1, <2>2
<1>9. (c.op = "destroy") \/ (c.op # "setIcon" /\ Covered(q)) => Covered(l)
  <2>1. CASE c.op = "destroy"
    <3>1. \A i \in 1 .. n : n + 1 > i
      BY <1>1
    <3>2. c.op # "setIcon"
      BY <2>1
    <3> QED
      BY <1>1, <2>1, <3>1, <3>2 DEF Covered
  <2>2. CASE c.op # "setIcon" /\ Covered(q)
    <3>1. \A i \in 1 .. n : q[i].op = "setIcon" => \E j \in 1 .. n : j > i /\ q[j].op = "destroy"
      BY <1>1, <2>2 DEF Covered
    <3> QED
      BY <1>1, <2>2, <3>1 DEF Covered
  <2> QED
    BY <2>1, <2>2
<1>10. Fits(q) /\ c.op = OpOf(c.then) /\ c.op # "none" => Fits(l)
  BY <1>1, <1>2 DEF Fits
<1>11. Gave(q, c, l)
  BY <1>1, <1>3, <1>4, <1>5, <1>6, <1>7, <1>8, <1>9, <1>10 DEF Gave
<1> QED
  BY <1>11 DEF l
-----------------------------------------------------------------------------
\* A token of a continuation is a call, or a reply that has not been received.
Pending(name) == Has(calls, name) \/ Has(messages, name)
Initializing == HasInitial(calls) \/ HasInitial(messages)

TrayTyped ==
  /\ Queue(calls) /\ Queue(messages) /\ Fits(calls)
  /\ frame = [minimized |-> frame.minimized, hidden |-> frame.hidden, topmost |-> frame.topmost]
  /\ settings = [top |-> settings.top, hide |-> settings.hide]

\* initializeTray runs once, and nothing else is begun before it has finished.
InitialOK ==
  /\ Once(calls) /\ Once(messages) /\ ~ (HasInitial(calls) /\ HasInitial(messages))
  /\ Initializing => ~ Has(calls, "updated")
  /\ ~started => /\ ~Initializing /\ ~registered /\ ~icon /\ ~Has(calls, "updated")
                 /\ ~Pending("topRefreshed") /\ ~Pending("destroyed")
                 /\ settings.top = alwaysOnTop
  /\ Pending("iconSet") => /\ ~registered /\ ~Pending("topRefreshed") /\ ~Pending("destroyed")
                           /\ settings.top = alwaysOnTop
  /\ Has(calls, "iconSet") => ~icon
  /\ Has(messages, "iconSet") => (icon <=> ~Refused(messages))
  /\ Pending("menuSet") /\ ~disposed => registered /\ icon
  /\ Has(messages, "initFailed") => ~icon

\* While the program runs, whatever may hide the window has an icon to rely on.
HidingOK ==
  ~disposed =>
    /\ ~Pending("destroyed")
    /\ frame.hidden \/ hideWhenMinimized \/ canHide
         \/ Pending("hide") \/ Pending("hidden") \/ Pending("updated")
         => ~Initializing /\ icon /\ registered /\ started
    /\ registered \/ Pending("iconSet") \/ (~icon /\ ~HasOp(calls, "setIcon"))

\* What dispose leaves to be done is under way.
DisposedOK ==
  disposed =>
    /\ ~listener
    /\ Pending("iconSet") \/ (Covered(calls) /\ (icon => HasOp(calls, "destroy")))
    /\ registered => Pending("destroyed") \/ Pending("initFailed")

\* The newest choice of the option is shown, on the way, or saved.
TopOK ==
  /\ Latest(messages, "topSet", frame.topmost)
  /\ ~Has(messages, "topSet") => alwaysOnTop = frame.topmost
  /\ registered /\ ~disposed =>
       /\ Latest(calls, "topRefreshed", alwaysOnTop)
       /\ ~Has(calls, "topRefreshed") => Latest(messages, "topRefreshed", alwaysOnTop)
       /\ ~Pending("topRefreshed") => settings.top = alwaysOnTop

TrayInv == TrayTyped /\ InitialOK /\ HidingOK /\ DisposedOK /\ TopOK

LEMMA ReceivesTakes ==
  ASSUME TrayInv, NEW name, Receives(name)
  PROVE  /\ Took(messages, Head(messages), messages') /\ Head(messages).then = name
         /\ Absent(messages) /\ Absent(messages') /\ UNCHANGED <<frame, icon, menu, inputs>>
<1>1. Queue(messages) /\ messages # <<>> /\ Head(messages).then = name /\ messages' = Tail(messages)
  BY DEF TrayInv, TrayTyped, Receives
<1>2. Took(messages, Head(messages), messages')
  BY <1>1, HeadTaken
<1> QED
  BY <1>1, <1>2, AbsentTokens DEF Receives, native

LEMMA SentGives ==
  ASSUME TrayInv, NEW c, Sent(<<c>>)
  PROVE  Gave(calls, c, calls') /\ Absent(calls) /\ Absent(calls')
<1>1. Queue(calls) /\ calls \in Seq({calls[i] : i \in DOMAIN calls})
  BY DEF TrayInv, TrayTyped, Queue
<1>2. calls' = Append(calls, c)
  BY <1>1, AppendIsConcat DEF Sent
<1> QED
  BY <1>1, <1>2, TokenGiven, AbsentTokens

LEMMA SentNothing ==
  ASSUME TrayInv, Sent(<<>>)
  PROVE  calls' = calls /\ Absent(calls)
<1>1. calls \in Seq({calls[i] : i \in DOMAIN calls})
  BY DEF TrayInv, TrayTyped, Queue
<1> QED
  BY <1>1, ConcatEmptySeq, AbsentTokens DEF Sent
LEMMA IconSetKeeps == TrayInv /\ IconSet => TrayInv'
<1> SUFFICES ASSUME TrayInv, IconSet PROVE TrayInv'
  OBVIOUS
<1> USE DEF InitialOK, HidingOK, DisposedOK, TopOK, Took, Gave, Absent, Pending, Initializing, Initial,
        Ok, Answer, Call
<1>1. Receives("iconSet") /\ Queue(calls)
  BY DEF IconSet, TrayInv, TrayTyped
<1>2. /\ Took(messages, Head(messages), messages') /\ Head(messages).then = "iconSet"
      /\ Absent(messages) /\ Absent(messages') /\ UNCHANGED <<frame, icon, menu, inputs>>
  BY <1>1, ReceivesTakes
<1>3. /\ registered' = Ok
      /\ UNCHANGED <<disposed, hideWhenMinimized, windowVisible, alwaysOnTop, started, canHide>>
  BY DEF IconSet
<1>4. CASE ~Ok
  <2>1. /\ listener' = FALSE /\ calls' = calls /\ Absent(calls)
        /\ settings' = [top |-> settings.top, hide |-> settings'.hide]
    BY <1>1, <1>4, AbsentTokens DEF IconSet, NeverHide, TrayInv, TrayTyped
  <2>2. TrayTyped'
    BY <1>2, <2>1 DEF TrayInv, TrayTyped
  <2>3. InitialOK'
    BY <1>2, <1>3, <1>4, <2>1 DEF TrayInv
  <2>4. HidingOK'
    BY <1>2, <1>3, <1>4, <2>1 DEF TrayInv, TrayTyped
  <2>5. DisposedOK'
    BY <1>2, <1>3, <1>4, <2>1 DEF TrayInv, TrayTyped
  <2>6. TopOK'
    BY <1>2, <1>3, <1>4, <2>1 DEF TrayInv
  <2> QED
    BY <2>2, <2>3, <2>4, <2>5, <2>6 DEF TrayInv
<1>5. CASE Ok /\ disposed
  <2>1. /\ Gave(calls, Call("destroy", FALSE, "destroyed"), calls') /\ Absent(calls) /\ Absent(calls')
        /\ listener' = FALSE /\ settings' = settings
    BY <1>5, SentGives DEF IconSet
  <2>2. TrayTyped'
    BY <1>2, <2>1 DEF TrayInv, TrayTyped, OpOf
  <2>3. InitialOK'
    BY <1>2, <1>3, <1>5, <2>1 DEF TrayInv
  <2>4. HidingOK'
    BY <1>2, <1>3, <1>5, <2>1 DEF TrayInv, TrayTyped
  <2>5. DisposedOK'
    BY <1>2, <1>3, <1>5, <2>1 DEF TrayInv, TrayTyped
  <2>6. TopOK'
    BY <1>2, <1>3, <1>5, <2>1 DEF TrayInv
  <2> QED
    BY <2>2, <2>3, <2>4, <2>5, <2>6 DEF TrayInv
<1>6. CASE Ok /\ ~disposed
  <2>1. /\ Gave(calls, NewMenu, calls') /\ Absent(calls) /\ Absent(calls')
        /\ listener' = listener /\ settings' = settings
    BY <1>6, SentGives DEF IconSet
  <2>2. TrayTyped'
    BY <1>2, <2>1 DEF TrayInv, TrayTyped, OpOf, NewMenu
  <2>3. InitialOK'
    BY <1>2, <1>3, <1>6, <2>1 DEF TrayInv, NewMenu
  <2>4. HidingOK'
    BY <1>2, <1>3, <1>6, <2>1 DEF TrayInv, TrayTyped, NewMenu
  <2>5. DisposedOK'
    BY <1>2, <1>3, <1>6, <2>1 DEF TrayInv, TrayTyped, NewMenu
  <2>6. TopOK'
    BY <1>2, <1>3, <1>6, <2>1 DEF TrayInv, NewMenu
  <2> QED
    BY <2>2, <2>3, <2>4, <2>5, <2>6 DEF TrayInv
<1> QED
  BY <1>4, <1>5, <1>6
LEMMA MenuSent ==
  ASSUME TrayInv, NEW visible, NEW top, NEW then, Sent(TrayMenu(visible, top, then))
  PROVE  /\ IF registered /\ ~disposed
            THEN Gave(calls, Call("setContextMenu", [restore |-> ~visible, checked |-> top], then), calls')
            ELSE calls' = calls
         /\ Absent(calls) /\ Absent(calls')
<1>1. CASE registered /\ ~disposed
  BY <1>1, SentGives DEF TrayMenu
<1>2. CASE ~(registered /\ ~disposed)
  BY <1>2, SentNothing DEF TrayMenu
<1> QED
  BY <1>1, <1>2

\* Of initializeTray and of the option.
Noted == {"iconSet", "menuSet", "initFailed", "destroyed", "updated", "topSet", "topRefreshed"}

\* A call that a handler makes, and that nothing but its answer matters of.
Quiet(c) ==
  /\ c.op = OpOf(c.then)
  /\ \/ c.then \in {"ignored", "shown", "knowsMinimized", "visible", "topSet"}
     \/ /\ c.then \in {"hide", "hidden"}
        /\ disposed \/ hideWhenMinimized \/ Pending("hide")

LEMMA HandledQuietly ==
  ASSUME TrayInv, NEW name, name \notin Noted, Receives(name),
         UNCHANGED <<disposed, listener, registered, alwaysOnTop, started, canHide, settings>>,
         hideWhenMinimized' => hideWhenMinimized,
         calls' = calls \/ \E c : Quiet(c) /\ Gave(calls, c, calls')
  PROVE  TrayInv'
<1> USE DEF InitialOK, HidingOK, DisposedOK, TopOK, Took, Gave, Absent, Pending, Initializing, Initial, Noted
<1>1. /\ Took(messages, Head(messages), messages') /\ Head(messages).then \notin Noted
      /\ UNCHANGED <<frame, icon, menu, inputs>>
      /\ Absent(messages) /\ Absent(messages') /\ Absent(calls) /\ Absent(calls')
  BY ReceivesTakes, AbsentTokens
<1>2. CASE calls' = calls
  <2>1. TrayTyped'
    BY <1>1, <1>2 DEF TrayInv, TrayTyped
  <2>2. InitialOK'
    BY <1>1, <1>2 DEF TrayInv
  <2>3. HidingOK'
    BY <1>1, <1>2 DEF TrayInv
  <2>4. DisposedOK'
    BY <1>1, <1>2 DEF TrayInv
  <2>5. TopOK'
    BY <1>1, <1>2 DEF TrayInv
  <2> QED
    BY <2>1, <2>2, <2>3, <2>4, <2>5 DEF TrayInv
<1>3. ASSUME NEW c, Quiet(c), Gave(calls, c, calls') PROVE TrayInv'
  <2>1. /\ c.then \notin Noted \/ c.then = "topSet"
        /\ c.op = OpOf(c.then) /\ c.op \notin {"none", "setIcon", "destroy"}
        /\ c.then \in {"hide", "hidden"} => disposed \/ hideWhenMinimized \/ Pending("hide")
    BY <1>3 DEF Quiet, OpOf
  <2>2. TrayTyped'
    BY <1>1, <1>3, <2>1 DEF TrayInv, TrayTyped
  <2>3. InitialOK'
    BY <1>1, <1>3, <2>1 DEF TrayInv
  <2>4. HidingOK'
    BY <1>1, <1>3, <2>1 DEF TrayInv
  <2>5. DisposedOK'
    BY <1>1, <1>3, <2>1 DEF TrayInv
  <2>6. TopOK'
    BY <1>1, <1>3, <2>1 DEF TrayInv
  <2> QED
    BY <2>2, <2>3, <2>4, <2>5, <2>6 DEF TrayInv
<1> QED
  BY <1>2, <1>3

LEMMA MenuSentQuietly ==
  ASSUME TrayInv, NEW visible, NEW top, Sent(TrayMenu(visible, top, "ignored"))
  PROVE  calls' = calls \/ \E c : Quiet(c) /\ Gave(calls, c, calls')
<1>1. ASSUME NEW arg PROVE Quiet(Call("setContextMenu", arg, "ignored"))
  BY DEF Quiet, Call, OpOf
<1> QED
  BY <1>1, MenuSent

LEMMA QuietHandlersKeep ==
  ASSUME TrayInv,
         \/ OnWindowMinimize \/ Hide \/ Hidden \/ OnWindowRestore \/ RestoreFromTray \/ Shown
         \/ KnowsMinimized \/ Visible \/ ToggleAlwaysOnTop \/ Refreshed
  PROVE  TrayInv'
<1> USE DEF Noted
<1>1. CASE OnWindowMinimize
  <2>1. calls' = calls \/ \E c : Quiet(c) /\ Gave(calls, c, calls')
    <3>1. ASSUME NEW arg, hideWhenMinimized PROVE Quiet(Call("setContextMenu", arg, "hide"))
      BY <3>1 DEF Quiet, Call, OpOf
    <3>2. CASE hideWhenMinimized /\ ~disposed /\ registered
      BY <1>1, <3>1, <3>2, MenuSent DEF OnWindowMinimize
    <3>3. CASE ~(hideWhenMinimized /\ ~disposed /\ registered)
      BY <1>1, <3>3 DEF OnWindowMinimize
    <3> QED
      BY <3>2, <3>3
  <2> QED
    BY <1>1, <2>1, HandledQuietly DEF OnWindowMinimize
<1>2. CASE Hide
  <2>1. Has(messages, "hide")
    BY <1>2, ReceivesTakes DEF Hide, Took
  <2>2. calls' = calls \/ \E c : Quiet(c) /\ Gave(calls, c, calls')
    <3>1. CASE Ok
      BY <1>2, <2>1, <3>1, SentGives DEF Hide, Quiet, Call, OpOf, Pending
    <3>2. CASE ~Ok
      BY <1>2, <3>2, MenuSentQuietly DEF Hide
    <3> QED
      BY <3>1, <3>2
  <2>3. hideWhenMinimized' => hideWhenMinimized
    BY <1>2 DEF Hide
  <2> QED
    BY <1>2, <2>2, <2>3, HandledQuietly DEF Hide
<1>3. CASE Hidden
  <2>1. calls' = calls \/ \E c : Quiet(c) /\ Gave(calls, c, calls')
    BY <1>3, MenuSentQuietly DEF Hidden
  <2>2. hideWhenMinimized' => hideWhenMinimized
    BY <1>3 DEF Hidden
  <2> QED
    BY <1>3, <2>1, <2>2, HandledQuietly DEF Hidden
<1>4. CASE OnWindowRestore
  <2>1. calls' = calls \/ \E c : Quiet(c) /\ Gave(calls, c, calls')
    BY <1>4, MenuSentQuietly DEF OnWindowRestore
  <2> QED
    BY <1>4, <2>1, HandledQuietly DEF OnWindowRestore
<1>5. CASE RestoreFromTray
  <2>1. calls' = calls \/ \E c : Quiet(c) /\ Gave(calls, c, calls')
    BY <1>5, SentGives, SentNothing DEF RestoreFromTray, Quiet, Call, OpOf
  <2> QED
    BY <1>5, <2>1, HandledQuietly DEF RestoreFromTray, controller
<1>6. CASE Shown
  <2>1. calls' = calls \/ \E c : Quiet(c) /\ Gave(calls, c, calls')
    BY <1>6, SentGives DEF Shown, Quiet, Call, OpOf
  <2> QED
    BY <1>6, <2>1, HandledQuietly DEF Shown, controller
<1>7. CASE KnowsMinimized
  <2>1. calls' = calls \/ \E c : Quiet(c) /\ Gave(calls, c, calls')
    <3>1. CASE Answer
      BY <1>7, <3>1, SentGives DEF KnowsMinimized, Quiet, Call, OpOf
    <3>2. CASE ~Answer
      BY <1>7, <3>2, MenuSentQuietly DEF KnowsMinimized
    <3> QED
      BY <3>1, <3>2
  <2> QED
    BY <1>7, <2>1, HandledQuietly DEF KnowsMinimized
<1>8. CASE Visible
  <2>1. calls' = calls \/ \E c : Quiet(c) /\ Gave(calls, c, calls')
    BY <1>8, MenuSentQuietly DEF Visible
  <2> QED
    BY <1>8, <2>1, HandledQuietly DEF Visible
<1>9. CASE ToggleAlwaysOnTop
  <2>1. calls' = calls \/ \E c : Quiet(c) /\ Gave(calls, c, calls')
    BY <1>9, SentGives, SentNothing DEF ToggleAlwaysOnTop, Quiet, Call, OpOf
  <2> QED
    BY <1>9, <2>1, HandledQuietly DEF ToggleAlwaysOnTop, controller
<1>10. CASE Refreshed
  BY <1>10, HandledQuietly DEF Refreshed, controller
<1> QED
  BY <1>1, <1>2, <1>3, <1>4, <1>5, <1>6, <1>7, <1>8, <1>9, <1>10
LEMMA MenuSetKeeps == TrayInv /\ MenuSet => TrayInv'
<1> SUFFICES ASSUME TrayInv, MenuSet PROVE TrayInv'
  OBVIOUS
<1> USE DEF InitialOK, HidingOK, DisposedOK, TopOK, Took, Gave, Absent, Pending, Initializing, Initial
<1>1. Receives("menuSet") /\ UNCHANGED <<disposed, registered, windowVisible, alwaysOnTop, started, settings>>
  BY DEF MenuSet
<1>2. /\ Took(messages, Head(messages), messages') /\ Head(messages).then = "menuSet"
      /\ Absent(messages) /\ Absent(messages') /\ UNCHANGED <<frame, icon, menu, inputs>>
  BY <1>1, ReceivesTakes
<1>3. CASE Ok /\ ~disposed
  <2>1. /\ canHide' = TRUE /\ hideWhenMinimized' = settings.hide /\ UNCHANGED <<listener, calls>>
        /\ Absent(calls)
    BY <1>3, AbsentTokens DEF MenuSet
  <2>2. TrayTyped'
    BY <1>1, <1>2, <2>1 DEF TrayInv, TrayTyped
  <2>3. InitialOK'
    BY <1>1, <1>2, <2>1 DEF TrayInv
  <2>4. HidingOK'
    BY <1>1, <1>2, <1>3, <2>1 DEF TrayInv, TrayTyped
  <2>5. DisposedOK'
    BY <1>1, <1>2, <1>3, <2>1 DEF TrayInv
  <2>6. TopOK'
    BY <1>1, <1>2, <2>1 DEF TrayInv
  <2> QED
    BY <2>2, <2>3, <2>4, <2>5, <2>6 DEF TrayInv
<1>4. CASE ~(Ok /\ ~disposed) /\ registered
  <2>1. /\ Gave(calls, Call("destroy", FALSE, "initFailed"), calls') /\ Absent(calls) /\ Absent(calls')
        /\ listener' = FALSE /\ UNCHANGED <<canHide, hideWhenMinimized>>
    BY <1>4, SentGives DEF MenuSet, DestroyTray
  <2>2. TrayTyped'
    BY <1>1, <1>2, <2>1 DEF TrayInv, TrayTyped, OpOf, Call
  <2>3. InitialOK'
    BY <1>1, <1>2, <2>1 DEF TrayInv, Call
  <2>4. HidingOK'
    BY <1>1, <1>2, <1>4, <2>1 DEF TrayInv, TrayTyped, Call
  <2>5. DisposedOK'
    BY <1>1, <1>2, <1>4, <2>1 DEF TrayInv, TrayTyped, Call
  <2>6. TopOK'
    BY <1>1, <1>2, <2>1 DEF TrayInv, Call
  <2> QED
    BY <2>2, <2>3, <2>4, <2>5, <2>6 DEF TrayInv
<1>5. CASE ~(Ok /\ ~disposed) /\ ~registered
  <2>1. /\ calls' = calls /\ Absent(calls)
        /\ listener' = FALSE /\ UNCHANGED <<canHide, hideWhenMinimized>>
    BY <1>5, SentNothing DEF MenuSet, DestroyTray
  <2>2. TrayTyped'
    BY <1>1, <1>2, <2>1 DEF TrayInv, TrayTyped
  <2>3. InitialOK'
    BY <1>1, <1>2, <2>1 DEF TrayInv
  <2>4. HidingOK'
    BY <1>1, <1>2, <1>5, <2>1 DEF TrayInv, TrayTyped
  <2>5. DisposedOK'
    BY <1>1, <1>2, <1>5, <2>1 DEF TrayInv, TrayTyped
  <2>6. TopOK'
    BY <1>1, <1>2, <2>1 DEF TrayInv
  <2> QED
    BY <2>2, <2>3, <2>4, <2>5, <2>6 DEF TrayInv
<1> QED
  BY <1>3, <1>4, <1>5

LEMMA DestroyedKeeps == TrayInv /\ Destroyed => TrayInv'
<1> SUFFICES ASSUME TrayInv, Destroyed PROVE TrayInv'
  OBVIOUS
<1> USE DEF InitialOK, HidingOK, DisposedOK, TopOK, Took, Gave, Absent, Pending, Initializing, Initial
<1>1. PICK name \in {"destroyed", "initFailed"} : Receives(name)
  BY DEF Destroyed
<1>2. /\ Took(messages, Head(messages), messages') /\ Head(messages).then = name
      /\ Absent(messages) /\ Absent(messages') /\ UNCHANGED <<frame, icon, menu, inputs>>
      /\ Absent(calls)
  BY <1>1, ReceivesTakes, AbsentTokens
<1>3. /\ registered' = FALSE
      /\ UNCHANGED <<disposed, listener, hideWhenMinimized, windowVisible, alwaysOnTop, started,
                     canHide, calls>>
      /\ settings' = [top |-> settings.top, hide |-> settings'.hide]
  BY DEF Destroyed, NeverHide, TrayInv, TrayTyped
<1>4. TrayTyped'
  BY <1>2, <1>3 DEF TrayInv, TrayTyped
<1>5. InitialOK'
  BY <1>2, <1>3 DEF TrayInv
<1>6. HidingOK'
  BY <1>2, <1>3 DEF TrayInv, TrayTyped
<1>7. DisposedOK'
  BY <1>2, <1>3 DEF TrayInv
<1>8. TopOK'
  BY <1>2, <1>3 DEF TrayInv
<1> QED
  BY <1>4, <1>5, <1>6, <1>7, <1>8 DEF TrayInv

LEMMA UpdatedKeeps == TrayInv /\ Updated => TrayInv'
<1> SUFFICES ASSUME TrayInv, Updated PROVE TrayInv'
  OBVIOUS
<1> USE DEF InitialOK, HidingOK, DisposedOK, TopOK, Took, Gave, Absent, Pending, Initializing, Initial
<1>1. Receives("updated")
  BY DEF Updated
<1>2. /\ Took(messages, Head(messages), messages') /\ Head(messages).then = "updated"
      /\ Absent(messages) /\ Absent(messages') /\ UNCHANGED <<frame, icon, menu, inputs>>
      /\ Absent(calls)
  BY <1>1, ReceivesTakes, AbsentTokens
<1>3. /\ UNCHANGED <<disposed, listener, registered, windowVisible, alwaysOnTop, started, calls>>
      /\ hideWhenMinimized' => hideWhenMinimized
      /\ canHide' => canHide
      /\ settings' = [top |-> settings.top, hide |-> settings'.hide]
  BY DEF Updated, TrayInv, TrayTyped
<1>4. TrayTyped'
  BY <1>2, <1>3 DEF TrayInv, TrayTyped
<1>5. InitialOK'
  BY <1>2, <1>3 DEF TrayInv
<1>6. HidingOK'
  BY <1>2, <1>3 DEF TrayInv, TrayTyped
<1>7. DisposedOK'
  BY <1>2, <1>3 DEF TrayInv
<1>8. TopOK'
  BY <1>2, <1>3 DEF TrayInv
<1> QED
  BY <1>4, <1>5, <1>6, <1>7, <1>8 DEF TrayInv

LEMMA TopSetKeeps == TrayInv /\ TopSet => TrayInv'
<1> SUFFICES ASSUME TrayInv, TopSet PROVE TrayInv'
  OBVIOUS
<1> USE DEF InitialOK, HidingOK, DisposedOK, TopOK, Took, Gave, Absent, Pending, Initializing, Initial
<1>1. Receives("topSet")
  BY DEF TopSet
<1>2. /\ Took(messages, Head(messages), messages') /\ Head(messages).then = "topSet"
      /\ Absent(messages) /\ Absent(messages') /\ UNCHANGED <<frame, icon, menu, inputs>>
      /\ Option(Head(messages)) = Answer
  BY <1>1, ReceivesTakes DEF Option, Answer
<1>3. /\ alwaysOnTop' = Answer
      /\ UNCHANGED <<disposed, listener, registered, hideWhenMinimized, windowVisible, started, canHide>>
  BY DEF TopSet
<1>4. ~Has(messages', "topSet") => Answer = frame.topmost
  BY <1>2 DEF TrayInv
<1>5. CASE registered /\ ~disposed
  <2> DEFINE c == Call("setContextMenu", [restore |-> ~windowVisible, checked |-> Answer], "topRefreshed")
  <2>1. Gave(calls, c, calls') /\ Absent(calls) /\ Absent(calls')
    BY <1>5, MenuSent DEF TopSet
  <2>2. settings' = settings
    BY <1>5 DEF TopSet, TrayMenu
  <2>3. c.then = "topRefreshed" /\ c.op = "setContextMenu" /\ Option(c) = Answer
    BY DEF Call, Option
  <2> HIDE DEF c
  <2>4. TrayTyped'
    BY <1>2, <2>1, <2>2, <2>3 DEF TrayInv, TrayTyped, OpOf
  <2>5. InitialOK'
    BY <1>2, <1>3, <1>5, <2>1, <2>2, <2>3 DEF TrayInv
  <2>6. HidingOK'
    BY <1>2, <1>3, <1>5, <2>1, <2>2, <2>3 DEF TrayInv
  <2>7. DisposedOK'
    BY <1>2, <1>3, <1>5, <2>1, <2>2, <2>3 DEF TrayInv
  <2>8. TopOK'
    BY <1>2, <1>3, <1>4, <1>5, <2>1, <2>2, <2>3 DEF TrayInv
  <2> QED
    BY <2>4, <2>5, <2>6, <2>7, <2>8 DEF TrayInv
<1>6. CASE ~(registered /\ ~disposed)
  <2>1. calls' = calls /\ Absent(calls)
    BY <1>6, MenuSent DEF TopSet
  <2>2. settings' = [top |-> Answer, hide |-> settings.hide]
    BY <1>6 DEF TopSet, TrayMenu, TrayInv, TrayTyped
  <2>4. TrayTyped'
    BY <1>2, <2>1, <2>2 DEF TrayInv, TrayTyped
  <2>5. InitialOK'
    BY <1>2, <1>3, <1>6, <2>1, <2>2 DEF TrayInv
  <2>6. HidingOK'
    BY <1>2, <1>3, <1>6, <2>1, <2>2 DEF TrayInv
  <2>7. DisposedOK'
    BY <1>2, <1>3, <1>6, <2>1, <2>2 DEF TrayInv
  <2>8. TopOK'
    BY <1>2, <1>3, <1>4, <1>6, <2>1, <2>2 DEF TrayInv
  <2> QED
    BY <2>4, <2>5, <2>6, <2>7, <2>8 DEF TrayInv
<1> QED
  BY <1>5, <1>6

LEMMA TopRefreshedKeeps == TrayInv /\ TopRefreshed => TrayInv'
<1> SUFFICES ASSUME TrayInv, TopRefreshed PROVE TrayInv'
  OBVIOUS
<1> USE DEF InitialOK, HidingOK, DisposedOK, TopOK, Took, Gave, Absent, Pending, Initializing, Initial
<1>1. Receives("topRefreshed")
  BY DEF TopRefreshed
<1>2. /\ Took(messages, Head(messages), messages') /\ Head(messages).then = "topRefreshed"
      /\ Absent(messages) /\ Absent(messages') /\ UNCHANGED <<frame, icon, menu, inputs>>
      /\ Option(Head(messages)) = Answer.checked /\ Absent(calls)
  BY <1>1, ReceivesTakes, AbsentTokens DEF Option, Answer
<1>3. /\ settings' = [top |-> Answer.checked, hide |-> settings.hide]
      /\ UNCHANGED <<disposed, listener, registered, hideWhenMinimized, windowVisible, alwaysOnTop,
                     started, canHide, calls>>
  BY DEF TopRefreshed, TrayInv, TrayTyped
<1>4. TrayTyped'
  BY <1>2, <1>3 DEF TrayInv, TrayTyped
<1>5. InitialOK'
  BY <1>2, <1>3 DEF TrayInv
<1>6. HidingOK'
  BY <1>2, <1>3 DEF TrayInv, TrayTyped
<1>7. DisposedOK'
  BY <1>2, <1>3 DEF TrayInv
<1>8. TopOK'
  BY <1>2, <1>3 DEF TrayInv
<1> QED
  BY <1>4, <1>5, <1>6, <1>7, <1>8 DEF TrayInv
LEMMA AnnouncedGives ==
  ASSUME TrayInv, NEW name, Announced(name)
  PROVE  Gave(messages, Event(name), messages') /\ Absent(messages) /\ Absent(messages')
BY TokenGiven, AbsentTokens DEF TrayInv, TrayTyped, Announced

LEMMA AnnouncementsKeep ==
  ASSUME TrayInv, NEW name, name \notin Noted \cup {"hide", "hidden"}, Announced(name),
         UNCHANGED <<controller, calls, icon>>,
         frame' = [minimized |-> frame'.minimized, hidden |-> frame.hidden, topmost |-> frame.topmost]
  PROVE  TrayInv'
<1> USE DEF InitialOK, HidingOK, DisposedOK, TopOK, Gave, Absent, Pending, Initializing, Initial, Noted
<1>1. /\ Gave(messages, Event(name), messages') /\ Absent(messages) /\ Absent(messages')
      /\ Event(name).then = name
  BY AnnouncedGives DEF Event
<1>2. /\ UNCHANGED <<disposed, listener, registered, hideWhenMinimized, alwaysOnTop, started, canHide,
                     settings, calls, icon>>
      /\ frame'.hidden = frame.hidden /\ frame'.topmost = frame.topmost
  BY DEF controller
<1>3. TrayTyped'
  BY <1>1, <1>2 DEF TrayInv, TrayTyped
<1>4. InitialOK'
  BY <1>1, <1>2 DEF TrayInv
<1>5. HidingOK'
  BY <1>1, <1>2 DEF TrayInv
<1>6. DisposedOK'
  BY <1>1, <1>2 DEF TrayInv
<1>7. TopOK'
  BY <1>1, <1>2 DEF TrayInv
<1> QED
  BY <1>3, <1>4, <1>5, <1>6, <1>7 DEF TrayInv

LEMMA UserKeeps ==
  ASSUME TrayInv,
         Minimize \/ RestoreFromTaskBar
           \/ \E item \in {"restoreItem", "topItem", "doubleClick"} : UseIcon(item)
  PROVE  TrayInv'
<1> USE DEF Noted
<1>1. frame = [minimized |-> frame.minimized, hidden |-> frame.hidden, topmost |-> frame.topmost]
  BY DEF TrayInv, TrayTyped
<1>2. CASE Minimize
  <2>1. frame' = [minimized |-> TRUE, hidden |-> frame.hidden, topmost |-> frame.topmost]
    BY <1>1, <1>2 DEF Minimize
  <2>2. frame' = [minimized |-> frame'.minimized, hidden |-> frame.hidden, topmost |-> frame.topmost]
    BY <2>1
  <2> QED
    BY <1>2, <2>2, AnnouncementsKeep DEF Minimize
<1>3. CASE RestoreFromTaskBar
  <2>1. frame' = [minimized |-> FALSE, hidden |-> frame.hidden, topmost |-> frame.topmost]
    BY <1>1, <1>3 DEF RestoreFromTaskBar
  <2>2. frame' = [minimized |-> frame'.minimized, hidden |-> frame.hidden, topmost |-> frame.topmost]
    BY <2>1
  <2> QED
    BY <1>3, <2>2, AnnouncementsKeep DEF RestoreFromTaskBar
<1>4. ASSUME NEW item \in {"restoreItem", "topItem", "doubleClick"}, UseIcon(item)
      PROVE  TrayInv'
  <2>1. frame' = [minimized |-> frame'.minimized, hidden |-> frame.hidden, topmost |-> frame.topmost]
    BY <1>1, <1>4 DEF UseIcon, native
  <2> QED
    BY <1>4, <2>1, AnnouncementsKeep DEF UseIcon, native
<1> QED
  BY <1>2, <1>3, <1>4

LEMMA BeginningsKeep ==
  ASSUME TrayInv,
         InitializeTray \/ UpdateTray \/ \E enabled \in BOOLEAN : SetAlwaysOnTop(enabled)
  PROVE  TrayInv'
<1> USE DEF InitialOK, HidingOK, DisposedOK, TopOK, Gave, Absent, Pending, Initializing, Initial, Call
<1>1. CASE InitializeTray /\ disposed
  <2>1. /\ started' = TRUE
        /\ UNCHANGED <<listener, alwaysOnTop, calls, disposed, registered, hideWhenMinimized,
                       canHide, settings, messages, frame, icon>>
    BY <1>1 DEF InitializeTray, native
  <2>2. TrayTyped'
    BY <2>1 DEF TrayInv, TrayTyped
  <2> QED
    BY <1>1, <2>1, <2>2 DEF TrayInv
<1>2. CASE InitializeTray /\ ~disposed
  <2>1. /\ Gave(calls, Call("setIcon", FALSE, "iconSet"), calls') /\ Absent(calls) /\ Absent(calls')
        /\ started' = TRUE /\ alwaysOnTop' = settings.top /\ ~started /\ listener' = TRUE
        /\ UNCHANGED <<disposed, registered, hideWhenMinimized, canHide, settings, messages, frame, icon>>
    BY <1>2, SentGives DEF InitializeTray, native
  <2>2. Absent(messages)
    BY AbsentTokens
  <2>3. TrayTyped'
    BY <2>1 DEF TrayInv, TrayTyped, OpOf
  <2>4. InitialOK'
    BY <2>1, <2>2 DEF TrayInv
  <2>5. HidingOK'
    BY <1>2, <2>1, <2>2 DEF TrayInv
  <2>6. DisposedOK'
    BY <1>2, <2>1 DEF TrayInv
  <2>7. TopOK'
    BY <1>2, <2>1, <2>2 DEF TrayInv
  <2> QED
    BY <2>3, <2>4, <2>5, <2>6, <2>7 DEF TrayInv
<1>3. CASE UpdateTray
  <2>1. /\ Gave(calls, Call("setIcon", FALSE, "updated"), calls') /\ Absent(calls) /\ Absent(calls')
        /\ canHide /\ registered /\ ~disposed
        /\ UNCHANGED <<disposed, listener, registered, hideWhenMinimized, alwaysOnTop, started, canHide,
                       settings, messages, frame, icon>>
    BY <1>3, SentGives DEF UpdateTray, native, controller
  <2>2. Absent(messages)
    BY AbsentTokens
  <2>3. TrayTyped'
    BY <2>1 DEF TrayInv, TrayTyped, OpOf
  <2>4. InitialOK'
    BY <2>1, <2>2 DEF TrayInv
  <2>5. HidingOK'
    BY <2>1, <2>2 DEF TrayInv
  <2>6. DisposedOK'
    BY <2>1 DEF TrayInv
  <2>7. TopOK'
    BY <2>1, <2>2 DEF TrayInv
  <2> QED
    BY <2>3, <2>4, <2>5, <2>6, <2>7 DEF TrayInv
<1>4. ASSUME NEW enabled \in BOOLEAN, SetAlwaysOnTop(enabled) PROVE TrayInv'
  <2>1. /\ Gave(calls, Call("setAlwaysOnTop", enabled, "topSet"), calls') /\ Absent(calls) /\ Absent(calls')
        /\ ~disposed
        /\ UNCHANGED <<disposed, listener, registered, hideWhenMinimized, alwaysOnTop, started, canHide,
                       settings, messages, frame, icon>>
    BY <1>4, SentGives DEF SetAlwaysOnTop, native, controller
  <2>2. Absent(messages)
    BY AbsentTokens
  <2>3. TrayTyped'
    BY <2>1 DEF TrayInv, TrayTyped, OpOf
  <2>4. InitialOK'
    BY <2>1, <2>2 DEF TrayInv
  <2>5. HidingOK'
    BY <2>1, <2>2 DEF TrayInv
  <2>6. DisposedOK'
    BY <2>1 DEF TrayInv
  <2>7. TopOK'
    BY <2>1, <2>2 DEF TrayInv
  <2> QED
    BY <2>3, <2>4, <2>5, <2>6, <2>7 DEF TrayInv
<1> QED
  BY <1>1, <1>2, <1>3, <1>4

LEMMA SetHideKeeps ==
  ASSUME TrayInv, NEW enabled \in BOOLEAN, SetHideWhenMinimized(enabled)
  PROVE  TrayInv'
<1> USE DEF InitialOK, HidingOK, DisposedOK, TopOK, Pending, Initializing
<1>1. /\ enabled => canHide /\ registered
      /\ hideWhenMinimized' = enabled
      /\ settings' = [top |-> settings.top, hide |-> enabled]
      /\ UNCHANGED <<disposed, listener, registered, alwaysOnTop, started, canHide, calls, messages,
                     frame, icon>>
  BY DEF SetHideWhenMinimized, native, TrayInv, TrayTyped
<1>2. TrayTyped'
  BY <1>1 DEF TrayInv, TrayTyped
<1>3. InitialOK'
  BY <1>1 DEF TrayInv
<1>4. HidingOK'
  BY <1>1 DEF TrayInv
<1>5. DisposedOK'
  BY <1>1 DEF TrayInv
<1>6. TopOK'
  BY <1>1 DEF TrayInv
<1> QED
  BY <1>2, <1>3, <1>4, <1>5, <1>6 DEF TrayInv

LEMMA DisposeKeeps == TrayInv /\ Dispose => TrayInv'
<1> SUFFICES ASSUME TrayInv, Dispose PROVE TrayInv'
  OBVIOUS
<1> USE DEF InitialOK, HidingOK, DisposedOK, TopOK, Gave, Absent, Pending, Initializing, Initial, Call
<1>1. /\ ~disposed /\ disposed' = TRUE /\ listener' = FALSE
      /\ UNCHANGED <<registered, hideWhenMinimized, alwaysOnTop, started, canHide, settings, messages,
                     frame, icon>>
  BY DEF Dispose, DestroyTray, native
<1>2. Absent(calls) /\ Absent(calls') /\ Absent(messages)
  BY AbsentTokens
<1>3. CASE registered
  <2>1. Gave(calls, Call("destroy", FALSE, "destroyed"), calls')
    BY <1>3, SentGives DEF Dispose, DestroyTray
  <2>2. TrayTyped'
    BY <1>1, <2>1 DEF TrayInv, TrayTyped, OpOf
  <2>3. InitialOK'
    BY <1>1, <1>2, <1>3, <2>1 DEF TrayInv
  <2>4. HidingOK'
    BY <1>1
  <2>5. DisposedOK'
    BY <1>1, <2>1 DEF TrayInv
  <2>6. TopOK'
    BY <1>1 DEF TrayInv
  <2> QED
    BY <2>2, <2>3, <2>4, <2>5, <2>6 DEF TrayInv
<1>4. CASE ~registered
  <2>1. calls' = calls
    BY <1>4, SentNothing DEF Dispose, DestroyTray
  <2>2. TrayTyped'
    BY <1>1, <2>1 DEF TrayInv, TrayTyped
  <2>3. InitialOK'
    BY <1>1, <2>1 DEF TrayInv
  <2>4. HidingOK'
    BY <1>1
  <2>5. DisposedOK'
    BY <1>1, <1>2, <1>4, <2>1 DEF TrayInv
  <2>6. TopOK'
    BY <1>1 DEF TrayInv
  <2> QED
    BY <2>2, <2>3, <2>4, <2>5, <2>6 DEF TrayInv
<1> QED
  BY <1>3, <1>4
\* The answer to the first call.
Reply(c, ok, value) == [then |-> c.then, ok |-> ok, arg |-> value]

\* What performing the first call and answering it does to the queues.
LEMMA AnsweredGives ==
  ASSUME TrayInv, calls # <<>>, calls' = Tail(calls), NEW ok, NEW value,
         messages' = Append(messages, Reply(Head(calls), ok, value))
  PROVE  /\ Took(calls, Head(calls), calls') /\ Gave(messages, Reply(Head(calls), ok, value), messages')
         /\ Absent(calls) /\ Absent(calls') /\ Absent(messages) /\ Absent(messages')
BY HeadTaken, TokenGiven, AbsentTokens DEF TrayInv, TrayTyped

LEMMA PerformKeeps == TrayInv /\ Perform => TrayInv'
<1> SUFFICES ASSUME TrayInv, Perform PROVE TrayInv'
  OBVIOUS
<1> DEFINE c == Head(calls)
<1>1. /\ calls # <<>> /\ calls' = Tail(calls)
      /\ UNCHANGED <<disposed, listener, registered, hideWhenMinimized, windowVisible, alwaysOnTop,
                     started, canHide, settings>>
  BY DEF Perform, controller
<1>2. Took(calls, c, calls') /\ Absent(calls) /\ Absent(calls') /\ Absent(messages) /\ Absent(messages')
  BY <1>1, HeadTaken, AbsentTokens DEF TrayInv, TrayTyped
<1>3. c.op = OpOf(c.then) /\ c.op # "none"
  BY <1>2 DEF TrayInv, TrayTyped, Took
<1>4. frame = [minimized |-> frame.minimized, hidden |-> frame.hidden, topmost |-> frame.topmost]
  BY DEF TrayInv, TrayTyped
<1>5. ASSUME NEW ok, NEW value, messages' = Append(messages, Reply(c, ok, value))
      PROVE  Gave(messages, Reply(c, ok, value), messages')
  BY <1>1, <1>5, AnsweredGives
<1>6. ASSUME NEW ok, NEW value
      PROVE  /\ Reply(c, ok, value).then = c.then /\ Reply(c, ok, value).ok = ok
             /\ value = c.arg => Option(Reply(c, ok, value)) = Option(c)
             /\ c.then = "topSet" => Option(Reply(c, ok, value)) = value
  BY DEF Reply, Option
<1> HIDE DEF c
\* Refused.
<1>7. CASE /\ c.op \in {"setIcon", "setContextMenu", "hide"}
            /\ messages' = Append(messages, Reply(c, FALSE, c.arg))
            /\ UNCHANGED native
  <2> DEFINE r == Reply(c, FALSE, c.arg)
  <2>1. /\ Gave(messages, r, messages') /\ r.then = c.then /\ r.ok = FALSE /\ Option(r) = Option(c)
        /\ UNCHANGED <<frame, icon>>
    BY <1>5, <1>6, <1>7 DEF native
  <2> HIDE DEF r
  <2> USE DEF InitialOK, HidingOK, DisposedOK, TopOK, Took, Gave, Absent, Pending, Initializing, Initial
  <2>2. c.then \in {"iconSet", "updated", "menuSet", "topRefreshed", "hide", "ignored", "hidden"}
    BY <1>3, <1>7 DEF OpOf
  <2>3. TrayTyped'
    BY <1>1, <1>2, <2>1 DEF TrayInv, TrayTyped
  <2>4. InitialOK'
    BY <1>1, <1>2, <2>1, <2>2, <1>7 DEF TrayInv
  <2>5. HidingOK'
    BY <1>1, <1>2, <2>1, <2>2, <1>7 DEF TrayInv, TrayTyped
  <2>6. DisposedOK'
    BY <1>1, <1>2, <2>1, <2>2, <1>7 DEF TrayInv, TrayTyped
  <2>7. TopOK'
    BY <1>1, <1>2, <2>1, <2>2, <1>7 DEF TrayInv
  <2> QED
    BY <2>3, <2>4, <2>5, <2>6, <2>7 DEF TrayInv
\* An icon.
<1>8. CASE /\ c.op = "setIcon" /\ icon' = TRUE
            /\ messages' = Append(messages, Reply(c, TRUE, c.arg))
            /\ UNCHANGED <<frame, menu>>
  <2> DEFINE r == Reply(c, TRUE, c.arg)
  <2>1. /\ Gave(messages, r, messages') /\ r.then = c.then /\ r.ok = TRUE /\ Option(r) = Option(c)
    BY <1>5, <1>6, <1>8
  <2> HIDE DEF r
  <2> USE DEF InitialOK, HidingOK, DisposedOK, TopOK, Took, Gave, Absent, Pending, Initializing, Initial
  <2>2. c.then \in {"iconSet", "updated"}
    BY <1>3, <1>8 DEF OpOf
  <2>3. TrayTyped'
    BY <1>1, <1>2, <1>8, <2>1 DEF TrayInv, TrayTyped
  <2>4. InitialOK'
    BY <1>1, <1>2, <2>1, <2>2, <1>8 DEF TrayInv
  <2>5. HidingOK'
    BY <1>1, <1>2, <2>1, <2>2, <1>8 DEF TrayInv, TrayTyped
  <2>6. DisposedOK'
    BY <1>1, <1>2, <2>1, <2>2, <1>8 DEF TrayInv, TrayTyped
  <2>7. TopOK'
    BY <1>1, <1>2, <2>1, <2>2, <1>8 DEF TrayInv
  <2> QED
    BY <2>3, <2>4, <2>5, <2>6, <2>7 DEF TrayInv
\* No icon any more.
<1>9. CASE /\ c.op = "destroy" /\ icon' = FALSE
            /\ messages' = Append(messages, Reply(c, TRUE, c.arg))
            /\ UNCHANGED <<frame, menu>>
  <2> DEFINE r == Reply(c, TRUE, c.arg)
  <2>1. /\ Gave(messages, r, messages') /\ r.then = c.then /\ r.ok = TRUE /\ Option(r) = Option(c)
    BY <1>5, <1>6, <1>9
  <2> HIDE DEF r
  <2> USE DEF InitialOK, HidingOK, DisposedOK, TopOK, Took, Gave, Absent, Pending, Initializing, Initial
  <2>2. c.then \in {"destroyed", "initFailed"}
    BY <1>3, <1>9 DEF OpOf
  <2>3. TrayTyped'
    BY <1>1, <1>2, <1>9, <2>1 DEF TrayInv, TrayTyped
  <2>4. InitialOK'
    BY <1>1, <1>2, <2>1, <2>2, <1>9 DEF TrayInv
  <2>5. HidingOK'
    BY <1>1, <1>2, <2>1, <2>2, <1>9 DEF TrayInv, TrayTyped
  <2>6. DisposedOK'
    BY <1>1, <1>2, <2>1, <2>2, <1>9 DEF TrayInv, TrayTyped
  <2>7. TopOK'
    BY <1>1, <1>2, <2>1, <2>2, <1>9 DEF TrayInv
  <2> QED
    BY <2>3, <2>4, <2>5, <2>6, <2>7 DEF TrayInv
\* The menu, and what can be said of the window.
<1>10. CASE /\ c.op \in {"setContextMenu", "isMinimized", "show", "hide"}
            /\ \E value : /\ messages' = Append(messages, Reply(c, TRUE, value))
                          /\ c.op = "setContextMenu" => value = c.arg
            /\ UNCHANGED icon
            /\ frame' = [minimized |-> frame.minimized, hidden |-> frame'.hidden, topmost |-> frame.topmost]
            /\ frame'.hidden => frame.hidden \/ c.op = "hide"
  <2>1. PICK value : /\ messages' = Append(messages, Reply(c, TRUE, value))
                     /\ c.op = "setContextMenu" => value = c.arg
    BY <1>10
  <2> DEFINE r == Reply(c, TRUE, value)
  <2>2. /\ Gave(messages, r, messages') /\ r.then = c.then /\ r.ok = TRUE
        /\ value = c.arg => Option(r) = Option(c)
    BY <1>5, <1>6, <2>1
  <2> HIDE DEF r
  <2> USE DEF InitialOK, HidingOK, DisposedOK, TopOK, Took, Gave, Absent, Pending, Initializing, Initial
  <2>3. /\ c.then \in {"menuSet", "topRefreshed", "hide", "ignored", "knowsMinimized", "shown", "hidden"}
        /\ c.op = "hide" => c.then = "hidden"
        /\ c.then = "topRefreshed" => value = c.arg
    BY <1>3, <1>10, <2>1 DEF OpOf
  <2>4. TrayTyped'
    BY <1>1, <1>2, <1>10, <2>2 DEF TrayInv, TrayTyped
  <2>5. InitialOK'
    BY <1>1, <1>2, <2>2, <2>3, <1>10 DEF TrayInv
  <2>6. HidingOK'
    BY <1>1, <1>2, <2>2, <2>3, <1>10 DEF TrayInv, TrayTyped
  <2>7. DisposedOK'
    BY <1>1, <1>2, <2>2, <2>3, <1>10 DEF TrayInv, TrayTyped
  <2>8. frame'.topmost = frame.topmost
    BY <1>10
  <2>9. TopOK'
    BY <1>1, <1>2, <2>2, <2>3, <2>8 DEF TrayInv
  <2> QED
    BY <2>4, <2>5, <2>6, <2>7, <2>9 DEF TrayInv
\* The window is on top or not.
<1>11. CASE /\ c.op = "setAlwaysOnTop"
            /\ messages' = Append(messages, Reply(c, TRUE, c.arg))
            /\ UNCHANGED icon
            /\ frame' = [minimized |-> frame.minimized, hidden |-> frame.hidden, topmost |-> c.arg]
  <2> DEFINE r == Reply(c, TRUE, c.arg)
  <2>0. messages' = Append(messages, Reply(c, TRUE, c.arg))
    BY <1>11
  <2>1. /\ Gave(messages, r, messages') /\ r.then = c.then /\ r.ok = TRUE /\ Option(r) = Option(c)
        /\ c.then = "topSet" => Option(r) = c.arg
    BY ONLY <1>5, <1>6, <2>0
  <2> HIDE DEF r
  <2> USE DEF InitialOK, HidingOK, DisposedOK, TopOK, Took, Gave, Absent, Pending, Initializing, Initial
  <2>2. c.then = "topSet"
    BY <1>3, <1>11 DEF OpOf
  <2>3. frame'.topmost = c.arg /\ frame'.hidden = frame.hidden
    BY <1>11
  <2>4. TrayTyped'
    BY <1>1, <1>2, <1>11, <2>1 DEF TrayInv, TrayTyped
  <2>5. InitialOK'
    BY <1>1, <1>2, <2>1, <2>2, <1>11 DEF TrayInv
  <2>6. HidingOK'
    BY <1>1, <1>2, <2>1, <2>2, <2>3, <1>11 DEF TrayInv, TrayTyped
  <2>7. DisposedOK'
    BY <1>1, <1>2, <2>1, <2>2, <1>11 DEF TrayInv, TrayTyped
  <2>8. TopOK'
    BY <1>1, <1>2, <2>1, <2>2, <2>3 DEF TrayInv
  <2> QED
    BY <2>4, <2>5, <2>6, <2>7, <2>8 DEF TrayInv
\* The window is restored, which is an event too.
<1>12. CASE /\ c.op = "restore"
            /\ frame' = [minimized |-> FALSE, hidden |-> frame.hidden, topmost |-> frame.topmost]
            /\ messages' = (IF frame.minimized THEN Append(messages, Event("restored"))
                            ELSE messages) \o <<Reply(c, TRUE, FALSE)>>
            /\ UNCHANGED icon
  <2> DEFINE m == IF frame.minimized THEN Append(messages, Event("restored")) ELSE messages
             r == Reply(c, TRUE, FALSE)
  <2>1. Queue(m) /\ Absent(m) /\ (m = messages \/ (Gave(messages, Event("restored"), m)
                                                   /\ Event("restored").then = "restored"))
    <3>1. Queue(messages)
      BY DEF TrayInv, TrayTyped
    <3>2. Event("restored").then = "restored"
      BY DEF Event
    <3>3. Gave(messages, Event("restored"), Append(messages, Event("restored")))
      BY <3>1, TokenGiven
    <3>4. Queue(Append(messages, Event("restored")))
      BY <3>3 DEF Gave
    <3> QED
      BY <3>1, <3>2, <3>3, <3>4, AbsentTokens
  <2>2. c.then = "visible" /\ r.then = "visible"
    BY <1>3, <1>12 DEF OpOf, Reply
  <2>3. messages' = m \o <<r>>
    BY <1>12
  <2> HIDE DEF m, r
  <2>4. messages' = Append(m, r)
    BY <2>1, <2>3, AppendIsConcat DEF Queue
  <2>5. Gave(m, r, messages')
    BY <2>1, <2>4, TokenGiven
  <2> USE DEF InitialOK, HidingOK, DisposedOK, TopOK, Took, Gave, Absent, Pending, Initializing, Initial
  <2>6. frame'.topmost = frame.topmost /\ frame'.hidden = frame.hidden
    BY <1>12
  <2>7. TrayTyped'
    BY <1>1, <1>2, <1>12, <2>5 DEF TrayInv, TrayTyped
  <2>8. InitialOK'
    BY <1>1, <1>2, <2>1, <2>2, <2>5, <1>12 DEF TrayInv
  <2>9. HidingOK'
    BY <1>1, <1>2, <2>1, <2>2, <2>5, <2>6, <1>12 DEF TrayInv, TrayTyped
  <2>10. DisposedOK'
    BY <1>1, <1>2, <2>1, <2>2, <2>5, <1>12 DEF TrayInv, TrayTyped
  <2>11. TopOK'
    BY <1>1, <1>2, <2>1, <2>2, <2>5, <2>6 DEF TrayInv
  <2> QED
    BY <2>7, <2>8, <2>9, <2>10, <2>11 DEF TrayInv
<1>13. CASE /\ c.op \in {"hide", "show", "setAlwaysOnTop"}
            /\ frame' = CASE c.op = "hide" -> [frame EXCEPT !.hidden = TRUE]
                          [] c.op = "show" -> [frame EXCEPT !.hidden = FALSE]
                          [] c.op = "setAlwaysOnTop" -> [frame EXCEPT !.topmost = c.arg]
            /\ messages' = Append(messages, Reply(c, TRUE, c.arg))
            /\ UNCHANGED <<icon, menu>>
  <2>1. CASE c.op = "hide"
    <3>1. frame' = [minimized |-> frame.minimized, hidden |-> TRUE, topmost |-> frame.topmost]
      BY <1>4, <1>13, <2>1
    <3> QED
      BY <1>10, <1>13, <2>1, <3>1
  <2>2. CASE c.op = "show"
    <3>1. frame' = [minimized |-> frame.minimized, hidden |-> FALSE, topmost |-> frame.topmost]
      BY <1>4, <1>13, <2>2
    <3> QED
      BY <1>10, <1>13, <2>2, <3>1
  <2>3. CASE c.op = "setAlwaysOnTop"
    <3>1. frame' = [minimized |-> frame.minimized, hidden |-> frame.hidden, topmost |-> c.arg]
      BY <1>4, <1>13, <2>3
    <3> QED
      BY <1>11, <1>13, <2>3, <3>1
  <2> QED
    BY <1>13, <2>1, <2>2, <2>3
<1> QED
  <2>1. CASE c.op = "setContextMenu" /\ menu' = c.arg /\ messages' = Append(messages, Reply(c, TRUE, c.arg))
             /\ UNCHANGED <<frame, icon>>
    BY <1>4, <1>10, <2>1
  <2>2. CASE c.op = "isMinimized" /\ messages' = Append(messages, Reply(c, TRUE, frame.minimized))
             /\ UNCHANGED native
    BY <1>4, <1>10, <2>2 DEF native
  <2>3. CASE /\ c.op = "restore"
             /\ frame' = [frame EXCEPT !.minimized = FALSE]
             /\ messages' = (IF frame.minimized THEN Append(messages, Event("restored"))
                             ELSE messages) \o <<Reply(c, TRUE, FALSE)>>
             /\ UNCHANGED <<icon, menu>>
    <3>1. frame' = [minimized |-> FALSE, hidden |-> frame.hidden, topmost |-> frame.topmost]
      BY <1>4, <2>3
    <3> QED
      BY <1>12, <2>3, <3>1
  <2> QED
    BY <1>7, <1>8, <1>9, <1>13, <2>1, <2>2, <2>3 DEF Perform, Reply, c
LEMMA TrayInitially == TrayInit => TrayInv
<1> SUFFICES ASSUME TrayInit PROVE TrayInv
  OBVIOUS
<1>1. calls = <<>> /\ messages = <<>> /\ Queue(<<>>)
  BY DEF TrayInit, Queue
<1>2. Absent(<<>>) /\ ~HasInitial(<<>>)
  BY AbsentTokens DEF HasInitial
<1>3. /\ \A name : ~Has(<<>>, name)
      /\ ~HasOp(<<>>, "setIcon") /\ Once(<<>>) /\ Fits(<<>>)
  BY DEF Has, HasOp, Once, Fits
<1>4. /\ frame = [minimized |-> FALSE, hidden |-> FALSE, topmost |-> FALSE]
      /\ settings = [top |-> FALSE, hide |-> settings.hide]
      /\ ~disposed /\ ~registered /\ ~hideWhenMinimized /\ alwaysOnTop = FALSE /\ ~started /\ ~canHide
      /\ ~icon
  BY DEF TrayInit
<1>5. settings.top = alwaysOnTop /\ ~frame.hidden /\ frame.topmost = FALSE
  <2>1. settings.top = FALSE
    BY <1>4
  <2>2. ~frame.hidden /\ frame.topmost = FALSE
    BY <1>4
  <2> QED
    BY <1>4, <2>1, <2>2
<1>6. TrayTyped
  BY <1>1, <1>3, <1>4 DEF TrayTyped
<1>7. InitialOK
  BY <1>1, <1>2, <1>3, <1>4, <1>5 DEF InitialOK, Initializing, Pending
<1>8. HidingOK
  BY <1>1, <1>2, <1>3, <1>4, <1>5 DEF HidingOK, Initializing, Pending
<1>9. DisposedOK
  BY <1>4 DEF DisposedOK
<1>10. TopOK
  BY <1>1, <1>2, <1>3, <1>4, <1>5 DEF TopOK, Absent
<1> QED
  BY <1>6, <1>7, <1>8, <1>9, <1>10 DEF TrayInv

LEMMA TrayStep == TrayInv /\ [TrayNext]_trayVars => TrayInv'
<1> SUFFICES ASSUME TrayInv, [TrayNext]_trayVars PROVE TrayInv'
  OBVIOUS
<1>1. CASE UNCHANGED trayVars
  BY <1>1 DEF trayVars, controller, native, TrayInv, TrayTyped, InitialOK, HidingOK, DisposedOK, TopOK,
     Pending, Initializing
<1>2. CASE \E enabled \in BOOLEAN : SetHideWhenMinimized(enabled)
  BY <1>2, SetHideKeeps
<1> QED
  BY <1>1, <1>2, PerformKeeps, UserKeeps, BeginningsKeep, DisposeKeeps, IconSetKeeps, MenuSetKeeps,
     DestroyedKeeps, UpdatedKeeps, TopSetKeeps, TopRefreshedKeeps, QuietHandlersKeep
  DEF TrayNext

\* For any number of choices, samples and clicks, and however their calls and
\* answers interleave: a hidden window of a program that runs has an icon, no
\* icon outlives dispose, and the window is on top as the settings say.
THEOREM TheIconStays == TraySpec => []TrayConsistent
<1>1. TrayInv => TrayConsistent
  <2> SUFFICES ASSUME TrayInv PROVE TrayConsistent
    OBVIOUS
  <2>1. frame.hidden /\ ~disposed => icon
    BY DEF TrayInv, HidingOK
  <2>2. ASSUME AtRest
        PROVE  /\ disposed => ~icon /\ ~listener
               /\ started /\ ~disposed => frame.topmost = alwaysOnTop
               /\ registered => frame.topmost = settings.top
    <3>1. \A name : ~Pending(name)
      BY <2>2 DEF AtRest, Pending, Has
    <3>2. ~HasOp(calls, "destroy") /\ ~Has(messages, "topSet")
      BY <2>2 DEF AtRest, HasOp, Has
    <3>3. disposed => ~icon /\ ~listener /\ ~registered
      BY <3>1, <3>2 DEF TrayInv, DisposedOK
    <3>4. frame.topmost = alwaysOnTop
      BY <3>2 DEF TrayInv, TopOK
    <3>5. registered => settings.top = alwaysOnTop
      BY <3>1, <3>3 DEF TrayInv, TopOK
    <3> QED
      BY <3>3, <3>4, <3>5
  <2> QED
    BY <2>1, <2>2 DEF TrayConsistent
<1> QED
  BY <1>1, TrayInitially, TrayStep, PTL DEF TraySpec

-----------------------------------------------------------------------------
(* UiSettings: what the program starts with is usable, keeps what the user   *)
(* has chosen, and stays as it is when it is saved and read again.            *)

NatBelow == {p \in Nat \X Nat : p[1] < p[2]}

\* A set of positions that is not empty has a first one.
LEMMA FirstPosition ==
  ASSUME NEW T \in SUBSET Nat, T # {}
  PROVE  \E x \in T : \A y \in T : x <= y
<1>1. IsWellFoundedOn(NatBelow, Nat)
  BY NatLessThanWellFounded DEF OpToRel, NatBelow
<1>2. \E x \in T : \A y \in T : <<y, x>> \notin NatBelow
  BY <1>1, WFMin
<1>3. ASSUME NEW x \in T, NEW y \in T, <<y, x>> \notin NatBelow
      PROVE  x <= y
  <2>1. <<y, x>> \in Nat \X Nat /\ <<y, x>>[1] = y /\ <<y, x>>[2] = x
    OBVIOUS
  <2>2. ~(y < x)
    BY <1>3, <2>1 DEF NatBelow
  <2> QED
    BY <2>2, SMT
<1> QED
  BY <1>2, <1>3

\* Columns at positions of their own, as they come from a file or from
\* normalize, which puts one more in front.
Placed(columns, Positions) ==
  columns \in UNION {[S -> Layouts] : S \in SUBSET Positions}

NameInFront == Layout("ImageName", 107)

OncePerKind(columns) ==
  \A i, j \in DOMAIN columns : columns[i].column = columns[j].column => i = j

Named(columns) == \E i \in DOMAIN columns : columns[i].column = "ImageName"

\* Columns normalize leaves alone.
Tidy(columns) ==
  /\ DOMAIN columns \subseteq Nat
  /\ columns = [i \in DOMAIN columns |-> columns[i]]
  /\ \A i \in DOMAIN columns : Shows(columns[i])
  /\ OncePerKind(columns)
  /\ Named(columns)

LEMMA FrontShows == NameInFront.column = "ImageName" /\ Shows(NameInFront)
<1>1. NameInFront.column = "ImageName" /\ NameInFront.width = 107
  BY DEF NameInFront, Layout
<1>2. 107 # NoNumber
  BY SettingsValuesAssumption
<1> QED
  BY <1>1, <1>2, SMT DEF Shows

\* Of every kind, one is retained.
LEMMA RetainedOnes ==
  ASSUME NEW columns, Placed(columns, Nat)
  PROVE  /\ Retained(columns) \subseteq DOMAIN columns
         /\ DOMAIN columns \subseteq Nat
         /\ \A i \in Retained(columns) : Shows(columns[i])
         /\ \A i, j \in Retained(columns) : columns[i].column = columns[j].column => i = j
         /\ \A i \in DOMAIN columns : Shows(columns[i]) =>
              \E j \in Retained(columns) : j <= i /\ columns[j].column = columns[i].column
<1>1. DOMAIN columns \subseteq Nat
  BY DEF Placed
<1>2. Retained(columns) \subseteq DOMAIN columns
      /\ \A i \in Retained(columns) : Shows(columns[i])
  BY DEF Retained
<1>3. ASSUME NEW i \in Retained(columns), NEW j \in Retained(columns),
             columns[i].column = columns[j].column
      PROVE  i = j
  <2>1. ~(i < j) /\ ~(j < i)
    BY <1>2, <1>3 DEF Retained
  <2>2. i \in Nat /\ j \in Nat
    BY <1>1, <1>2
  <2> QED
    BY <2>1, <2>2, SMT
<1>4. ASSUME NEW i \in DOMAIN columns, Shows(columns[i])
      PROVE  \E j \in Retained(columns) : j <= i /\ columns[j].column = columns[i].column
  <2> DEFINE same == {j \in DOMAIN columns :
                        Shows(columns[j]) /\ columns[j].column = columns[i].column}
  <2>1. same \in SUBSET Nat /\ i \in same
    BY <1>1, <1>4
  <2>2. PICK j \in same : \A k \in same : j <= k
    BY <2>1, FirstPosition
  <2>3. j \in Retained(columns)
    <3>1. ASSUME NEW k \in DOMAIN columns, k < j, Shows(columns[k]),
                 columns[k].column = columns[j].column
          PROVE  FALSE
      <4>1. k \in same
        BY <3>1
      <4>2. j <= k /\ j \in Nat /\ k \in Nat
        BY <1>1, <2>2, <4>1
      <4> QED
        BY <3>1, <4>2, SMT
    <3> QED
      BY <3>1 DEF Retained
  <2> QED
    BY <2>1, <2>2, <2>3
<1> QED
  BY <1>1, <1>2, <1>3, <1>4

LEMMA NormalizedAreTidy ==
  ASSUME NEW columns, Placed(columns, Nat \ {0})
  PROVE  /\ Tidy(NormalizedColumns(columns))
         /\ KeepsChoices(columns, NormalizedColumns(columns))
<1> DEFINE kept == Restrict(columns, Retained(columns))
           after == WithImageName(kept)
<1>1. Placed(columns, Nat) /\ 0 \notin DOMAIN columns
  BY DEF Placed
<1>2. /\ Retained(columns) \subseteq DOMAIN columns
      /\ DOMAIN columns \subseteq Nat
      /\ \A i \in Retained(columns) : Shows(columns[i])
      /\ \A i, j \in Retained(columns) : columns[i].column = columns[j].column => i = j
      /\ \A i \in DOMAIN columns : Shows(columns[i]) =>
           \E j \in Retained(columns) : j <= i /\ columns[j].column = columns[i].column
  BY <1>1, RetainedOnes
<1>3. kept = [i \in Retained(columns) |-> columns[i]]
  BY DEF Restrict
<1>4. /\ DOMAIN kept = Retained(columns)
      /\ \A i \in Retained(columns) : kept[i] = columns[i]
  BY <1>3
<1>5. OncePerKind(kept) /\ (\A i \in DOMAIN kept : Shows(kept[i]))
  BY <1>2, <1>4 DEF OncePerKind
<1> HIDE DEF kept
<1>6. CASE Named(kept)
  <2>1. after = kept
    BY <1>6 DEF WithImageName, Named
  <2>2. Tidy(kept)
    BY <1>2, <1>3, <1>4, <1>5, <1>6 DEF Tidy
  <2>3. KeepsChoices(columns, kept)
    BY <1>2, <1>4 DEF KeepsChoices
  <2> QED
    BY <2>1, <2>2, <2>3 DEF NormalizedColumns, kept
<1>7. CASE ~Named(kept)
  <2>1. after = [i \in DOMAIN kept \cup {0} |-> IF i = 0 THEN NameInFront ELSE kept[i]]
    BY <1>7 DEF WithImageName, Named, NameInFront
  <2>2. 0 \notin DOMAIN kept
    BY <1>1, <1>2, <1>4
  <2>3. /\ DOMAIN after = DOMAIN kept \cup {0}
        /\ after[0] = NameInFront
        /\ \A i \in DOMAIN kept : after[i] = kept[i]
    BY <2>1, <2>2
  <2>4. after = [i \in DOMAIN after |-> after[i]]
    BY <2>1
  <2> HIDE DEF after
  <2>5. \A i \in DOMAIN after : Shows(after[i])
    BY <1>5, <2>3, FrontShows
  <2>6. Named(after)
    BY <2>3, FrontShows DEF Named
  <2>7. ASSUME NEW i \in DOMAIN after, NEW j \in DOMAIN after,
               after[i].column = after[j].column
        PROVE  i = j
    <3>1. \A k \in DOMAIN kept : kept[k].column # NameInFront.column
      BY <1>7, FrontShows DEF Named
    <3>2. CASE i \in DOMAIN kept /\ j \in DOMAIN kept
      BY <1>5, <2>3, <2>7, <3>2 DEF OncePerKind
    <3>3. CASE i = 0 /\ j \in DOMAIN kept
      BY <2>3, <2>7, <3>1, <3>3
    <3>4. CASE i \in DOMAIN kept /\ j = 0
      BY <2>3, <2>7, <3>1, <3>4
    <3> QED
      BY <2>3, <3>2, <3>3, <3>4
  <2>8. DOMAIN after \subseteq Nat
    BY <1>2, <1>4, <2>3
  <2>9. Tidy(after)
    BY <2>4, <2>5, <2>6, <2>7, <2>8 DEF Tidy, OncePerKind
  <2>10. KeepsChoices(columns, after)
    BY <1>2, <1>4, <2>3 DEF KeepsChoices
  <2> QED
    BY <2>9, <2>10 DEF NormalizedColumns, kept, after
<1> QED
  BY <1>6, <1>7

LEMMA TidyStays ==
  ASSUME NEW columns, Tidy(columns)
  PROVE  NormalizedColumns(columns) = columns
<1>1. Retained(columns) = DOMAIN columns
  <2>1. ASSUME NEW i \in DOMAIN columns, NEW j \in DOMAIN columns,
               j < i, columns[j].column = columns[i].column
        PROVE  FALSE
    <3>1. i = j /\ i \in Nat
      BY <2>1 DEF Tidy, OncePerKind
    <3> QED
      BY <2>1, <3>1, SMT
  <2> QED
    BY <2>1 DEF Retained, Tidy
<1>2. Restrict(columns, Retained(columns)) = columns
  BY <1>1 DEF Restrict, Tidy
<1> QED
  BY <1>2 DEF NormalizedColumns, WithImageName, Tidy, Named

\* The layouts that replace those of earlier schemas are placed like those of a
\* file.
LEMMA MigratedArePlaced ==
  ASSUME NEW s \in Settings(Nat \ {0})
  PROVE  Placed(MigratedColumns(s), Nat \ {0})
<1>1. Placed(s.process_columns, Nat \ {0})
  BY DEF Settings, Placed
<1>2. Placed(DefaultColumns, Nat \ {0})
  <2>1. \A column \in Columns, width \in Int : Layout(column, width) \in Layouts
    BY DEF Layout, Layouts, Lengths
  <2>2. {"ImageName", "UserName", "SessionId", "Cpu", "MemoryUsage"} \subseteq Columns
    BY DEF Columns
  <2>3. DefaultColumns \in [1..5 -> Layouts]
    BY <2>1, <2>2 DEF DefaultColumns
  <2>4. 1..5 \in SUBSET (Nat \ {0})
    BY SMT
  <2> QED
    BY <2>3, <2>4 DEF Placed
<1> QED
  BY <1>1, <1>2 DEF MigratedColumns

LEMMA LengthsAreRaised ==
  ASSUME NEW length \in Lengths, NEW least \in Int
  PROVE  /\ AtLeast(length, least) \in Int /\ AtLeast(length, least) >= least
         /\ length \in Int /\ length >= least => AtLeast(length, least) = length
<1>1. CASE length = NoNumber
  BY <1>1, SettingsValuesAssumption, SMT DEF AtLeast
<1>2. CASE length \in Int
  <2>1. length # NoNumber
    BY <1>2, SettingsValuesAssumption
  <2> QED
    BY <1>2, <2>1, SMT DEF AtLeast
<1> QED
  BY <1>1, <1>2 DEF Lengths

\* Whatever a settings file holds, normalize makes of it settings a window can be
\* built from, and drops nothing of the column layout the user has chosen except
\* columns of an impossible width and repetitions.
THEOREM SettingsAreUsable ==
  ASSUME NEW s \in Settings(Nat \ {0})
  PROVE  /\ Usable(Normalize(s))
         /\ KeepsChoices(MigratedColumns(s), Normalize(s).process_columns)
<1> DEFINE n == Normalize(s)
           columns == MigratedColumns(s)
<1>1. /\ Tidy(NormalizedColumns(columns))
      /\ KeepsChoices(columns, NormalizedColumns(columns))
  BY MigratedArePlaced, NormalizedAreTidy
<1>2. /\ n.schema_version = CurrentSchema
      /\ n.x = FiniteOrUnset(s.x) /\ n.y = FiniteOrUnset(s.y)
      /\ n.width = Width(s) /\ n.height = Height(s)
      /\ n.process_columns = NormalizedColumns(columns)
  BY DEF Normalize
<1> HIDE DEF n, columns
<1>3. n.x # NoNumber /\ n.y # NoNumber
  BY <1>2, SettingsValuesAssumption DEF FiniteOrUnset, Lengths
<1>4. /\ n.width \in Int /\ n.width >= OriginalWidth
      /\ n.height \in Int /\ n.height >= OriginalHeight
  <2>1. s.width \in Lengths /\ s.height \in Lengths
    BY DEF Settings
  <2>2. OriginalWidth \in Int /\ OriginalHeight \in Int
    BY DEF OriginalWidth, OriginalHeight
  <2>3. /\ AtLeast(s.width, OriginalWidth) \in Int
        /\ AtLeast(s.width, OriginalWidth) >= OriginalWidth
        /\ AtLeast(s.height, OriginalHeight) \in Int
        /\ AtLeast(s.height, OriginalHeight) >= OriginalHeight
    BY <2>1, <2>2, LengthsAreRaised
  <2>4. OriginalWidth >= OriginalWidth /\ OriginalHeight >= OriginalHeight
    BY <2>2, SMT
  <2> QED
    BY <1>2, <2>2, <2>3, <2>4 DEF Width, Height
<1>5. \A i \in DOMAIN n.process_columns :
        /\ n.process_columns[i].width \in 24..1000
        /\ \A j \in DOMAIN n.process_columns :
             n.process_columns[i].column = n.process_columns[j].column => i = j
  BY <1>1, <1>2 DEF Tidy, Shows, OncePerKind
<1>6. \E i \in DOMAIN n.process_columns : n.process_columns[i].column = "ImageName"
  BY <1>1, <1>2 DEF Tidy, Named
<1>7. Usable(n)
  BY <1>2, <1>3, <1>4, <1>5, <1>6 DEF Usable
<1>8. KeepsChoices(columns, n.process_columns)
  BY <1>1, <1>2
<1> QED
  BY <1>7, <1>8 DEF n, columns

\* Settings that were read once are read again as they are: a start that changes
\* nothing leaves the settings the next start reads, from file to file.
THEOREM NormalizingTwiceIsOnce ==
  ASSUME NEW s \in Settings(Nat \ {0})
  PROVE  Normalize(Normalize(s)) = Normalize(s)
<1> DEFINE n == Normalize(s)
           columns == MigratedColumns(s)
<1>1. /\ n.schema_version = CurrentSchema
      /\ n.one_graph_per_cpu = (s.schema_version < 3 \/ s.one_graph_per_cpu)
      /\ n.x = FiniteOrUnset(s.x) /\ n.y = FiniteOrUnset(s.y)
      /\ n.width = Width(s) /\ n.height = Height(s)
      /\ n.process_columns = NormalizedColumns(columns)
  BY DEF Normalize
<1>2. Usable(n)
  BY SettingsAreUsable
<1>3. Tidy(NormalizedColumns(columns))
  BY MigratedArePlaced, NormalizedAreTidy
<1> HIDE DEF n, columns
<1>4. ~(n.schema_version < 4) /\ ~(n.schema_version < 3) /\ ~MigratedSize(n)
  BY <1>1, SMT DEF CurrentSchema, MigratedSize
<1>5. MigratedColumns(n) = n.process_columns
  BY <1>4 DEF MigratedColumns
<1>6. NormalizedColumns(MigratedColumns(n)) = n.process_columns
  BY <1>1, <1>3, <1>5, TidyStays
<1>7. FiniteOrUnset(n.x) = n.x /\ FiniteOrUnset(n.y) = n.y
  <2>1. n.x # NoNumber /\ n.y # NoNumber
    BY <1>2 DEF Usable
  <2> QED
    BY <2>1 DEF FiniteOrUnset
<1>8. Width(n) = n.width /\ Height(n) = n.height
  <2>1. /\ n.width \in Int /\ n.width >= OriginalWidth
        /\ n.height \in Int /\ n.height >= OriginalHeight
        /\ n.width \in Lengths /\ n.height \in Lengths
        /\ OriginalWidth \in Int /\ OriginalHeight \in Int
    <3>1. OriginalWidth \in Int /\ OriginalHeight \in Int
      BY DEF OriginalWidth, OriginalHeight
    <3>2. n.width \in Int /\ n.height \in Int
      BY <1>2 DEF Usable
    <3>3. n.width >= OriginalWidth /\ n.height >= OriginalHeight
      BY <1>2 DEF Usable
    <3> QED
      BY <3>1, <3>2, <3>3 DEF Lengths
  <2>2. AtLeast(n.width, OriginalWidth) = n.width
    BY <2>1, LengthsAreRaised
  <2>3. AtLeast(n.height, OriginalHeight) = n.height
    BY <2>1, LengthsAreRaised
  <2> QED
    BY <1>4, <2>2, <2>3 DEF Width, Height
<1>9. (n.schema_version < 3 \/ n.one_graph_per_cpu) = n.one_graph_per_cpu
  <2>1. n.one_graph_per_cpu \in BOOLEAN
    BY <1>1
  <2> QED
    BY <1>4, <2>1
<1>10. Normalize(n) =
        [schema_version |-> n.schema_version, one_graph_per_cpu |-> n.one_graph_per_cpu,
         x |-> n.x, y |-> n.y, width |-> n.width, height |-> n.height,
         process_columns |-> n.process_columns]
  BY <1>1, <1>6, <1>7, <1>8, <1>9 DEF Normalize
<1>11. n = [schema_version |-> n.schema_version, one_graph_per_cpu |-> n.one_graph_per_cpu,
            x |-> n.x, y |-> n.y, width |-> n.width, height |-> n.height,
            process_columns |-> n.process_columns]
  BY <1>1 DEF n, Normalize, columns
<1> QED
  BY <1>10, <1>11 DEF n

-----------------------------------------------------------------------------
(* DiagnosticStore.  Every cleanup that comes to its end leaves few of the    *)
(* sessions it saw, and the newest such cleanup saw all but those whose       *)
(* instance has not come to its own end.                                      *)

CleaningUp == {"scan", "examine", "delete", "rmdir"}
Places == CleaningUp \cup {"stopped", "create", "open", "running", "reserve", "disabled"}
Scanned(w) == DOMAIN found[w].size

\* What is kept of a cleanup: its todo is a part of what it listed, the rest was
\* skipped for a reason, and it believes that more sessions are left than are.
CleanupOK(w) ==
  /\ found[w].todo \subseteq Scanned(w)
  /\ found[w].remaining \in Nat
  /\ Cardinality(sessions \cap Scanned(w)) <= found[w].remaining
  /\ (sessions \cap Scanned(w)) \ found[w].todo \subseteq foreign \cup {mine[w], found[w].session}
  /\ IF at[w] = "examine" THEN found[w].session = 0 ELSE found[w].session \in Scanned(w)

\* It saw all sessions up to one.
Horizon(w, m) ==
  /\ Scanned(w) \subseteq 1..m
  /\ sessions \cap (1..m) \subseteq Scanned(w)
  /\ phase[w] = "second" => mine[w] <= m

CleanupsOK ==
  \A w \in Writers :
    at[w] \in {"examine", "delete", "rmdir"}
      => CleanupOK(w) /\ \E m \in 0..created : Horizon(w, m)

StoreTyped ==
  /\ created \in Nat
  /\ sessions \subseteq 1..created
  /\ foreign \subseteq sessions
  /\ at \in [Writers -> Places]
  /\ phase \in [Writers -> {"first", "second", "rotation"}]
  /\ mine \in [Writers -> 0..created]
  /\ DOMAIN found = Writers
  /\ \A w \in Writers : DOMAIN found[w] = DOMAIN NothingYet

\* The session of an instance that has not come to the end of its second cleanup.
Unsettled(s) ==
  \E w \in Writers : mine[w] = s /\ phase[w] = "second" /\ at[w] \in CleaningUp

Settled(m) ==
  /\ Cardinality((sessions \cap (1..m)) \ foreign) <= SessionLimit
  /\ \A s \in sessions : s > m => Unsettled(s)

FewSettled == lapsed \/ \E m \in 0..created : Settled(m)

StoreInv == StoreTyped /\ CleanupsOK /\ FewSettled
LEMMA SessionsAreFinite ==
  ASSUME StoreTyped, NEW T \in SUBSET sessions
  PROVE  /\ IsFiniteSet(T) /\ Cardinality(T) \in Nat
         /\ \A U \in SUBSET T : Cardinality(U) <= Cardinality(T)
<1>1. created \in Int /\ 1 \in Int /\ T \in SUBSET (1..created)
  BY DEF StoreTyped
<1>2. IsFiniteSet(1..created)
  BY <1>1, FS_Interval
<1>3. IsFiniteSet(T)
  BY <1>1, <1>2, FS_Subset
<1> QED
  BY <1>3, FS_Subset, FS_CardinalityType

\* What an instance does leaves the locals of the others alone, and no session
\* appears unless it is created.
Waits(v) ==
  /\ at'[v] = at[v] /\ phase'[v] = phase[v] /\ mine'[v] = mine[v] /\ found'[v] = found[v]

NothingNew == created' = created /\ sessions' \subseteq sessions /\ foreign \subseteq foreign'

OneMore ==
  created' = created + 1 /\ sessions' = sessions \cup {created + 1} /\ foreign' = foreign

StillUnsettled(w) ==
  phase[w] = "second" /\ at[w] \in CleaningUp
    => phase'[w] = "second" /\ at'[w] \in CleaningUp /\ mine'[w] = mine[w]

CleanupKept(w) ==
  at[w] \in {"examine", "delete", "rmdir"}
    => CleanupOK(w) /\ \E m \in 0..created : Horizon(w, m)

\* A cleanup under way is not disturbed by what others do.
LEMMA CleanupStands ==
  ASSUME StoreTyped, NEW w \in Writers, CleanupKept(w), Waits(w), NothingNew \/ OneMore
  PROVE  CleanupKept(w)'
<1> SUFFICES ASSUME at[w] \in {"examine", "delete", "rmdir"}
             PROVE  CleanupOK(w)' /\ \E m \in 0..created' : Horizon(w, m)'
  BY DEF CleanupKept, Waits
<1>1. PICK m \in 0..created : Horizon(w, m)
  BY DEF CleanupKept
<1>2. CleanupOK(w) /\ Scanned(w)' = Scanned(w)
  BY DEF CleanupKept, Waits, Scanned
<1>3. created \in Nat /\ m \in Nat /\ m <= created /\ sessions \subseteq 1..created
  BY <1>1 DEF StoreTyped
<1>4. created + 1 \notin 1..m /\ m \in 0..created'
  BY <1>3 DEF NothingNew, OneMore
<1>5. created + 1 \notin Scanned(w) /\ Scanned(w) \subseteq 1..m
  BY <1>1, <1>4 DEF Horizon
<1>6. /\ sessions' \cap Scanned(w) \subseteq sessions \cap Scanned(w)
      /\ sessions' \cap (1..m) \subseteq sessions \cap (1..m)
      /\ foreign \subseteq foreign'
  BY <1>4, <1>5 DEF NothingNew, OneMore
<1>7. Cardinality(sessions' \cap Scanned(w)) <= Cardinality(sessions \cap Scanned(w))
  BY <1>6, SessionsAreFinite
<1>8. Cardinality(sessions' \cap Scanned(w)) \in Nat /\ Cardinality(sessions \cap Scanned(w)) \in Nat
  <2>1. sessions' \cap Scanned(w) \in SUBSET sessions
    BY <1>6
  <2> QED
    BY <2>1, SessionsAreFinite
<1>9. Horizon(w, m)'
  BY <1>1, <1>2, <1>6 DEF Horizon, Waits
<1>10. CleanupOK(w)'
  <2>1. /\ found[w].remaining \in Nat
        /\ Cardinality(sessions \cap Scanned(w)) <= found[w].remaining
    BY <1>2 DEF CleanupOK
  <2>2. Cardinality(sessions' \cap Scanned(w)) <= found[w].remaining
    BY ONLY <2>1, <1>7, <1>8
  <2> QED
    BY <1>2, <1>6, <2>1, <2>2 DEF CleanupOK, Waits
<1> QED
  BY <1>4, <1>9, <1>10

\* Sessions that are there stay within the bound while their instances do not
\* come to an end.
LEMMA SettledStands ==
  ASSUME StoreTyped, FewSettled, NothingNew, lapsed' <=> lapsed,
         \A w \in Writers : StillUnsettled(w)
  PROVE  FewSettled'
<1>1. CASE lapsed
  BY <1>1 DEF FewSettled
<1>2. ASSUME NEW m \in 0..created, Settled(m) PROVE Settled(m)' /\ m \in 0..created'
  <2>1. (sessions' \cap (1..m)) \ foreign' \subseteq (sessions \cap (1..m)) \ foreign
    BY DEF NothingNew
  <2>2. Cardinality((sessions \cap (1..m)) \ foreign) <= SessionLimit
    BY <1>2 DEF Settled
  <2>3. (sessions \cap (1..m)) \ foreign \in SUBSET sessions
    OBVIOUS
  <2>4. /\ Cardinality((sessions' \cap (1..m)) \ foreign')
             <= Cardinality((sessions \cap (1..m)) \ foreign)
        /\ Cardinality((sessions \cap (1..m)) \ foreign) \in Nat
    BY <2>1, <2>3, SessionsAreFinite
  <2>5. Cardinality((sessions' \cap (1..m)) \ foreign') \in Nat
    <3>1. (sessions' \cap (1..m)) \ foreign' \in SUBSET sessions
      BY <2>1
    <3> QED
      BY <3>1, SessionsAreFinite
  <2>6. SessionLimit \in Nat
    BY StoreAssumption
  <2>7. Cardinality((sessions' \cap (1..m)) \ foreign') <= SessionLimit
    BY ONLY <2>2, <2>4, <2>5, <2>6
  <2>8. ASSUME NEW s \in sessions', s > m PROVE Unsettled(s)'
    <3>1. Unsettled(s)
      BY <1>2, <2>8 DEF Settled, NothingNew
    <3> QED
      BY <3>1 DEF Unsettled, StillUnsettled
  <2> QED
    BY <2>7, <2>8 DEF Settled, NothingNew
<1> QED
  BY <1>1, <1>2 DEF FewSettled

\* The actions by which one instance goes on, while sessions only vanish.
LEMMA InstanceGoesOn ==
  ASSUME StoreInv, NEW w \in Writers, NothingNew,
         \A v \in Writers \ {w} : Waits(v),
         StoreTyped', CleanupKept(w)',
         \/ lapsed'
         \/ (lapsed' <=> lapsed) /\ StillUnsettled(w)
  PROVE  StoreInv'
<1>1. \A v \in Writers : CleanupKept(v)
  BY DEF StoreInv, CleanupsOK, CleanupKept
<1>2. \A v \in Writers \ {w} : CleanupKept(v)'
  BY <1>1, CleanupStands DEF StoreInv
<1>3. CleanupsOK'
  BY <1>2 DEF CleanupsOK, CleanupKept
<1>4. \A v \in Writers \ {w} : StillUnsettled(v)
  BY DEF Waits, StillUnsettled
<1>5. FewSettled'
  BY <1>4, SettledStands DEF StoreInv, FewSettled
<1> QED
  BY <1>3, <1>5 DEF StoreInv

LEMMA LeastIsMember ==
  ASSUME NEW T \in SUBSET Nat, T # {}
  PROVE  Min(T) \in T
<1>1. PICK x \in T : \A y \in T : x <= y
  BY FirstPosition
<1> QED
  BY <1>1 DEF Min

\* A cleanup begins with all sessions there are.
LEMMA ScanKeeps ==
  ASSUME StoreInv, NEW w \in Writers, Scan(w)
  PROVE  StoreInv'
<1>1. /\ at[w] = "scan" /\ at' = [at EXCEPT ![w] = "examine"]
      /\ UNCHANGED <<sessions, created, foreign, phase, mine, lapsed>>
      /\ DOMAIN found' = DOMAIN found
      /\ \A v \in Writers \ {w} : found'[v] = found[v]
  BY DEF Scan, Goto
<1>2. StoreTyped
  BY DEF StoreInv
<1>3. /\ DOMAIN found'[w] = DOMAIN NothingYet
      /\ found'[w].todo = sessions /\ DOMAIN found'[w].size = sessions
      /\ found'[w].remaining = Cardinality(sessions) /\ found'[w].session = 0
  BY <1>2 DEF Scan, StoreTyped, NothingYet
<1>4. StoreTyped'
  BY <1>1, <1>2, <1>3 DEF StoreTyped, Places, CleaningUp
<1>5. CleanupOK(w)'
  <2>1. Cardinality(sessions) \in Nat /\ sessions \cap sessions = sessions
    BY <1>2, SessionsAreFinite
  <2>2. Cardinality(sessions \cap sessions) <= Cardinality(sessions)
    <3>1. Cardinality(sessions \cap sessions) = Cardinality(sessions)
      BY <2>1, Zenon
    <3> QED
      BY <2>1, <3>1
  <2>3. at'[w] = "examine"
    BY <1>1, <1>2 DEF StoreTyped
  <2> QED
    BY <1>1, <1>3, <2>1, <2>2, <2>3 DEF CleanupOK, Scanned
<1>6. \E m \in 0..created' : Horizon(w, m)'
  <2>1. PICK m \in 0..created : m = created
    BY <1>2 DEF StoreTyped
  <2>2. Horizon(w, m)'
    BY <1>1, <1>2, <1>3, <2>1 DEF Horizon, Scanned, StoreTyped
  <2> QED
    BY <1>1, <2>2
<1>7. StillUnsettled(w) /\ NothingNew /\ \A v \in Writers \ {w} : Waits(v)
  BY <1>1, <1>2 DEF StillUnsettled, NothingNew, Waits, StoreTyped, CleaningUp
<1>8. CleanupKept(w)'
  BY <1>5, <1>6 DEF CleanupKept
<1> QED
  BY <1>1, <1>4, <1>7, <1>8, InstanceGoesOn

\* A session is looked at.
LEMMA ExamineKeeps ==
  ASSUME StoreInv, NEW w \in Writers, Examine(w)
  PROVE  StoreInv'
<1> DEFINE s == Min(found[w].todo)
           rest == [found[w] EXCEPT !.todo = @ \ {s}]
           chosen == [rest EXCEPT !.session = s, !.files = DOMAIN parts[s]]
<1>1. StoreTyped
  BY DEF StoreInv
<1>2. /\ at[w] = "examine" /\ found[w].todo # {}
      /\ UNCHANGED <<sessions, created, foreign, phase, mine, lapsed>>
  BY DEF Examine
<1>3. CleanupOK(w) /\ \E m \in 0..created : Horizon(w, m)
  BY <1>2 DEF StoreInv, CleanupsOK
<1>4. s \in found[w].todo
  <2>1. found[w].todo \in SUBSET Nat
    BY <1>3 DEF CleanupOK, Horizon
  <2> HIDE DEF s
  <2> QED
    BY <1>2, <2>1, LeastIsMember DEF s
<1>5. \/ /\ s = mine[w] \/ s \notin sessions \/ s \in foreign
         /\ found' = [found EXCEPT ![w] = rest] /\ at' = at
      \/ /\ found' = [found EXCEPT ![w] = chosen]
         /\ at' = [at EXCEPT ![w] = "delete"]
  BY DEF Examine, Goto
<1> HIDE DEF s
<1>6. DOMAIN found[w] = DOMAIN NothingYet
  BY <1>1 DEF StoreTyped
<1>7. /\ DOMAIN rest = DOMAIN NothingYet /\ rest.todo = found[w].todo \ {s}
      /\ rest.size = found[w].size /\ rest.remaining = found[w].remaining
      /\ rest.session = found[w].session
  BY <1>6 DEF NothingYet
<1> HIDE DEF rest
<1>8. /\ DOMAIN chosen = DOMAIN NothingYet /\ chosen.todo = found[w].todo \ {s}
      /\ chosen.size = found[w].size /\ chosen.remaining = found[w].remaining
      /\ chosen.session = s
  BY <1>7 DEF NothingYet
<1> HIDE DEF chosen
<1>9. /\ DOMAIN found' = Writers /\ \A v \in Writers \ {w} : found'[v] = found[v] /\ at'[v] = at[v]
      /\ at' \in [Writers -> Places]
      /\ \/ /\ s = mine[w] \/ s \notin sessions \/ s \in foreign
            /\ found'[w] = rest /\ at'[w] = "examine"
         \/ found'[w] = chosen /\ at'[w] = "delete"
  BY <1>1, <1>2, <1>5 DEF StoreTyped, Places, CleaningUp
<1>10. StoreTyped'
  <2>1. \A v \in Writers : DOMAIN found'[v] = DOMAIN NothingYet
    BY <1>1, <1>7, <1>8, <1>9 DEF StoreTyped
  <2> QED
    BY <1>1, <1>2, <1>9, <2>1 DEF StoreTyped
<1>11. Scanned(w)' = Scanned(w) /\ found'[w].remaining = found[w].remaining
       /\ found'[w].todo = found[w].todo \ {s}
  BY <1>7, <1>8, <1>9 DEF Scanned
<1>12. CleanupOK(w)'
  <2>1. found[w].session = 0
    BY <1>2, <1>3 DEF CleanupOK
  <2>2. CASE found'[w] = rest /\ at'[w] = "examine" /\ (s = mine[w] \/ s \notin sessions \/ s \in foreign)
    BY <1>2, <1>3, <1>7, <1>11, <2>1, <2>2 DEF CleanupOK
  <2>3. CASE found'[w] = chosen /\ at'[w] = "delete"
    <3>1. s \in Scanned(w) /\ found'[w].session = s
      BY <1>3, <1>4, <1>8, <2>3 DEF CleanupOK
    <3>2. (sessions \cap Scanned(w)) \ found[w].todo \subseteq foreign \cup {mine[w]}
      <4>1. 0 \notin sessions
        BY <1>1 DEF StoreTyped
      <4> QED
        BY <1>3, <2>1, <4>1 DEF CleanupOK
    <3> QED
      BY <1>2, <1>3, <1>11, <2>3, <3>1, <3>2 DEF CleanupOK
  <2> QED
    BY <1>9, <2>2, <2>3
<1>13. CleanupKept(w)'
  <2>1. PICK m \in 0..created : Horizon(w, m)
    BY <1>3
  <2>2. m \in 0..created' /\ Horizon(w, m)'
    BY <1>2, <1>11, <2>1 DEF Horizon
  <2> QED
    BY <1>12, <2>2 DEF CleanupKept
<1>14. StillUnsettled(w) /\ NothingNew /\ \A v \in Writers \ {w} : Waits(v)
  BY <1>2, <1>9 DEF StillUnsettled, NothingNew, Waits, CleaningUp
<1> QED
  BY <1>2, <1>10, <1>13, <1>14, InstanceGoesOn

\* Where an instance has no cleanup under way, nothing is claimed of it.
LEMMA InstanceElsewhere ==
  ASSUME StoreInv, NEW w \in Writers, NEW place \in Places,
         place \notin {"examine", "delete", "rmdir"},
         Goto(w, place), UNCHANGED <<sessions, created, foreign>>,
         phase' \in [Writers -> {"first", "second", "rotation"}],
         mine' \in [Writers -> 0..created],
         DOMAIN found' = Writers, DOMAIN found'[w] = DOMAIN NothingYet,
         \A v \in Writers \ {w} :
           phase'[v] = phase[v] /\ mine'[v] = mine[v] /\ found'[v] = found[v],
         \/ lapsed'
         \/ (lapsed' <=> lapsed) /\ (phase[w] = "second" => at[w] \notin CleaningUp)
  PROVE  StoreInv'
<1>1. StoreTyped
  BY DEF StoreInv
<1>2. at' \in [Writers -> Places] /\ at'[w] = place /\ \A v \in Writers \ {w} : at'[v] = at[v]
  BY <1>1 DEF StoreTyped, Goto
<1>3. StoreTyped'
  BY <1>1, <1>2 DEF StoreTyped
<1>4. CleanupKept(w)'
  BY <1>2 DEF CleanupKept
<1>5. NothingNew /\ \A v \in Writers \ {w} : Waits(v)
  BY <1>2 DEF NothingNew, Waits
<1>6. lapsed' \/ ((lapsed' <=> lapsed) /\ StillUnsettled(w))
  BY DEF StillUnsettled
<1> QED
  BY <1>3, <1>4, <1>5, <1>6, InstanceGoesOn

\* An error ends the cleanup, and is noted.
LEMMA FailureKeeps ==
  ASSUME StoreInv, NEW w \in Writers, RetentionFails(w),
         UNCHANGED <<sessions, created, foreign, phase, mine>>
  PROVE  StoreInv'
<1>1. StoreTyped
  BY DEF StoreInv
<1>2. PICK place \in Places : place \notin {"examine", "delete", "rmdir"} /\ Goto(w, place)
  <2>1. (IF phase[w] = "rotation" THEN "disabled" ELSE AfterRetention(w))
          \in {"disabled", "create", "open", "reserve"}
    BY <1>1 DEF StoreTyped, AfterRetention
  <2> QED
    BY <2>1 DEF RetentionFails, Places, CleaningUp
<1>3. /\ DOMAIN found' = Writers /\ DOMAIN found'[w] = DOMAIN NothingYet
      /\ \A v \in Writers \ {w} : found'[v] = found[v]
  BY <1>1 DEF RetentionFails, StoreTyped
<1>4. lapsed'
  BY DEF RetentionFails
<1> QED
  BY <1>1, <1>2, <1>3, <1>4, InstanceElsewhere DEF StoreTyped

LEMMA RemoveFilesKeeps ==
  ASSUME StoreInv, NEW w \in Writers, RemoveFiles(w)
  PROVE  StoreInv'
<1>1. /\ at[w] = "delete" /\ UNCHANGED <<sessions, created, foreign, phase, mine>>
      /\ \/ Goto(w, "rmdir") /\ UNCHANGED <<found, lapsed>>
         \/ RetentionFails(w)
  BY DEF RemoveFiles
<1>2. CASE RetentionFails(w)
  BY <1>1, <1>2, FailureKeeps
<1>3. CASE Goto(w, "rmdir") /\ UNCHANGED <<found, lapsed>>
  <2>1. StoreTyped /\ CleanupKept(w)
    BY DEF StoreInv, CleanupsOK, CleanupKept
  <2>2. at' \in [Writers -> Places] /\ at'[w] = "rmdir" /\ \A v \in Writers \ {w} : at'[v] = at[v]
    BY <1>3, <2>1 DEF StoreTyped, Goto, Places, CleaningUp
  <2>3. StoreTyped'
    BY <1>1, <1>3, <2>1, <2>2 DEF StoreTyped
  <2>4. CleanupKept(w)'
    BY <1>1, <1>3, <2>1, <2>2 DEF CleanupKept, CleanupOK, Horizon, Scanned
  <2>5. StillUnsettled(w) /\ NothingNew /\ \A v \in Writers \ {w} : Waits(v)
    BY <1>1, <1>3, <2>2 DEF StillUnsettled, NothingNew, Waits, CleaningUp
  <2> QED
    BY <1>3, <2>3, <2>4, <2>5, InstanceGoesOn
<1> QED
  BY <1>1, <1>2, <1>3

\* A session is gone, and one fewer is believed to be left.
LEMMA RemoveDirectoryKeeps ==
  ASSUME StoreInv, NEW w \in Writers, RemoveDirectory(w)
  PROVE  StoreInv'
<1> DEFINE s == found[w].session
<1>1. /\ at[w] = "rmdir" /\ UNCHANGED <<created, foreign, phase, mine>>
      /\ \/ s \in sessions \ foreign /\ Deleted(w, s)
         \/ RetentionFails(w) /\ UNCHANGED sessions
  BY DEF RemoveDirectory
<1>2. CASE RetentionFails(w) /\ UNCHANGED sessions
  BY <1>1, <1>2, FailureKeeps
<1>3. CASE s \in sessions \ foreign /\ Deleted(w, s)
  <2>1. StoreTyped /\ CleanupOK(w) /\ \E m \in 0..created : Horizon(w, m)
    BY <1>1 DEF StoreInv, CleanupsOK
  <2>2. /\ sessions' = sessions \ {s} /\ UNCHANGED lapsed
        /\ at' \in [Writers -> Places] /\ at'[w] = "examine"
        /\ \A v \in Writers \ {w} : at'[v] = at[v] /\ found'[v] = found[v]
        /\ DOMAIN found' = Writers
    BY <1>3, <2>1 DEF Deleted, Goto, StoreTyped, Places, CleaningUp
  <2>3. /\ DOMAIN found'[w] = DOMAIN NothingYet
        /\ found'[w].todo = found[w].todo /\ found'[w].size = found[w].size
        /\ found'[w].remaining = found[w].remaining - 1 /\ found'[w].session = 0
    <3>1. w \in DOMAIN found /\ DOMAIN found[w] = DOMAIN NothingYet
      BY <2>1 DEF StoreTyped
    <3> QED
      BY <1>3, <3>1 DEF Deleted, NothingYet
  <2>4. StoreTyped'
    <3>1. \A v \in Writers : DOMAIN found'[v] = DOMAIN NothingYet
      BY <2>1, <2>2, <2>3 DEF StoreTyped
    <3> QED
      BY <1>1, <1>3, <2>1, <2>2, <3>1 DEF StoreTyped
  <2>5. Scanned(w)' = Scanned(w)
    BY <2>3 DEF Scanned
  <2>6. CleanupOK(w)'
    <3>1. s \in sessions \cap Scanned(w)
      BY <1>1, <1>3, <2>1 DEF CleanupOK
    <3>2. sessions' \cap Scanned(w) = (sessions \cap Scanned(w)) \ {s}
      BY <2>2
    <3>3. IsFiniteSet(sessions \cap Scanned(w)) /\ Cardinality(sessions \cap Scanned(w)) \in Nat
      <4>1. sessions \cap Scanned(w) \in SUBSET sessions
        OBVIOUS
      <4> QED
        BY <2>1, <4>1, SessionsAreFinite
    <3>4. Cardinality((sessions \cap Scanned(w)) \ {s}) = Cardinality(sessions \cap Scanned(w)) - 1
      BY <3>1, <3>3, FS_RemoveElement
    <3>5. Cardinality((sessions \cap Scanned(w)) \ {s}) \in Nat
      <4>1. (sessions \cap Scanned(w)) \ {s} \in SUBSET sessions
        OBVIOUS
      <4> QED
        BY <2>1, <4>1, SessionsAreFinite
    <3>6. found[w].remaining \in Nat /\ Cardinality(sessions \cap Scanned(w)) <= found[w].remaining
      BY <2>1 DEF CleanupOK
    <3>7. /\ found[w].remaining - 1 \in Nat
          /\ Cardinality((sessions \cap Scanned(w)) \ {s}) <= found[w].remaining - 1
      BY ONLY <3>3, <3>4, <3>5, <3>6
    <3>8. Cardinality(sessions' \cap Scanned(w)) <= found'[w].remaining
      <4>1. Cardinality(sessions' \cap Scanned(w)) = Cardinality((sessions \cap Scanned(w)) \ {s})
        BY <3>2, Zenon
      <4> QED
        BY <2>3, <3>7, <4>1
    <3>9. (sessions' \cap Scanned(w)) \ found[w].todo \subseteq foreign \cup {mine[w], 0}
      BY <2>1, <2>2 DEF CleanupOK
    <3> QED
      BY <1>1, <2>1, <2>2, <2>3, <2>5, <3>7, <3>8, <3>9 DEF CleanupOK
  <2>7. CleanupKept(w)'
    <3>1. PICK m \in 0..created : Horizon(w, m)
      BY <2>1
    <3>2. m \in 0..created' /\ Horizon(w, m)'
      BY <1>1, <2>2, <2>5, <3>1 DEF Horizon
    <3> QED
      BY <2>6, <3>2 DEF CleanupKept
  <2>8. StillUnsettled(w) /\ NothingNew /\ \A v \in Writers \ {w} : Waits(v)
    BY <1>1, <2>2 DEF StillUnsettled, NothingNew, Waits, CleaningUp
  <2> QED
    BY <2>2, <2>4, <2>7, <2>8, InstanceGoesOn
<1> QED
  BY <1>1, <1>2, <1>3

\* A new session is one of an instance that has its second cleanup before it.
LEMMA CreateSessionKeeps ==
  ASSUME StoreInv, NEW w \in Writers, CreateSession(w)
  PROVE  StoreInv'
<1>1. StoreTyped /\ at[w] = "create" /\ OneMore /\ UNCHANGED <<found, lapsed>>
  BY DEF StoreInv, CreateSession, OneMore
<1>2. /\ at' \in [Writers -> Places] /\ at'[w] = "scan"
      /\ phase' \in [Writers -> {"first", "second", "rotation"}] /\ phase'[w] = "second"
      /\ mine' \in [Writers -> 0..created + 1] /\ mine'[w] = created + 1
      /\ \A v \in Writers \ {w} : Waits(v)
  <2>1. mine \in [Writers -> 0..created + 1] /\ created + 1 \in 0..created + 1
    <3>1. \A x \in 0..created : x \in 0..created + 1
      BY <1>1 DEF StoreTyped
    <3> QED
      BY <1>1, <3>1 DEF StoreTyped
  <2> QED
    BY <1>1, <2>1 DEF CreateSession, StoreTyped, Goto, Waits, Places, CleaningUp
<1>3. StoreTyped'
  <2>1. created' = created + 1 /\ created' \in Nat /\ sessions' \subseteq 1..created'
    <3>1. created \in Nat /\ sessions \subseteq 1..created
      BY <1>1 DEF StoreTyped
    <3>2. created' = created + 1 /\ sessions' = sessions \cup {created + 1}
      BY <1>1 DEF OneMore
    <3>3. \A x \in 1..created : x \in 1..created + 1
      BY <3>1
    <3>4. created + 1 \in 1..created + 1
      BY <3>1
    <3> QED
      BY <3>1, <3>2, <3>3, <3>4
  <2>2. foreign' \subseteq sessions' /\ mine' \in [Writers -> 0..created']
    BY <1>1, <1>2, <2>1 DEF OneMore, StoreTyped
  <2> QED
    BY <1>1, <1>2, <2>1, <2>2 DEF StoreTyped
<1>4. CleanupsOK'
  <2>1. \A v \in Writers \ {w} : CleanupKept(v)'
    <3>1. \A v \in Writers : CleanupKept(v)
      BY DEF StoreInv, CleanupsOK, CleanupKept
    <3> QED
      BY <1>1, <1>2, <3>1, CleanupStands
  <2> QED
    BY <1>2, <2>1 DEF CleanupsOK, CleanupKept
<1>5. FewSettled'
  <2>1. CASE lapsed
    BY <1>1, <2>1 DEF FewSettled
  <2>2. ASSUME NEW m \in 0..created, Settled(m) PROVE m \in 0..created' /\ Settled(m)'
    <3>1. created + 1 \notin 1..m /\ m \in 0..created'
      BY <1>1 DEF OneMore, StoreTyped
    <3>2. (sessions' \cap (1..m)) \ foreign' = (sessions \cap (1..m)) \ foreign
      BY <1>1, <3>1 DEF OneMore
    <3>3. Cardinality((sessions' \cap (1..m)) \ foreign') <= SessionLimit
      BY <2>2, <3>2 DEF Settled
    <3>4. ASSUME NEW s \in sessions', s > m PROVE Unsettled(s)'
      <4>1. CASE s = created + 1
        BY <1>2, <4>1 DEF Unsettled, CleaningUp
      <4>2. CASE s \in sessions
        <5>1. PICK v \in Writers : mine[v] = s /\ phase[v] = "second" /\ at[v] \in CleaningUp
          BY <2>2, <3>4, <4>2 DEF Settled, Unsettled
        <5>2. v # w
          BY <1>1, <5>1 DEF CleaningUp
        <5> QED
          BY <1>2, <5>1, <5>2 DEF Unsettled, Waits
      <4> QED
        BY <1>1, <3>4, <4>1, <4>2 DEF OneMore
    <3> QED
      BY <3>1, <3>3, <3>4 DEF Settled
  <2> QED
    BY <2>1, <2>2 DEF StoreInv, FewSettled
<1> QED
  BY <1>3, <1>4, <1>5 DEF StoreInv

\* A cleanup that comes to its end leaves few sessions of those it saw: the limit,
\* or its own, besides those with files of somebody else.
LEMMA CleanupLeavesFew ==
  ASSUME StoreTyped, NEW w \in Writers, CleanupOK(w), at[w] = "examine",
         found[w].todo = {} \/ WithinLimits(w)
  PROVE  Cardinality((sessions \cap Scanned(w)) \ foreign) <= SessionLimit
<1> DEFINE left == (sessions \cap Scanned(w)) \ foreign
<1>1. /\ sessions \cap Scanned(w) \in SUBSET sessions
      /\ left \in SUBSET (sessions \cap Scanned(w))
      /\ left \in SUBSET sessions
  OBVIOUS
<1>2. /\ Cardinality(left) <= Cardinality(sessions \cap Scanned(w))
      /\ Cardinality(left) \in Nat /\ Cardinality(sessions \cap Scanned(w)) \in Nat
      /\ IsFiniteSet(left)
  BY <1>1, SessionsAreFinite
<1>3. SessionLimit \in Nat /\ 1 <= SessionLimit
  BY StoreAssumption
<1>4. CASE WithinLimits(w)
  <2>1. /\ found[w].remaining \in Nat /\ found[w].remaining <= SessionLimit
        /\ Cardinality(sessions \cap Scanned(w)) <= found[w].remaining
    BY <1>4 DEF CleanupOK, WithinLimits
  <2> QED
    BY ONLY <1>2, <1>3, <2>1
<1>5. CASE found[w].todo = {}
  <2>1. 0 \notin sessions
    BY DEF StoreTyped
  <2>2. left \in SUBSET {mine[w]}
    BY <1>5, <2>1 DEF CleanupOK
  <2>3. IsFiniteSet({mine[w]}) /\ Cardinality({mine[w]}) = 1
    BY FS_Singleton
  <2>4. Cardinality(left) <= Cardinality({mine[w]})
    BY <2>2, <2>3, FS_Subset
  <2> QED
    BY <1>2, <1>3, <2>3, <2>4
<1> QED
  BY <1>4, <1>5

\* The end of a cleanup.  If it saw more than any that ended before, the sessions
\* it did not see belong to instances whose second cleanup is still to end.
LEMMA RetentionDoneKeeps ==
  ASSUME StoreInv, NEW w \in Writers, RetentionDone(w)
  PROVE  StoreInv'
<1>1. /\ StoreTyped /\ at[w] = "examine"
      /\ found[w].todo = {} \/ WithinLimits(w)
      /\ UNCHANGED <<sessions, created, foreign, phase, mine, lapsed>>
  BY DEF StoreInv, RetentionDone
<1>2. CleanupOK(w) /\ \E m \in 0..created : Horizon(w, m)
  BY <1>1 DEF StoreInv, CleanupsOK
<1>3. at'[w] \in {"create", "open", "reserve"} /\ at' \in [Writers -> Places]
  BY <1>1 DEF RetentionDone, Goto, AfterRetention, StoreTyped, Places, CleaningUp
<1>4. /\ DOMAIN found' = Writers /\ DOMAIN found'[w] = DOMAIN NothingYet
      /\ \A v \in Writers \ {w} : Waits(v)
  BY <1>1 DEF RetentionDone, Goto, StoreTyped, Waits
<1>5. StoreTyped'
  <2>1. \A v \in Writers : DOMAIN found'[v] = DOMAIN NothingYet
    BY <1>1, <1>4 DEF StoreTyped, Waits
  <2> QED
    BY <1>1, <1>3, <1>4, <2>1 DEF StoreTyped
<1>6. CleanupsOK'
  <2>1. \A v \in Writers : CleanupKept(v)
    BY DEF StoreInv, CleanupsOK, CleanupKept
  <2>2. NothingNew
    BY <1>1 DEF NothingNew
  <2>3. \A v \in Writers \ {w} : CleanupKept(v)'
    BY <1>1, <1>4, <2>1, <2>2, CleanupStands
  <2> QED
    BY <1>3, <2>3 DEF CleanupsOK, CleanupKept
<1>7. ASSUME NEW m \in 0..created, Settled(m)
      PROVE  \E n \in 0..created : Settled(n)'
  <2>1. PICK h \in 0..created : Horizon(w, h)
    BY <1>2
  <2>2. m \in Nat /\ h \in Nat /\ sessions \subseteq Nat
    BY <1>1 DEF StoreTyped
  <2>3. PICK n \in {m, h} : m <= n /\ h <= n
    BY <2>2
  <2>4. Cardinality((sessions \cap (1..n)) \ foreign) <= SessionLimit
    <3>1. CASE n = m
      BY <1>7, <3>1 DEF Settled
    <3>2. CASE n = h
      <4>1. (sessions \cap (1..n)) \ foreign = (sessions \cap Scanned(w)) \ foreign
        BY <2>1, <3>2 DEF Horizon
      <4>2. Cardinality((sessions \cap Scanned(w)) \ foreign) <= SessionLimit
        BY <1>1, <1>2, CleanupLeavesFew
      <4> QED
        BY <4>1, <4>2
    <3> QED
      BY <3>1, <3>2
  <2>5. ASSUME NEW s \in sessions, s > n PROVE Unsettled(s)'
    <3>1. s > m /\ s > h
      BY <2>2, <2>3, <2>5
    <3>2. PICK v \in Writers : mine[v] = s /\ phase[v] = "second" /\ at[v] \in CleaningUp
      BY <1>7, <3>1 DEF Settled, Unsettled
    <3>3. v # w
      <4>1. CASE v = w
        <5>1. s <= h
          BY <2>1, <3>2, <4>1 DEF Horizon
        <5> QED
          BY <2>2, <3>1, <5>1
      <4> QED
        BY <4>1
    <3> QED
      BY <1>4, <3>2, <3>3 DEF Unsettled, Waits
  <2> QED
    BY <1>1, <2>3, <2>4, <2>5 DEF Settled
<1>8. FewSettled'
  BY <1>1, <1>7 DEF StoreInv, FewSettled
<1> QED
  BY <1>5, <1>6, <1>8 DEF StoreInv

\* Opening, writing and rotating do not touch the sessions.
LEMMA SinkKeeps ==
  ASSUME StoreInv, NEW w \in Writers,
         Start(w) \/ OpenSink(w) \/ WriteLine(w) \/ Rotate(w) \/ ReservePart(w)
  PROVE  StoreInv'
<1>1. StoreTyped
  BY DEF StoreInv
<1>2. PICK place \in {"scan", "running", "disabled"} : Goto(w, place)
  <2>1. CASE WriteLine(w)
    <3>1. at' = at /\ at[w] = "running"
      BY <2>1 DEF WriteLine
    <3>2. Goto(w, "running")
      BY <1>1, <3>1 DEF Goto, StoreTyped
    <3> QED
      BY <3>2
  <2> QED
    BY <2>1 DEF Start, OpenSink, Rotate, ReservePart, CreatePart
<1>3. place \in Places /\ place \notin {"examine", "delete", "rmdir"}
  BY DEF Places, CleaningUp
<1>4. /\ at[w] \in {"stopped", "open", "running", "reserve"}
      /\ UNCHANGED <<sessions, created, foreign, mine, found, lapsed>>
      /\ phase' = phase \/ phase' = [phase EXCEPT ![w] = "rotation"]
  BY DEF Start, OpenSink, WriteLine, Rotate, ReservePart
<1>5. at[w] \notin CleaningUp
  BY <1>4 DEF CleaningUp
<1> QED
  BY <1>1, <1>2, <1>3, <1>4, <1>5, InstanceElsewhere DEF StoreTyped

LEMMA HaltKeeps ==
  ASSUME StoreInv, NEW w \in Writers, Halt(w)
  PROVE  StoreInv'
<1>1. StoreTyped
  BY DEF StoreInv
<1>2. /\ "stopped" \in Places /\ "stopped" \notin {"examine", "delete", "rmdir"}
      /\ Goto(w, "stopped") /\ UNCHANGED <<sessions, created, foreign>>
  BY DEF Halt, Places
<1>3. /\ phase' \in [Writers -> {"first", "second", "rotation"}]
      /\ mine' \in [Writers -> 0..created]
      /\ DOMAIN found' = Writers /\ DOMAIN found'[w] = DOMAIN NothingYet
      /\ \A v \in Writers \ {w} :
           phase'[v] = phase[v] /\ mine'[v] = mine[v] /\ found'[v] = found[v]
  BY <1>1 DEF Halt, StoreTyped
<1>4. lapsed' \/ ((lapsed' <=> lapsed) /\ at[w] \notin CleaningUp)
  <2>1. lapsed' <=> lapsed \/ at[w] \notin {"running", "disabled"}
    BY DEF Halt
  <2>2. at[w] \in {"running", "disabled"} => at[w] \notin CleaningUp
    BY DEF CleaningUp
  <2> QED
    BY <2>1, <2>2
<1> QED
  BY <1>2, <1>3, <1>4, InstanceElsewhere

\* Somebody puts a file into a session.
LEMMA PlaceFileKeeps ==
  ASSUME StoreInv, NEW s \in Ids, PlaceFile(s)
  PROVE  StoreInv'
<1>1. /\ foreign' = foreign \cup {s} /\ s \in sessions
      /\ UNCHANGED <<sessions, created, at, phase, mine, found, lapsed>>
  BY DEF PlaceFile
<1>2. StoreTyped'
  BY <1>1 DEF StoreInv, StoreTyped
<1>3. NothingNew /\ \A v \in Writers : Waits(v) /\ StillUnsettled(v)
  BY <1>1 DEF NothingNew, Waits, StillUnsettled
<1>4. \A v \in Writers : CleanupKept(v)'
  <2>1. \A v \in Writers : CleanupKept(v)
    BY DEF StoreInv, CleanupsOK, CleanupKept
  <2> QED
    BY <1>3, <2>1, CleanupStands DEF StoreInv
<1>5. FewSettled'
  BY <1>1, <1>3, SettledStands DEF StoreInv
<1> QED
  BY <1>2, <1>4, <1>5 DEF StoreInv, CleanupsOK, CleanupKept

LEMMA UnionIsNoLarger ==
  ASSUME NEW S, IsFiniteSet(S), NEW T, IsFiniteSet(T)
  PROVE  /\ IsFiniteSet(S \cup T) /\ Cardinality(S \cup T) \in Nat
         /\ Cardinality(S \cup T) <= Cardinality(S) + Cardinality(T)
<1>1. /\ Cardinality(S) \in Nat /\ Cardinality(T) \in Nat
      /\ Cardinality(S \cap T) \in Nat
      /\ IsFiniteSet(S \cup T)
      /\ Cardinality(S \cup T) = Cardinality(S) + Cardinality(T) - Cardinality(S \cap T)
  BY FS_Union, FS_Intersection, FS_CardinalityType
<1>2. Cardinality(S \cup T) \in Nat
  BY <1>1, FS_CardinalityType
<1> QED
  BY ONLY <1>1, <1>2

\* The bound that follows: each session beyond the newest cleanup is that of an
\* instance on its own way to the end of one.
LEMMA FewSessions ==
  ASSUME StoreInv
  PROVE  SessionsBounded
<1> DEFINE Owners == {w \in Writers : phase[w] = "second"
                                      /\ at[w] \notin {"open", "running", "disabled", "stopped"}}
           Image == {mine[w] : w \in Owners}
<1>1. StoreTyped /\ FewSettled
  BY DEF StoreInv
<1>2. SUFFICES ASSUME NEW m \in 0..created, Settled(m)
               PROVE  Cardinality(sessions)
                        <= SessionLimit + Cardinality(foreign) + Cardinality(Owners)
  BY <1>1 DEF SessionsBounded, FewSettled
<1> DEFINE Old == (sessions \cap (1..m)) \ foreign
<1>3. IsFiniteSet(Owners) /\ Cardinality(Owners) \in Nat
  <2>1. Owners \in SUBSET Writers
    OBVIOUS
  <2> QED
    BY <2>1, StoreAssumption, FS_Subset, FS_CardinalityType
<1>4. IsFiniteSet(Image) /\ Cardinality(Image) \in Nat /\ Cardinality(Image) <= Cardinality(Owners)
  <2> DEFINE session == [w \in Owners |-> mine[w]]
  <2>1. session \in Surjection(Owners, Image)
    BY DEF Surjection
  <2>2. IsFiniteSet(Image) /\ Cardinality(Image) <= Cardinality(Owners)
    <3> HIDE DEF Owners, Image, session
    <3> QED
      BY <1>3, <2>1, FS_Surjection
  <2> QED
    BY <2>2, FS_CardinalityType
<1>5. sessions \subseteq (Old \cup foreign) \cup Image
  <2> SUFFICES ASSUME NEW s \in sessions, s \notin foreign, s \notin 1..m PROVE s \in Image
    OBVIOUS
  <2>1. s > m
    BY <1>1 DEF StoreTyped
  <2>2. PICK w \in Writers : mine[w] = s /\ phase[w] = "second" /\ at[w] \in CleaningUp
    BY <1>2, <2>1 DEF Settled, Unsettled
  <2>3. w \in Owners
    BY <2>2 DEF CleaningUp
  <2> QED
    BY <2>2, <2>3
<1>6. /\ IsFiniteSet(Old) /\ Cardinality(Old) \in Nat /\ Cardinality(Old) <= SessionLimit
      /\ IsFiniteSet(foreign) /\ Cardinality(foreign) \in Nat
      /\ Cardinality(sessions) \in Nat
  <2>1. Old \in SUBSET sessions /\ foreign \in SUBSET sessions /\ sessions \in SUBSET sessions
    BY <1>1 DEF StoreTyped
  <2>2. Cardinality(Old) <= SessionLimit
    BY <1>2 DEF Settled
  <2> HIDE DEF Old
  <2> QED
    BY <1>1, <2>1, <2>2, SessionsAreFinite
<1> HIDE DEF Old, Owners, Image
<1>7. /\ IsFiniteSet(Old \cup foreign) /\ Cardinality(Old \cup foreign) \in Nat
      /\ Cardinality(Old \cup foreign) <= Cardinality(Old) + Cardinality(foreign)
  BY <1>6, UnionIsNoLarger
<1>8. /\ IsFiniteSet((Old \cup foreign) \cup Image)
      /\ Cardinality((Old \cup foreign) \cup Image) \in Nat
      /\ Cardinality((Old \cup foreign) \cup Image)
           <= Cardinality(Old \cup foreign) + Cardinality(Image)
  BY <1>4, <1>7, UnionIsNoLarger
<1>9. Cardinality(sessions) <= Cardinality((Old \cup foreign) \cup Image)
  <2>1. sessions \in SUBSET ((Old \cup foreign) \cup Image)
    BY <1>5
  <2> QED
    BY <1>8, <2>1, FS_Subset
<1>10. SessionLimit \in Nat
  BY StoreAssumption
<1> QED
  BY ONLY <1>3, <1>4, <1>6, <1>7, <1>8, <1>9, <1>10

\* For any number of instances that start, clean up, write and end at any moment:
\* no session with a file of somebody else is deleted, and unless a cleanup was
\* cut short there are no more sessions than the limit, besides those and the ones
\* whose instances are still on their way.
THEOREM RetentionIsSafe == StoreSpec => []RetentionSafe
<1>1. StoreInit => StoreInv
  <2> SUFFICES ASSUME StoreInit PROVE StoreInv
    OBVIOUS
  <2>1. StoreTyped
    BY DEF StoreInit, StoreTyped, ForAll, Places
  <2>2. CleanupsOK
    BY DEF StoreInit, CleanupsOK, ForAll
  <2>3. FewSettled
    <3>1. (sessions \cap (1..0)) \ foreign = {} /\ created = 0 /\ sessions = {}
      BY DEF StoreInit
    <3>2. Cardinality({}) = 0 /\ SessionLimit \in Nat
      BY FS_EmptySet, StoreAssumption
    <3>3. Settled(0)
      BY <3>1, <3>2 DEF Settled
    <3> QED
      BY <3>1, <3>3 DEF FewSettled
  <2> QED
    BY <2>1, <2>2, <2>3 DEF StoreInv
<1>2. StoreInv /\ [StoreNext]_storeVars => StoreInv'
  <2>1. StoreInv /\ UNCHANGED storeVars => StoreInv'
    <3> SUFFICES ASSUME StoreInv, UNCHANGED storeVars PROVE StoreInv'
      OBVIOUS
    <3>1. StoreTyped'
      BY DEF StoreInv, StoreTyped, storeVars
    <3>2. NothingNew /\ (lapsed' <=> lapsed) /\ \A v \in Writers : Waits(v) /\ StillUnsettled(v)
      BY DEF storeVars, NothingNew, Waits, StillUnsettled
    <3>3. \A v \in Writers : CleanupKept(v)
      BY DEF StoreInv, CleanupsOK, CleanupKept
    <3>4. \A v \in Writers : CleanupKept(v)'
      BY <3>2, <3>3, CleanupStands DEF StoreInv
    <3>5. FewSettled'
      BY <3>2, SettledStands DEF StoreInv
    <3> QED
      BY <3>1, <3>4, <3>5 DEF StoreInv, CleanupsOK, CleanupKept
  <2> QED
    BY <2>1, ScanKeeps, ExamineKeeps, RetentionDoneKeeps, RemoveFilesKeeps, RemoveDirectoryKeeps,
       CreateSessionKeeps, SinkKeeps, HaltKeeps, PlaceFileKeeps DEF StoreNext
<1>3. StoreInv => RetentionSafe
  BY FewSessions DEF RetentionSafe, ForeignFilesKept, StoreInv, StoreTyped
<1> QED
  BY <1>1, <1>2, <1>3, PTL DEF StoreSpec

=============================================================================
