--------------------------- MODULE BundleArchive ---------------------------
(* export_bundle below the flush: the log parts are listed and copied into a *)
(* ZIP32 archive that is written from front to back, while the writer thread *)
(* goes on appending to a part, other instances delete parts, and somebody   *)
(* may create a file with the name chosen for the bundle.                    *)
(*                                                                           *)
(* The archive is a sequence of blocks of one unit each: a fixed record, or  *)
(* as many data; MaxOffset stands for u32::MAX.                              *)
EXTENDS Naturals, FiniteSets, SequencesExt

CONSTANTS
  MaxOffset,   \* u32::MAX
  MaxEntries,  \* u16::MAX
  MaxListed,   \* bound: log parts
  MaxLength    \* bound: length of a part

ASSUME ArchiveAssumption ==
  {MaxOffset, MaxEntries, MaxListed, MaxLength} \subseteq Nat

Manifest == 0

VARIABLES
  partSize,     \* the parts created so far: their lengths
  deleted,      \* those that are gone
  destination,  \* who created the destination: nobody, other or bundle
  foreignFile,  \* history: somebody else did
  stage,        \* where export_bundle is
  queue,        \* entries to add, in order: <<name, length to take>>
  disk,         \* the blocks of the file
  position,     \* StoredZipWriter::position
  entries,      \* StoredZipWriter::entries
  adding        \* the locals of add_reader

archiveVars == <<partSize, deleted, destination, foreignFile, stage, queue, disk, position, entries, adding>>

Existing == DOMAIN partSize \ deleted

NoEntry == [name |-> Manifest, limit |-> 0, offset |-> 0, size |-> 0]

ArchiveInit ==
  /\ partSize = <<>>
  /\ deleted = {}
  /\ destination = "nobody"
  /\ foreignFile = FALSE
  /\ stage = "idle"
  /\ queue = <<>>
  /\ disk = <<>>
  /\ position = 0
  /\ entries = <<>>
  /\ adding = NoEntry

(***************************************************************************)
(* What others do meanwhile                                                *)
(***************************************************************************)
\* The writer thread appends to the last part or begins another.
PartGrows ==
  /\ LET last == Len(partSize)
     IN partSize' \in
          {Append(partSize, 0)} \cup (IF last = 0 THEN {} ELSE {[partSize EXCEPT ![last] = @ + 1]})
  /\ Len(partSize') <= MaxListed /\ \A p \in 1..Len(partSize') : partSize'[p] <= MaxLength
  /\ UNCHANGED <<deleted, destination, foreignFile, stage, queue, disk, position, entries, adding>>

PartDeleted(p) ==
  /\ p \in Existing
  /\ deleted' = deleted \cup {p}
  /\ UNCHANGED <<partSize, destination, foreignFile, stage, queue, disk, position, entries, adding>>

OtherCreates ==
  /\ destination = "nobody"
  /\ destination' = "other"
  /\ foreignFile' = TRUE
  /\ UNCHANGED <<partSize, deleted, stage, queue, disk, position, entries, adding>>

(***************************************************************************)
(* export_bundle                                                           *)
(***************************************************************************)
\* The destination must not exist; parts are listed with their lengths.
ListParts ==
  /\ stage = "idle"
  /\ destination = "nobody"
  /\ Existing # {}
  /\ stage' = "create"
  /\ queue' = <<<<Manifest, 1>>>>
                \o [i \in 1..Cardinality(Existing) |->
                     LET p == SetToSortSeq(Existing, <)[i] IN <<p, partSize[p]>>]
  /\ UNCHANGED <<partSize, deleted, destination, foreignFile, disk, position, entries, adding>>

\* Mutant: an existing file is truncated.
CreateBundleOverwrites ==
  /\ stage = "create"
  /\ stage' = "add"
  /\ destination' = "bundle"
  /\ UNCHANGED <<partSize, deleted, foreignFile, queue, disk, position, entries, adding>>

\* create_new: a file created since the test is left alone.
CreateBundle ==
  /\ stage = "create"
  /\ IF destination = "nobody"
     THEN stage' = "add" /\ destination' = "bundle"
     ELSE stage' = "failed" /\ UNCHANGED destination
  /\ UNCHANGED <<partSize, deleted, foreignFile, queue, disk, position, entries, adding>>

\* Any error after that removes the file.
Abandon ==
  /\ stage' = "failed"
  /\ destination' = "nobody"
  /\ UNCHANGED <<queue, disk, position, entries, adding>>

\* Bytes go to the file and are counted.
WriteBlock(block) ==
  /\ disk' = Append(disk, block)
  /\ position' = position + 1

\* Mutant: the offset is taken behind the header.
BeginEntryLate ==
  /\ stage = "add"
  /\ queue # <<>>
  /\ stage' = "copy"
  /\ WriteBlock([kind |-> "header", name |-> Head(queue)[1]])
  /\ adding' = [name |-> Head(queue)[1], limit |-> Head(queue)[2], offset |-> position + 1, size |-> 0]
  /\ UNCHANGED <<partSize, deleted, destination, foreignFile, queue, entries>>

\* The part is opened, the number of entries and the offset checked, and the
\* local header written.
BeginEntry ==
  /\ stage = "add"
  /\ queue # <<>>
  /\ LET name == Head(queue)[1]
     IN IF \/ name # Manifest /\ name \notin Existing
           \/ Len(entries) = MaxEntries
           \/ position > MaxOffset
        THEN Abandon
        ELSE /\ stage' = "copy"
             /\ WriteBlock([kind |-> "header", name |-> name])
             /\ adding' = [name |-> name, limit |-> Head(queue)[2], offset |-> position, size |-> 0]
             /\ UNCHANGED <<destination, queue, entries>>
  /\ UNCHANGED <<partSize, deleted, foreignFile>>

\* No more than the listed length is read (take), and a file that is open can
\* be read also when its name is gone.
CopyBytes ==
  /\ stage = "copy"
  /\ adding.size < adding.limit
  /\ IF adding.size + 1 > MaxOffset
     THEN Abandon
     ELSE /\ WriteBlock([kind |-> "data", name |-> adding.name])
          /\ adding' = [adding EXCEPT !.size = @ + 1]
          /\ UNCHANGED <<stage, destination, queue, entries>>
  /\ UNCHANGED <<partSize, deleted, foreignFile>>

\* The data descriptor.
EndEntry ==
  /\ stage = "copy"
  /\ adding.size = adding.limit
  /\ stage' = "add"
  /\ WriteBlock([kind |-> "descriptor", name |-> adding.name])
  /\ entries' = Append(entries, [name |-> adding.name, offset |-> adding.offset, size |-> adding.size])
  /\ queue' = Tail(queue)
  /\ adding' = NoEntry
  /\ UNCHANGED <<partSize, deleted, destination, foreignFile>>

\* The central directory and its end.
Finish ==
  /\ stage = "add"
  /\ queue = <<>>
  /\ IF position + Len(entries) > MaxOffset \/ Len(entries) > MaxEntries
     THEN Abandon
     ELSE /\ stage' = "ok"
          /\ disk' = disk \o [i \in 1..Len(entries) |->
                               [kind |-> "central", name |-> entries[i].name]]
                          \o <<[kind |-> "end", name |-> Manifest]>>
          /\ position' = position + Len(entries) + 1
          /\ UNCHANGED <<destination, queue, entries, adding>>
  /\ UNCHANGED <<partSize, deleted, foreignFile>>

\* Any write, read or sync may fail.
ArchiveFails ==
  /\ stage \in {"add", "copy"}
  /\ Abandon
  /\ UNCHANGED <<partSize, deleted, foreignFile>>

ArchiveNext ==
  \/ PartGrows
  \/ \E p \in 1..MaxListed : PartDeleted(p)
  \/ OtherCreates
  \/ ListParts \/ CreateBundle
  \/ BeginEntry \/ CopyBytes \/ EndEntry \/ Finish \/ ArchiveFails

ArchiveSpec == ArchiveInit /\ [][ArchiveNext]_archiveVars

-----------------------------------------------------------------------------
(* Properties *)

\* At offset i of a file is the local header of entry e, behind it exactly the
\* data of e, its descriptor, and the next header or the directory.
Readable(file, i, e) ==
  /\ i + e.size + 3 \in DOMAIN file
  /\ file[i + 1] = [kind |-> "header", name |-> e.name]
  /\ \A j \in 1..e.size : file[i + 1 + j] = [kind |-> "data", name |-> e.name]
  /\ file[i + e.size + 2] = [kind |-> "descriptor", name |-> e.name]
  /\ file[i + e.size + 3].kind \in {"header", "central"}

\* A bundle that was reported as written can be read back from its central
\* directory alone: every offset fits into 32 bits and is that of the entry.
ArchiveReadable ==
  stage = "ok" =>
    /\ position = Len(disk) /\ position <= MaxOffset + 1
    /\ \A n \in DOMAIN entries :
         entries[n].offset <= MaxOffset /\ Readable(disk, entries[n].offset, entries[n])

\* A file somebody else created under the chosen name survives, whatever the
\* export does, also one created between the test and the creation; and an
\* export that failed leaves no file of its own behind.
DestinationKept ==
  /\ foreignFile => destination = "other"
  /\ stage = "failed" => destination # "bundle"

\* An export either writes a readable bundle or leaves everything as it was.
ExportSound == ArchiveReadable /\ DestinationKept

=============================================================================
