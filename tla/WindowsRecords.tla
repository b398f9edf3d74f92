--------------------------- MODULE WindowsRecords ---------------------------
(* How the Windows provider reads what the system writes into a buffer: the   *)
(* agreement on its size, while what there is to report grows, and the walk   *)
(* over records that say themselves how long they are and where their names   *)
(* and masks lie.  Nothing in them is taken on trust.                        *)
(*                                                                           *)
(* A buffer is counted in words; what a word holds is picked when it is read, *)
(* so that every content is covered.  The formats: "labels", "topology" and   *)
(* "caches", records that tile the buffer, and "times", a plain array (all in  *)
(* cpu.rs); "process", records linked by offsets (processes.rs); "array",     *)
(* counted items with names behind them (pdh.rs, gpu.rs).                     *)
EXTENDS Integers, FiniteSets, FiniteSetsExt

CONSTANTS
  MaxNeeded,    \* bound: words the system may want to report
  BufferLimit,  \* MAX_SYSTEM_PROCESS_BUFFER_BYTES, MAX_PDH_ARRAY_BYTES
  FirstLength,  \* the first buffer of a process snapshot or of processor times
  Logical       \* the logical processors that cores are made of

ASSUME RecordAssumption == {MaxNeeded, BufferLimit, FirstLength} \subseteq Nat

VARIABLES
  format,   \* the kind of buffer, or "none"
  step,     \* "probe", "fill", "walk", "done" or "failed"
  needed,   \* words the system has to report now
  length,   \* words allocated
  live,     \* words the system said it wrote
  items,    \* array: how many items it said it wrote
  offset,   \* where the walk is: a word, for an array an item
  touched,  \* the words the last step of the walk read
  labelled  \* labels: the processors that have one

recordVars == <<format, step, needed, length, live, items, offset, touched, labelled>>

Header == 1      \* RELATIONSHIP_HEADER_SIZE
Processor == 2   \* PROCESSOR_RELATIONSHIP: the counts and one mask
GroupCounts == 1 \* GROUP_RELATIONSHIP
Cache == 2       \* CACHE_RELATIONSHIP
Fixed == 2       \* SYSTEM_PROCESS_INFORMATION
Item == 1        \* PDH_FMT_COUNTERVALUE_ITEM_W

Relationships == {"labels", "topology", "caches"}
Probed == Relationships \cup {"array"}

RecordInit ==
  /\ format = "none" /\ step = "done"
  /\ needed \in 1..MaxNeeded
  /\ length = 0 /\ live = 0 /\ items = 0 /\ offset = 0
  /\ touched = {} /\ labelled = {}

\* (external) Processors, processes and counters come and go.
SystemChanges ==
  /\ step \in {"probe", "fill"}
  /\ needed' \in 0..MaxNeeded
  /\ UNCHANGED <<format, step, length, live, items, offset, touched, labelled>>

BeginQuery(f) ==
  /\ step \in {"done", "failed"}
  /\ format' = f
  /\ step' = IF f \in Probed THEN "probe" ELSE "fill"
  /\ length' = IF f \in Probed THEN 0 ELSE FirstLength
  /\ live' = 0 /\ items' = 0 /\ offset' = 0
  /\ touched' = {} /\ labelled' = {}
  /\ UNCHANGED needed

Ends(outcome) ==
  /\ step' = outcome
  /\ UNCHANGED <<format, needed, length, live, items, offset, touched, labelled>>

(***************************************************************************)
(* The size                                                                *)
(***************************************************************************)
ProbeSize ==
  /\ step = "probe"
  /\ \/ needed = 0 /\ (Ends("failed") \/ (format = "array" /\ Ends("done")))
     \/ format = "array" /\ needed > BufferLimit /\ Ends("failed")
     \/ /\ needed > 0 /\ (format = "array" => needed <= BufferLimit)
        /\ length' = needed
        /\ step' = "fill"
        /\ UNCHANGED <<format, needed, live, items, offset, touched, labelled>>

\* The system writes what it has and says how many words and items that was; an
\* answer that cannot be true is refused.
Fill ==
  /\ step = "fill" /\ format # "times" /\ needed <= length
  /\ \E said \in {needed, 0, length + 1}, count \in 0..MaxNeeded :
       LET words == IF said = 0 /\ format = "process" THEN length ELSE said
       IN IF words > length \/ (words = 0 /\ format # "array")
             \/ (format = "array" /\ count * Item > words)
          THEN Ends("failed")
          ELSE /\ live' = words
               /\ items' = IF format = "array" THEN count ELSE 0
               /\ step' = "walk"
               /\ UNCHANGED <<format, needed, length, offset, touched, labelled>>

\* There is more to report than when the size was taken.
FillAgain ==
  /\ step = "fill" /\ format # "times" /\ needed > length
  /\ \/ format = "array" /\ Ends("failed")
     \/ LET larger == IF format = "process" THEN Max({needed, 2 * length}) ELSE needed
        IN /\ format # "array"
           /\ IF format = "process" /\ larger > BufferLimit THEN Ends("failed")
              ELSE /\ length' = larger
                   /\ UNCHANGED <<format, step, needed, live, items, offset, touched, labelled>>

\* query_processor_performance: as many processors as were written, all of the
\* buffer if the system does not say, none if it names no larger size.
FillTimes ==
  /\ step = "fill" /\ format = "times"
  /\ \E said \in {needed, 0, length + 1} :
       IF needed <= length
       THEN IF said > length THEN Ends("failed")
            ELSE /\ live' = IF said = 0 THEN length ELSE said
                 /\ touched' = 0..(live' - 1)
                 /\ step' = IF live' = 0 THEN "failed" ELSE "done"
                 /\ UNCHANGED <<format, needed, length, items, offset, labelled>>
       ELSE IF said <= length THEN Ends("failed")
            ELSE /\ length' = said
                 /\ UNCHANGED <<format, step, needed, live, items, offset, touched, labelled>>

(***************************************************************************)
(* The walk                                                                *)
(***************************************************************************)
Records ==
  [size : 0..(MaxNeeded + 1), kind : {"core", "group", "cache"}, groups : 0..2,
   siblings : SUBSET Logical]

\* relationship_record
Framed(r) == offset + Header <= live /\ r.size >= Header /\ offset + r.size <= live

\* Mutant: the masks of a core are not compared with the size of its record.
MasksFitUnchecked(r) == r.size >= Header + Processor /\ r.groups > 0

\* ensure_relationship_payload and processor_group_masks
MasksFit(r) == r.size >= Header + Processor /\ r.groups > 0 /\ Header + 1 + r.groups <= r.size

\* query_logical_cpu_labels: each processor of a core gets one label.
LabelsAccept(r) ==
  r.kind = "core" => MasksFit(r) /\ r.siblings # {} /\ r.siblings \cap labelled = {}

\* query_topology
TopologyAccepts(r) ==
  /\ r.kind = "core" => MasksFit(r)
  /\ r.kind = "group" => r.size >= Header + GroupCounts

\* query_caches
CachesAccept(r) == r.kind = "cache" => r.size >= Header + Cache

Accepted(r) ==
  CASE format = "labels" -> LabelsAccept(r)
    [] format = "topology" -> TopologyAccepts(r)
    [] format = "caches" -> CachesAccept(r)

\* What is read of a record besides its header.
Payload(r) ==
  CASE r.kind = "core" /\ format # "caches" -> 1 + r.groups
    [] r.kind = "group" /\ format = "topology" -> GroupCounts
    [] r.kind = "cache" /\ format = "caches" -> Cache
    [] OTHER -> 0

ReadRelationship ==
  /\ step = "walk" /\ format \in Relationships /\ offset < live
  /\ \E r \in Records :
       IF ~Framed(r) \/ ~Accepted(r) THEN Ends("failed")
       ELSE /\ offset' = offset + r.size
            /\ touched' = offset..(offset + Header + Payload(r) - 1)
            /\ labelled' = IF format = "labels" /\ r.kind = "core" THEN labelled \cup r.siblings
                          ELSE labelled
            /\ UNCHANGED <<format, step, needed, length, live, items>>

\* The labels must be as many as there are processors now.
EndRelationships ==
  /\ step = "walk" /\ format \in Relationships /\ offset >= live
  /\ \E active \in 1..Cardinality(Logical) :
       Ends(IF format = "labels" /\ Cardinality(labelled) # active THEN "failed" ELSE "done")

\* parse_system_process_metrics and process_image_name: a fixed part, a name
\* somewhere in the buffer, and the distance to the next record.
ReadProcess ==
  /\ step = "walk" /\ format = "process"
  /\ \E next \in 0..MaxNeeded, name \in -1..MaxNeeded, units \in 0..2 :
       IF offset + Fixed > live \/ (units > 0 /\ (name < 0 \/ name + units > live))
       THEN Ends("failed")
       ELSE /\ touched' = offset..(offset + Fixed - 1) \cup name..(name + units - 1)
            /\ \/ next = 0 /\ step' = "done" /\ UNCHANGED offset
               \/ next > 0 /\ next < Fixed /\ step' = "failed" /\ UNCHANGED offset
               \/ next >= Fixed /\ offset' = offset + next
                  /\ step' = IF offset + next >= live THEN "failed" ELSE "walk"
            /\ UNCHANGED <<format, needed, length, live, items, labelled>>

\* The name of an item starts in the buffer and ends there with a zero.  For
\* processors a bad name or value fails the query, for graphics it skips the item.
ReadItem ==
  /\ step = "walk" /\ format = "array" /\ offset < items
  /\ \E name \in -1..MaxNeeded, end \in 0..MaxNeeded, valid, skip \in BOOLEAN :
       LET named == name >= 0 /\ name < live
           ended == named /\ end \in name..(live - 1)
       IN IF ~(ended /\ valid) /\ ~skip THEN Ends("failed")
          ELSE /\ offset' = offset + 1
               /\ touched' = (offset * Item)..((offset + 1) * Item - 1)
                               \cup IF named THEN name..(IF ended THEN end ELSE live - 1) ELSE {}
               /\ UNCHANGED <<format, step, needed, length, live, items, labelled>>

EndItems == step = "walk" /\ format = "array" /\ offset >= items /\ Ends("done")

RecordNext ==
  \/ SystemChanges
  \/ \E f \in Probed \cup {"process", "times"} : BeginQuery(f)
  \/ ProbeSize \/ Fill \/ FillAgain \/ FillTimes
  \/ ReadRelationship \/ EndRelationships
  \/ ReadProcess
  \/ ReadItem \/ EndItems

RecordSpec == RecordInit /\ [][RecordNext]_recordVars

-----------------------------------------------------------------------------
(* Properties *)

\* Whatever the system writes, and whatever changed since the size was taken,
\* nothing is read beyond the words it wrote, and those lie in the allocation;
\* the walk moves on with every record, so that it ends, and is taken for whole
\* only if the records tile the buffer to its last word.
ReadsStayInBounds ==
  [][/\ touched' \subseteq 0..(live' - 1)
     /\ live' <= length'
     /\ step = "walk" /\ step' = "walk" => offset' > offset
     /\ step = "walk" /\ step' = "done" /\ format \in Relationships => offset = live
    ]_recordVars

=============================================================================
