------------------------------ MODULE UiSettings ------------------------------
(* What becomes of a settings file after it is read: the layouts of earlier    *)
(* schemas are migrated, and sizes and columns no window can have are put       *)
(* right.  Lengths are whole numbers or NoNumber (an infinity or a NaN).  The  *)
(* columns are a function from positions, those of the file counted from 1, and *)
(* the order of columns is that of their positions: what is dropped leaves a    *)
(* gap and what is put first has position 0.                                    *)
EXTENDS Integers, FiniteSets, Functions

CONSTANTS
  NoNumber,  \* a length that is not finite
  Unset      \* None of Option

\* ColumnId
Columns ==
  {"Task", "Status", "WindowStation", "Desktop", "ImageName", "Pid", "UserName", "SessionId",
   "Cpu", "CpuTime", "MemoryUsage", "MemoryDelta", "PageFaults", "PageFaultsDelta",
   "VirtualMemory", "PagedPool", "NonPagedPool", "BasePriority", "Nice", "HandleCount",
   "FileDescriptorCount", "ThreadCount", "Cgroup"}

CurrentSchema == 4
OriginalWidth == 396
OriginalHeight == 401
PreviousWidth == 600
PreviousHeight == 430

Lengths == Int \cup {NoNumber}

ASSUME SettingsValuesAssumption ==
  /\ NoNumber \notin Int
  /\ Unset \notin Lengths

Layout(column, width) == [column |-> column, width |-> width, visible |-> TRUE]
Layouts == [column : Columns, width : Lengths, visible : BOOLEAN]

\* The fields normalize looks at; the others are kept as they are.
Settings(Positions) ==
  [schema_version : Nat, one_graph_per_cpu : BOOLEAN,
   x : Lengths \cup {Unset}, y : Lengths \cup {Unset}, width : Lengths, height : Lengths,
   process_columns : UNION {[S -> Layouts] : S \in SUBSET Positions}]

PreV4Columns ==
  <<Layout("ImageName", 107), Layout("Pid", 50), Layout("Cpu", 35), Layout("CpuTime", 70),
    Layout("MemoryUsage", 70), Layout("UserName", 107)>>

DefaultColumns ==
  <<Layout("ImageName", 107), Layout("UserName", 107), Layout("SessionId", 60),
    Layout("Cpu", 35), Layout("MemoryUsage", 70)>>

(***************************************************************************)
(* The steps of normalize                                                  *)
(***************************************************************************)
\* The size earlier versions wrote by default is not one the user has chosen.
MigratedSize(s) ==
  s.schema_version < CurrentSchema /\ s.width = PreviousWidth /\ s.height = PreviousHeight

AtLeast(length, least) == IF length = NoNumber \/ length < least THEN least ELSE length

Width(s)  == IF MigratedSize(s) THEN OriginalWidth ELSE AtLeast(s.width, OriginalWidth)
Height(s) == IF MigratedSize(s) THEN OriginalHeight ELSE AtLeast(s.height, OriginalHeight)

FiniteOrUnset(coordinate) == IF coordinate = NoNumber THEN Unset ELSE coordinate

MigratedColumns(s) ==
  IF s.schema_version < 4 /\ s.process_columns = PreV4Columns
  THEN DefaultColumns ELSE s.process_columns

Shows(layout) == layout.width # NoNumber /\ layout.width \in 24..1000

\* retain: of the columns of a possible width, the first of each kind.
Retained(columns) ==
  {i \in DOMAIN columns :
     /\ Shows(columns[i])
     /\ \A j \in DOMAIN columns :
          j < i /\ Shows(columns[j]) => columns[j].column # columns[i].column}

WithImageName(columns) ==
  IF \E i \in DOMAIN columns : columns[i].column = "ImageName" THEN columns
  ELSE [i \in DOMAIN columns \cup {0} |->
          IF i = 0 THEN Layout("ImageName", 107) ELSE columns[i]]

NormalizedColumns(columns) == WithImageName(Restrict(columns, Retained(columns)))

Normalize(s) ==
  [schema_version |-> CurrentSchema,
   one_graph_per_cpu |-> s.schema_version < 3 \/ s.one_graph_per_cpu,
   x |-> FiniteOrUnset(s.x), y |-> FiniteOrUnset(s.y),
   width |-> Width(s), height |-> Height(s),
   process_columns |-> NormalizedColumns(MigratedColumns(s))]

(***************************************************************************)
(* What normalized settings are                                            *)
(***************************************************************************)
\* Settings a window can be built from: every column once and of a possible
\* width, the name of the image among them, and no window below the original size.
Usable(s) ==
  /\ s.schema_version = CurrentSchema
  /\ s.x # NoNumber /\ s.y # NoNumber
  /\ s.width \in Int /\ s.width >= OriginalWidth
  /\ s.height \in Int /\ s.height >= OriginalHeight
  /\ \A i \in DOMAIN s.process_columns :
       /\ s.process_columns[i].width \in 24..1000
       /\ \A j \in DOMAIN s.process_columns :
            s.process_columns[i].column = s.process_columns[j].column => i = j
  /\ \E i \in DOMAIN s.process_columns : s.process_columns[i].column = "ImageName"

\* A column the user has laid out is still there, in its place and as it was,
\* unless it is the repetition of one.
KeepsChoices(before, after) ==
  \A i \in DOMAIN before : Shows(before[i]) =>
    \E j \in DOMAIN before \cap DOMAIN after :
      j <= i /\ after[j] = before[j] /\ before[j].column = before[i].column

=============================================================================
