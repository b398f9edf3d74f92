------------------------------ MODULE LinuxGpu ------------------------------
(* The GPU page on Linux: the cards under /sys/class/drm, with what NVML and  *)
(* Vulkan say of the device in the same PCI slot, and their graphs.          *)
EXTENDS SampleHistory, FiniteSets

CONSTANTS
  Cards,          \* names of DRM cards
  GraphLength     \* HISTORY_CAPACITY

ASSUME GraphAssumption == GraphLength \in Nat

CardMemories == {"dedicated", "shared"}
NvidiaEngines == {"memory", "video"}  \* encoding and decoding are alike
Engines == {"overall"} \cup NvidiaEngines

VARIABLES
  nvml,     \* whether NVML could be loaded when the program began
  vulkan,   \* the cards whose slot Vulkan had a device for then
  gpuRows,  \* the last snapshot: where a card's name is from, and its detail_error
  graphs,   \* histories: by card, the graph of each engine and each memory
  lived     \* history: for how many samples on end an engine was listed, up to GraphLength

gpuVars == <<nvml, vulkan, gpuRows, graphs, lived>>

(***************************************************************************)
(* GpuSampler::new: both libraries are tried once                          *)
(***************************************************************************)
\* Nvml::load needs the library, all of its symbols and its initialisation.
NvmlLoad(present) == present = {"library", "symbols", "init"}

\* discover: devices that do not tell their slot are passed over; an error of
\* any device, and a loader that is too old, leaves no device at all.
Discovered(loader, broken, told) == IF ~loader \/ broken # {} THEN {} ELSE told

GpuInit ==
  /\ \E present \in SUBSET {"library", "symbols", "init"} : nvml = NvmlLoad(present)
  /\ \E loader \in BOOLEAN, broken, told \in SUBSET Cards : vulkan = Discovered(loader, broken, told)
  /\ gpuRows = <<>>
  /\ graphs = <<>>
  /\ lived = [c \in Cards |-> [e \in Engines |-> 0]]

(***************************************************************************)
(* GpuSampler::sample                                                      *)
(***************************************************************************)
\* What sysfs and NVML tell of a card (external): whether its slot is known, the
\* values sysfs has in range (those of shared memory are like those of dedicated
\* memory), whether NVML finds a device in the slot, which of its queries
\* succeed, and which of their values exceed 100 percent.
CardReadings ==
  {r \in [slot : BOOLEAN, nvidia : BOOLEAN, values : SUBSET {"dedicated", "overall"},
          handle : BOOLEAN, queries : SUBSET {"rates", "codecs", "memory"},
          beyond : SUBSET {"memory"}] :
     /\ r.handle => r.slot /\ r.nvidia
     /\ ~r.handle => r.queries = {} /\ r.beyond = {}}

\* The device in the slot is asked, never one of a number or a name.
NvmlAnswers(r) == nvml /\ r.handle

NvmlSample(r) ==
  UNION {IF "rates" \in r.queries THEN {"overall", "memory"} \ r.beyond ELSE {},
         IF "codecs" \in r.queries THEN {"video"} ELSE {},
         IF "memory" \in r.queries THEN {"dedicated"} ELSE {}}

\* Where NVML has no value, that of sysfs stays.
ValuesOf(r) == IF NvmlAnswers(r) THEN r.values \cup NvmlSample(r) ELSE r.values

EnginesOf(r) == {"overall"} \cup (ValuesOf(r) \cap NvidiaEngines)

RowOf(c, r) ==
  [named |-> IF NvmlAnswers(r) THEN "nvml" ELSE IF r.slot /\ c \in vulkan THEN "vulkan" ELSE "driver",
   error |-> IF r.nvidia /\ ~NvmlAnswers(r) THEN "nvml"
             ELSE IF ValuesOf(r) \cap (CardMemories \cup {"overall"}) = {} THEN "unsupported"
             ELSE "none"]

GraphOf(c, e) ==
  IF c \in DOMAIN graphs /\ e \in DOMAIN graphs[c] THEN graphs[c][e] ELSE <<>>

\* Only graphs of engines the card still has are kept; a missing value leaves a
\* graph as it is.  The graphs of the memories stay as long as the card.
Extended(c, r) ==
  [e \in EnginesOf(r) \cup CardMemories |->
    IF e \in ValuesOf(r) THEN Push(GraphOf(c, e), GraphLength, "value") ELSE GraphOf(c, e)]

\* Mutant: cards that are gone keep their graphs.
RetainedForever(present, new) ==
  [c \in present \cup DOMAIN graphs |-> IF c \in present THEN new[c] ELSE graphs[c]]

\* histories.retain: nothing is left of a card that is not listed.
Retained(present, new) == [c \in present |-> new[c]]

\* If the directory cannot be listed the sample fails and changes nothing.
SampleGpu(present, reading) ==
  /\ gpuRows' = [c \in present |-> RowOf(c, reading[c])]
  /\ graphs' = Retained(present, [c \in present |-> Extended(c, reading[c])])
  /\ lived' = [c \in Cards |-> [e \in Engines |->
                IF c \notin present THEN 0
                ELSE IF e \notin EnginesOf(reading[c]) THEN 0
                ELSE IF lived[c][e] = GraphLength THEN GraphLength ELSE lived[c][e] + 1]]
  /\ UNCHANGED <<nvml, vulkan>>

GpuNext == \E present \in SUBSET Cards : \E reading \in [present -> CardReadings] : SampleGpu(present, reading)

GpuSpec == GpuInit /\ [][GpuNext]_gpuVars

-----------------------------------------------------------------------------
(* Properties *)

\* A graph never shows more values than the number of samples on end for which
\* its card and its engine have been listed: a card that returns, or an engine
\* NVML reports again, starts with an empty graph.
GraphsStartAnew ==
  \A c \in DOMAIN graphs : \A e \in DOMAIN graphs[c] \cap Engines : Len(graphs[c][e]) <= lived[c][e]

=============================================================================
