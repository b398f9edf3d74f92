------------------------------- MODULE MCLinux -------------------------------
(* The Linux provider for TLC.  Its components share no state and are called *)
(* one at a time by the sampling worker, so each behaviour is one of a single *)
(* component while the others stay as they begin.                             *)
EXTENDS LinuxTermination, NetworkSampler, ProcessorSampler, ProcessSampler, Toplevels,
        X11Windows, IconCache, LinuxGpu, WindowProvider

CONSTANTS
  MaxGone,   \* bound: processes of the table that have gone
  MaxActedOn \* bound: windows with actions

VARIABLE component

Reading(user, system, interrupt, idle, steal) ==
  [user |-> user, system |-> system, interrupt |-> interrupt, idle |-> idle, steal |-> steal]

\* Each counter goes back once while the total grows.  The stolen time does so from
\* the first to the fourth: there user and kernel time exceed the busy time.
MCReadings ==
  {Reading(0, 0, 0, 0, 1), Reading(1, 0, 0, 1, 0), Reading(1, 0, 1, 0, 2),
   Reading(1, 2, 0, 0, 0), Reading(0, 2, 0, 1, 2)}

Cpu(id, package, die, module, core, class) ==
  [id |-> id, package |-> package, die |-> die, module |-> module, core |-> core, class |-> class]

\* Two threads of one core, of which only one says its class, and a core of
\* another die with a module.
MCProcessors ==
  {Cpu(0, 0, 0, Unknown, 0, 2), Cpu(1, 0, 0, Unknown, 0, Unknown), Cpu(2, 0, 1, 0, 0, 1)}

\* Private first-level caches, one whose sharers are not listed, one for all, and
\* one without a size.
Cache(level, size, sharers, inSysfs) ==
  [level |-> level, size |-> size, sharers |-> sharers, listed |-> inSysfs]

MCCaches ==
  {Cache(1, 1, {0, 1}, TRUE), Cache(1, 1, {2}, TRUE), Cache(2, 2, {0, 1}, FALSE),
   Cache(2, 2, {2}, TRUE), Cache(3, 4, {0, 1, 2}, TRUE), Cache(4, Unknown, {0, 1, 2}, TRUE)}

\* No image, one, one of no pixels, one cut off, one whose area overflows, and two
\* of different sizes.
MCIconProperties ==
  {<<>>, <<1, 1, 9>>, <<0, 1>>, <<2, 1, 9>>, <<4, 4, 9>>, <<1, 1, 9, 1, 2, 9, 9>>, <<2, 1, 9, 9, 4, 4>>}

File(length, width, height, whole, encoded) ==
  [bytes |-> length, width |-> width, height |-> height, channels |-> 4, whole |-> whole,
   encoded |-> encoded]

\* Three that can be used, and files that are too large, too wide, empty and broken.
MCIconFiles ==
  {File(1, 1, 1, TRUE, 1), File(2, 2, 1, TRUE, 2), File(2, 2, 2, TRUE, 3),
   File(3, 1, 1, TRUE, 1), File(1, 3, 1, TRUE, 1), File(1, 0, 1, TRUE, 1), File(1, 1, 1, FALSE, 1)}

\* What rows say and what actions reach are looked at apart: clients come and go,
\* and actions are made, where there are few windows and no text and no icon that
\* uses up the budget.
FewWindows == {w \in XWindows : w <= MaxActedOn}
NothingToRead ==
  /\ remaining' \in {Budget, Budget - Cardinality(listed')}
  /\ xlive' \subseteq FewWindows
  /\ \A w \in XWindows \ FewWindows : xrange'[w] = xrange[w]

LinuxInit ==
  /\ Init /\ NetworkInit /\ ProcessorInit /\ ProcessInit /\ ToplevelInit
  /\ XInit /\ IconInit /\ GpuInit /\ ProviderInit
  /\ component \in {"termination", "network", "processor", "processes", "toplevels",
                    "x11", "x11 actions", "icons", "gpu", "provider"}
  /\ component # "gpu" => ~nvml /\ vulkan = {}
  /\ component # "network" => present = {} /\ bytes = PerCounter(0)
  /\ xlive = IF component = "x11 actions" THEN FewWindows ELSE XWindows
  /\ xclient[1] = 1

Only(name) ==
  /\ component = name
  /\ UNCHANGED component
  /\ name # "termination" => UNCHANGED vars
  /\ name # "network" => UNCHANGED networkVars
  /\ name # "processor" => UNCHANGED processorVars
  /\ name # "processes" => UNCHANGED processVars
  /\ name # "toplevels" => UNCHANGED toplevelVars
  /\ name \notin {"x11", "x11 actions"} => UNCHANGED xVars
  /\ name # "icons" => UNCHANGED iconVars
  /\ name # "gpu" => UNCHANGED gpuVars
  /\ name # "provider" => UNCHANGED providerVars

FewGone == Cardinality({x \in Processes : state[x] = "gone"}) <= MaxGone

LinuxNext ==
  \/ Only("termination") /\ Next /\ FewGone'
  \/ Only("network") /\ NetworkNext
  \/ Only("processor") /\ ProcessorNext
  \/ Only("processes") /\ ProcessNext
  \/ Only("toplevels") /\ ToplevelNext
  \/ Only("x11") /\ XNext /\ UNCHANGED <<xclient, xaction>> /\ xlive' \subseteq xlive /\ xrow'.pid = 0
  \/ Only("x11 actions") /\ XNext /\ NothingToRead
  \/ Only("icons") /\ IconNext
  \/ Only("gpu") /\ GpuNext
  \/ Only("provider") /\ ProviderNext

LinuxSpec == LinuxInit /\ [][LinuxNext]_<<component, vars, networkVars, processorVars,
                                          processVars, toplevelVars, xVars, iconVars, gpuVars,
                                          providerVars>>

=============================================================================
