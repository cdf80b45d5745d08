----------------------------- MODULE XdmaDriver -----------------------------
(***************************************************************************)
(* probe() and remove() of the kernel driver (driver/xdma_driver.c): the   *)
(* resources they acquire and release, the identification of the BARs and  *)
(* the choice of the DMA engines.  Any step of probe() may fail; a failure *)
(* jumps to the label of what has to be undone and runs on from there.     *)
(*                                                                         *)
(* The PCI core runs probe() and remove() of a device one at a time, so    *)
(* there is one thread here.  held counts what the kernel would count.     *)
(***************************************************************************)
EXTENDS Integers, Sequences, FiniteSets

CONSTANTS
  BarNum,     \* XDMA_BAR_NUM
  Layouts,    \* what the BARs of a board can contain
  Channels,   \* channels of each direction: 0 .. XDMA_CHANNEL_NUM_MAX - 1
  Engines,    \* sets of channels a board can have in one direction
  MaxProbes   \* bound on the number of probes

Bar      == 0 .. BarNum - 1
Kinds    == {"absent", "user", "config", "bypass"}

(* The rules for the BARs that identify_bars relies on: at most one of     *)
(* each kind, the user's before the configuration BAR and the bypass       *)
(* behind it.                                                              *)
OrderedBars(l) ==
  /\ \A i, j \in Bar : l[i] = l[j] /\ l[i] # "absent" => i = j
  /\ \A i, j \in Bar :
       <<l[i], l[j]>> \in {<<"user", "config">>, <<"config", "bypass">>, <<"user", "bypass">>}
         => i < j

ASSUME BoardAssumption ==
  /\ BarNum \in Nat
  /\ Layouts \subseteq [Bar -> Kinds] /\ \A l \in Layouts : OrderedBars(l)
  /\ Channels \subseteq Nat /\ 0 \in Channels
  /\ \A e \in Engines : e \subseteq Channels

Resource == {"inst", "device", "msi", "msix", "regions", "misc"}

VARIABLES
  layout, present, capability,     \* the board: BARs, engines, kind of interrupts
  step,                            \* where probe() is, or "unbound" or "bound"
  held,                            \* how often each resource is held
  bar,                             \* BARs mapped
  next_bar, bar_id_list, config_bar_pos,         \* locals of map_bars
  config_bar_idx, user_bar_idx, bypass_bar_idx,  \* -1: none
  regions_in_use, got_regions, msi_enabled, msix_enabled,
  h2c_engine, c2h_engine,          \* channels in use, -1: none
  control,                         \* register blocks with descriptor bypass enabled
  keep,                            \* history: what has to be held when the device is unbound
  probes                           \* number of probes

board   == <<layout, present, capability>>
barVars == <<bar, next_bar, bar_id_list, config_bar_pos, config_bar_idx, user_bar_idx,
             bypass_bar_idx>>
flags   == <<regions_in_use, got_regions, msi_enabled, msix_enabled>>
engines == <<h2c_engine, c2h_engine, control>>
history == <<keep, probes>>
vars    == <<board, step, held, barVars, flags, engines, history>>

Init ==
  /\ layout \in Layouts
  /\ present \in [{"h2c", "c2h"} -> Engines]
  /\ capability \in {"msix", "msi", "none"}
  /\ step = "unbound"
  /\ held = [r \in Resource |-> 0]
  /\ bar = {} /\ next_bar = 0 /\ bar_id_list = <<>> /\ config_bar_pos = 0
  /\ config_bar_idx = -1 /\ user_bar_idx = -1 /\ bypass_bar_idx = -1
  /\ regions_in_use = FALSE /\ got_regions = FALSE
  /\ msi_enabled = FALSE /\ msix_enabled = FALSE
  /\ h2c_engine = -1 /\ c2h_engine = -1 /\ control = {}
  /\ keep = held /\ probes = 0

Acquire(r) == held' = [held EXCEPT ![r] = @ + 1]
Release(r) == held' = [held EXCEPT ![r] = @ - 1]

-----------------------------------------------------------------------------
(* probe *)

(* A fresh, zeroed instance. *)
AllocDevInstance ==
  /\ step = "unbound" /\ probes < MaxProbes
  /\ probes' = probes + 1
  /\ keep' = held
  /\ Acquire("inst")
  /\ step' = "enable"
  /\ bar' = {} /\ next_bar' = 0 /\ bar_id_list' = <<>> /\ config_bar_pos' = 0
  /\ config_bar_idx' = -1 /\ user_bar_idx' = -1 /\ bypass_bar_idx' = -1
  /\ regions_in_use' = FALSE /\ got_regions' = FALSE
  /\ msi_enabled' = FALSE /\ msix_enabled' = FALSE
  /\ h2c_engine' = 0 /\ c2h_engine' = 0
  /\ UNCHANGED <<board, control>>

(* The allocation fails: probe() returns 0, so the device counts as bound, *)
(* and remove() finds no instance, as the driver core clears the pointer   *)
(* when a device is unbound.                                               *)
AllocFails ==
  /\ step = "unbound" /\ probes < MaxProbes
  /\ probes' = probes + 1
  /\ keep' = held
  /\ step' = "bound_without"
  /\ UNCHANGED <<board, held, barVars, flags, engines>>

EnableDevice ==
  /\ step = "enable"
  /\ \/ Acquire("device") /\ step' = "msi"
     \/ UNCHANGED held /\ step' = "err_enable"
  /\ UNCHANGED <<board, barVars, flags, engines, history>>

MsiFailsOneUp == "err_regions"  \* mutant: the label before
MsiFails == "err_scan_msi"

(* The flag is set whether the call succeeds or not; the kernel refuses    *)
(* MSI-X for a device that still has it.                                   *)
ScanForMsi ==
  /\ step = "msi"
  /\ msix_enabled' = (capability = "msix")
  /\ msi_enabled' = (capability = "msi")
  /\ \/ capability = "none" /\ UNCHANGED held /\ step' = "regions"
     \/ capability # "none" /\ held[capability] = 0 /\ Acquire(capability) /\ step' = "regions"
     \/ capability # "none" /\ UNCHANGED held /\ step' = MsiFails
  /\ UNCHANGED <<board, barVars, regions_in_use, got_regions, engines, history>>

(* Regions that cannot be had are taken for those of a device in use,      *)
(* which is left enabled.                                                  *)
RequestRegions ==
  /\ step = "regions"
  /\ \/ /\ Acquire("regions")
        /\ got_regions' = TRUE
        /\ step' = "bars"
        /\ UNCHANGED <<regions_in_use, keep>>
     \/ /\ regions_in_use' = TRUE
        /\ keep' = [keep EXCEPT !["device"] = @ + 1]
        /\ step' = "err_regions"
        /\ UNCHANGED <<held, got_regions>>
  /\ UNCHANGED <<board, barVars, msi_enabled, msix_enabled, engines, probes>>

(* mutant: the first BAR mapped is left out *)
MappedBarsButFirst == bar \ {0}
MappedBars == bar
UnmapBars == bar' = bar \ MappedBars

(* map_single_bar does nothing for a BAR of length 0. *)
Present(i) == layout[i] # "absent"

(* The BAR is long enough to be the configuration BAR, or it is not even   *)
(* read, and the two identifiers are where the configuration BAR has them. *)
(* A "config" BAR of a layout is one with both.                            *)
IsConfigBar(i) == layout[i] = "config"

(* One round of the loop of map_bars: the BAR is absent, is mapped, or     *)
(* cannot be mapped, in which case all others are unmapped.                *)
MapBar ==
  /\ step = "bars" /\ next_bar < BarNum
  /\ next_bar' = next_bar + 1
  /\ \/ /\ ~Present(next_bar)
        /\ UNCHANGED <<step, bar, bar_id_list, config_bar_pos, config_bar_idx>>
     \/ /\ Present(next_bar)
        /\ bar' = bar \union {next_bar}
        /\ bar_id_list' = Append(bar_id_list, next_bar)
        /\ IF config_bar_idx < 0 /\ IsConfigBar(next_bar)
           THEN config_bar_idx' = next_bar /\ config_bar_pos' = Len(bar_id_list)
           ELSE UNCHANGED <<config_bar_idx, config_bar_pos>>
        /\ UNCHANGED step
     \/ /\ Present(next_bar)
        /\ UnmapBars
        /\ step' = "err_map"
        /\ UNCHANGED <<bar_id_list, config_bar_pos, config_bar_idx>>
  /\ UNCHANGED <<board, held, user_bar_idx, bypass_bar_idx, flags, engines, history>>

(* mutant: with two BARs the other one is always the user's *)
UserBarAny == IF Len(bar_id_list) \in {2, 3} THEN bar_id_list[1] ELSE -1

(* identify_bars: the BAR before the configuration BAR is the user's, the  *)
(* one behind it the bypass.                                               *)
UserBar == IF Len(bar_id_list) \in {2, 3} /\ config_bar_pos = 1 THEN bar_id_list[1] ELSE -1

(* mutant: BARs are taken to have consecutive numbers *)
BypassBarBehind == config_bar_idx + 1

BypassBar ==
  CASE Len(bar_id_list) = 2 /\ config_bar_pos = 0 -> bar_id_list[2]
    [] Len(bar_id_list) = 3 /\ config_bar_pos = 1 -> bar_id_list[3]
    [] OTHER -> -1

IdentifyBars ==
  /\ step = "bars" /\ next_bar = BarNum
  /\ IF config_bar_idx < 0
     THEN UnmapBars /\ step' = "err_map" /\ UNCHANGED <<user_bar_idx, bypass_bar_idx>>
     ELSE /\ user_bar_idx' = UserBar /\ bypass_bar_idx' = BypassBar
          /\ step' = "mask" /\ UNCHANGED bar
  /\ UNCHANGED <<board, held, next_bar, bar_id_list, config_bar_pos, config_bar_idx, flags,
                 engines, history>>

SetDmaMask ==
  /\ step = "mask"
  /\ step' \in {"engines", "err_mask"}
  /\ UNCHANGED <<board, held, barVars, flags, engines, history>>

(* The register block of an engine: H2C engines are in the lower half of   *)
(* the configuration BAR and C2H engines in the upper half.                *)
Block(dir, channel) == <<IF dir = "h2c" THEN "lower" ELSE "upper", channel>>

(* probe_for_engine over all channels: the first engine of a direction. *)
FirstEngine(dir) ==
  IF present[dir] = {} THEN -1
  ELSE CHOOSE c \in present[dir] : \A d \in present[dir] : c <= d

(* The blocks in which probe_engines enables descriptor bypass. *)
H2cRegsLower == Block("h2c", h2c_engine')  \* mutant: both offsets alike
H2cRegs == Block("c2h", h2c_engine')
C2hRegs == Block("h2c", c2h_engine')

ProbeEngines ==
  /\ step = "engines"
  /\ h2c_engine' = FirstEngine("h2c")
  /\ c2h_engine' = FirstEngine("c2h")
  /\ IF h2c_engine' = -1 \/ c2h_engine' = -1
     THEN step' = "err_engines" /\ UNCHANGED control
     ELSE step' = "misc" /\ control' = control \union {H2cRegs, C2hRegs}
  /\ UNCHANGED <<board, held, barVars, flags, history>>

MiscRegister ==
  /\ step = "misc"
  /\ \/ Acquire("misc") /\ step' = "bound"
     \/ UNCHANGED held /\ step' = "err_engines"
  /\ UNCHANGED <<board, barVars, flags, engines, history>>

-----------------------------------------------------------------------------
(* The labels at the end of probe, each falling through to the next.       *)
(* irq_teardown() at err_engines finds no interrupt line.                  *)

Unwind(label, cond, r, next) ==
  /\ step = label
  /\ IF cond THEN Release(r) ELSE UNCHANGED held
  /\ step' = next
  /\ UNCHANGED <<board, barVars, flags, engines, history>>

UnwindBars ==
  /\ step \in {"err_engines", "err_mask"}
  /\ UnmapBars
  /\ step' = "err_map"
  /\ UNCHANGED <<board, held, next_bar, bar_id_list, config_bar_pos, config_bar_idx,
                 user_bar_idx, bypass_bar_idx, flags, engines, history>>

UnwindRegions == Unwind("err_map", got_regions, "regions", "err_regions")

UnwindMsi     == Unwind("err_regions", msi_enabled, "msi", "err_scan_msi")
UnwindDevice  == Unwind("err_scan_msi", ~regions_in_use, "device", "err_enable")
UnwindInst    == Unwind("err_enable", TRUE, "inst", "unbound")

-----------------------------------------------------------------------------
(* remove *)

Remove ==
  /\ step = "bound"
  /\ UnmapBars
  /\ held' = [held EXCEPT
       !["misc"] = @ - 1,
       !["regions"] = IF got_regions THEN @ - 1 ELSE @,
       !["msix"] = IF msix_enabled THEN @ - 1 ELSE @,
       !["msi"] = IF ~msix_enabled /\ msi_enabled THEN @ - 1 ELSE @,
       !["device"] = IF regions_in_use THEN @ ELSE @ - 1,
       !["inst"] = @ - 1]
  /\ msix_enabled' = FALSE
  /\ msi_enabled' = (msi_enabled /\ msix_enabled)
  /\ step' = "unbound"
  /\ UNCHANGED <<board, next_bar, bar_id_list, config_bar_pos, config_bar_idx, user_bar_idx,
                 bypass_bar_idx, regions_in_use, got_regions, engines, history>>

RemoveWithout ==
  /\ step = "bound_without"
  /\ step' = "unbound"
  /\ UNCHANGED <<board, held, barVars, flags, engines, history>>

-----------------------------------------------------------------------------
Probe ==
  \/ AllocDevInstance \/ AllocFails \/ EnableDevice \/ ScanForMsi \/ RequestRegions
  \/ MapBar \/ IdentifyBars \/ SetDmaMask \/ ProbeEngines \/ MiscRegister
  \/ UnwindBars \/ UnwindRegions \/ UnwindMsi \/ UnwindDevice \/ UnwindInst

Next == Probe \/ Remove \/ RemoveWithout

Spec == Init /\ [][Next]_vars

-----------------------------------------------------------------------------
(* Type invariant. *)
TypeOK ==
  /\ layout \in Layouts /\ present \in [{"h2c", "c2h"} -> Engines]
  /\ step \in {"unbound", "enable", "msi", "regions", "bars", "mask", "engines", "misc",
               "bound", "bound_without", "err_engines", "err_mask", "err_map",
               "err_regions", "err_scan_msi", "err_enable"}
  /\ held \in [Resource -> Int] /\ keep \in [Resource -> Int]
  /\ bar \subseteq Bar /\ next_bar \in 0 .. BarNum
  /\ \A i \in DOMAIN bar_id_list : bar_id_list[i] \in Bar
  /\ {config_bar_idx, user_bar_idx, bypass_bar_idx} \subseteq Bar \union {-1}
  /\ {h2c_engine, c2h_engine} \subseteq Channels \union {-1}
  /\ control \subseteq {"lower", "upper"} \X Channels

(* However far probe() gets, and whichever step fails, a device that is    *)
(* unbound again holds what it held before and no BAR is mapped.  MSI-X is *)
(* the exception: only remove() disables it, so it survives a failed       *)
(* probe, and the next one cannot enable it.                               *)
ProbeReleases ==
  step = "unbound" => /\ \A r \in Resource \ {"msix"} : held[r] = keep[r]
                      /\ bar = {}

(* Nothing is released that is not held: an error label is not one too     *)
(* early for the step that failed, and remove() undoes only what this      *)
(* probe() has done.  A device can be enabled more than once.              *)
ReleasesHeld ==
  \A r \in Resource : held[r] >= 0 /\ (r # "device" => held[r] <= 1)

(* The BAR that xdma_mmap() will map for user space is the user logic's,   *)
(* whichever of the optional BARs the board has and whatever their size.   *)
IndexOf(kind) ==
  IF \E i \in Bar : layout[i] = kind THEN CHOOSE i \in Bar : layout[i] = kind ELSE -1
BarsIdentified ==
  step \in {"mask", "engines", "misc", "bound"} =>
    /\ config_bar_idx = IndexOf("config")
    /\ user_bar_idx = IndexOf("user")
    /\ bypass_bar_idx = IndexOf("bypass")

(* Descriptor bypass is enabled in the engines that were found, H2C        *)
(* engines in the lower blocks and C2H engines in the upper ones, if their *)
(* numbers are the same: probe_engines() has the two offsets exchanged.    *)
EnginesOfOneChannelEnabled ==
  step \in {"misc", "bound"} /\ h2c_engine = c2h_engine =>
    {Block("h2c", h2c_engine), Block("c2h", c2h_engine)} \subseteq control
=============================================================================
