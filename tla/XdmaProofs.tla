----------------------------- MODULE XdmaProofs -----------------------------
(***************************************************************************)
(* Theorems about the two halves of the kernel driver, which share no      *)
(* state in these models: XdmaDriver, where the proofs begin, and          *)
(* XdmaSession behind it.                                                  *)
(*                                                                         *)
(* What probe() holds is a function of where it is and of the flags of the *)
(* instance: an error label is right for the step that jumps to it if it   *)
(* finds held exactly what it and the labels behind it release.  The BARs  *)
(* found so far are the user's, the configuration and the bypass BAR, in   *)
(* this order, as far as the board has them and the loop has come.         *)
(*                                                                         *)
(* The way a program's buffer gets to the FPGA is proved for any number of *)
(* programs, pages and sessions.  The history flags say since when nobody  *)
(* else was there; the inductive invariant says what that is worth.  While *)
(* a program is alone the driver's list holds the pages it has pinned,     *)
(* from BUFFER_SET on and also after MAPPING_GET, and the counts are those *)
(* of this list.  While the TLB is clean it has the base of the program    *)
(* and as many entries as it has written.                                  *)
(***************************************************************************)
EXTENDS XdmaDriver, XdmaSession, SequenceTheorems, FiniteSetTheorems, WellFoundedInduction, TLAPS

Steps == {"unbound", "enable", "msi", "regions", "bars", "mask", "engines", "misc",
          "bound", "bound_without", "err_engines", "err_mask", "err_map",
          "err_regions", "err_scan_msi", "err_enable"}

(* Where the regions, and where the interrupts of this probe are held. *)
WithRegions == {"bars", "mask", "engines", "misc", "bound", "err_engines", "err_mask", "err_map"}
WithMsi == WithRegions \union {"regions", "err_regions"}
WithBars == WithRegions \ {"err_map"}

WithDevice ==
  step \in {"msi", "regions"} \union WithRegions
  \/ (step \in {"err_regions", "err_scan_msi"} /\ ~regions_in_use)

(* The flags agree with the step. *)
Flags ==
  /\ step \in Steps /\ capability \in {"msix", "msi", "none"}
  /\ regions_in_use \in BOOLEAN /\ got_regions \in BOOLEAN
  /\ msi_enabled \in BOOLEAN /\ msix_enabled \in BOOLEAN
  /\ step \in WithRegions => got_regions
  /\ regions_in_use
       => step \in {"err_regions", "err_scan_msi", "err_enable", "unbound", "bound_without"}
  /\ ~(msi_enabled /\ msix_enabled)
  /\ bar # {} => step \in WithBars

(* What is held. *)
Held ==
  /\ held \in [Resource -> Int] /\ keep \in [Resource -> Int]
  /\ held["inst"] = IF step \in {"unbound", "bound_without"} THEN 0 ELSE 1
  /\ held["misc"] = IF step = "bound" THEN 1 ELSE 0
  /\ held["regions"] = IF step \in WithRegions THEN 1 ELSE 0
  /\ held["msi"] = IF msi_enabled /\ step \in WithMsi THEN 1 ELSE 0
  /\ held["msix"] = 0 \/ held["msix"] = 1
  /\ msix_enabled /\ step \in WithMsi => held["msix"] = 1
  /\ held["device"] = keep["device"] + (IF WithDevice THEN 1 ELSE 0)
  /\ keep["device"] >= 0
  /\ keep["inst"] = 0 /\ keep["misc"] = 0 /\ keep["regions"] = 0 /\ keep["msi"] = 0

HeldInv == Flags /\ Held

LEMMA InitHeld == Init => HeldInv
  <1> SUFFICES ASSUME Init PROVE HeldInv
    OBVIOUS
  <1>1. Flags
    BY DEF Init, Flags, Steps, WithRegions
  <1>2. /\ held \in [Resource -> Int] /\ \A r \in Resource : held[r] = 0
        /\ keep = held /\ step = "unbound"
    BY DEF Init
  <1>3. Held
    BY <1>2 DEF Held, Resource, WithRegions, WithMsi, WithDevice
  <1> QED
    BY <1>1, <1>3 DEF HeldInv

(* One resource more or less: the others are as they were. *)
LEMMA OneResource ==
  ASSUME NEW f \in [Resource -> Int], NEW r \in Resource, NEW n \in Int
  PROVE  /\ [f EXCEPT ![r] = n] \in [Resource -> Int]
         /\ [f EXCEPT ![r] = n][r] = n
         /\ \A x \in Resource : x # r => [f EXCEPT ![r] = n][x] = f[x]
  OBVIOUS

LEMMA NextHeld == HeldInv /\ [Next]_vars => HeldInv'
  <1> SUFFICES ASSUME HeldInv, [Next]_vars PROVE HeldInv'
    OBVIOUS
  <1> USE DEF HeldInv, Flags, Held, Resource, Steps, WithRegions, WithMsi, WithBars, WithDevice,
              Acquire, Release
  <1>1. CASE AllocDevInstance
    <2>1. Flags'
      BY <1>1 DEF AllocDevInstance, board
    <2>2. /\ held' = [held EXCEPT !["inst"] = held["inst"] + 1] /\ keep' = held
          /\ step = "unbound" /\ step' = "enable" /\ ~msi_enabled' /\ ~msix_enabled'
      BY <1>1 DEF AllocDevInstance
    <2>3. Held'
      BY <2>2
    <2> QED
      BY <2>1, <2>3
  <1>2. CASE AllocFails
    BY <1>2 DEF AllocFails, board, flags, barVars
  <1>3. CASE EnableDevice
    BY <1>3 DEF EnableDevice, board, flags, barVars, history
  <1>4. CASE ScanForMsi
    <2>1. /\ step = "msi" /\ bar' = bar /\ capability' = capability /\ keep' = keep
          /\ msix_enabled' = (capability = "msix") /\ msi_enabled' = (capability = "msi")
          /\ UNCHANGED <<regions_in_use, got_regions>>
      BY <1>4 DEF ScanForMsi, board, barVars, history
    <2>2. \/ capability = "none" /\ UNCHANGED held /\ step' = "regions"
          \/ capability # "none" /\ held[capability] = 0 /\ Acquire(capability) /\ step' = "regions"
          \/ capability # "none" /\ UNCHANGED held /\ step' = "err_scan_msi"
      BY <1>4 DEF ScanForMsi, MsiFails
    <2>3. Flags'
      BY <2>1, <2>2
    <2>4. CASE UNCHANGED held
      BY <2>1, <2>2, <2>3, <2>4
    <2>5. CASE capability = "msix" /\ Acquire("msix") /\ held["msix"] = 0 /\ step' = "regions"
      BY <2>1, <2>3, <2>5
    <2>6. CASE capability = "msi" /\ Acquire("msi") /\ held["msi"] = 0 /\ step' = "regions"
      <3>1. msi_enabled' /\ ~msix_enabled'
        BY <2>1, <2>6
      <3>2. held' = [held EXCEPT !["msi"] = held["msi"] + 1]
        BY <2>6
      <3> QED
        BY <2>1, <2>3, <2>6, <3>1, <3>2
    <2> QED
      BY <2>2, <2>4, <2>5, <2>6
  <1>5. CASE RequestRegions
    <2>1. /\ step = "regions" /\ UNCHANGED <<capability, bar, msi_enabled, msix_enabled>>
      BY <1>5 DEF RequestRegions, board, barVars
    <2>2. CASE /\ Acquire("regions") /\ got_regions' = TRUE /\ step' = "bars"
               /\ UNCHANGED <<regions_in_use, keep>>
      BY <2>1, <2>2
    <2>3. CASE /\ regions_in_use' = TRUE /\ keep' = [keep EXCEPT !["device"] = keep["device"] + 1]
               /\ step' = "err_regions" /\ UNCHANGED <<held, got_regions>>
      BY <2>1, <2>3
    <2> QED
      BY <1>5, <2>2, <2>3 DEF RequestRegions
  <1>6. CASE MapBar
    BY <1>6 DEF MapBar, UnmapBars, MappedBars, board, flags, history
  <1>7. CASE IdentifyBars
    BY <1>7 DEF IdentifyBars, UnmapBars, MappedBars, board, flags, history
  <1>8. CASE SetDmaMask
    BY <1>8 DEF SetDmaMask, board, flags, barVars, history
  <1>9. CASE ProbeEngines
    BY <1>9 DEF ProbeEngines, board, flags, barVars, history
  <1>10. CASE MiscRegister
    BY <1>10 DEF MiscRegister, board, flags, barVars, history
  <1>11. CASE UnwindBars
    BY <1>11 DEF UnwindBars, UnmapBars, MappedBars, board, flags, history
  <1>12. CASE UnwindRegions
    BY <1>12 DEF UnwindRegions, Unwind, board, flags, barVars, history
  <1>13. CASE UnwindMsi
    BY <1>13 DEF UnwindMsi, Unwind, board, flags, barVars, history
  <1>14. CASE UnwindDevice
    BY <1>14 DEF UnwindDevice, Unwind, board, flags, barVars, history
  <1>15. CASE UnwindInst
    BY <1>15 DEF UnwindInst, Unwind, board, flags, barVars, history
  <1>16. CASE Remove
    <2>1. /\ step = "bound" /\ step' = "unbound" /\ bar' = {} /\ msix_enabled' = FALSE
          /\ msi_enabled' = (msi_enabled /\ msix_enabled)
          /\ UNCHANGED <<capability, regions_in_use, got_regions, keep>>
      BY <1>16 DEF Remove, UnmapBars, MappedBars, board, history
    <2>2. /\ held' \in [Resource -> Int]
          /\ held'["misc"] = held["misc"] - 1 /\ held'["inst"] = held["inst"] - 1
          /\ held'["regions"] = held["regions"] - 1
          /\ held'["device"] = held["device"] - 1
          /\ held'["msix"] = IF msix_enabled THEN held["msix"] - 1 ELSE held["msix"]
          /\ held'["msi"] = IF ~msix_enabled /\ msi_enabled THEN held["msi"] - 1 ELSE held["msi"]
      BY <1>16 DEF Remove
    <2>3. Flags'
      BY <2>1
    <2>4. Held'
      BY <2>1, <2>2
    <2> QED
      BY <2>3, <2>4
  <1>17. CASE RemoveWithout
    BY <1>17 DEF RemoveWithout, board, flags, barVars, history
  <1>18. CASE UNCHANGED vars
    BY <1>18 DEF vars, board, flags, barVars, history
  <1> QED
    BY <1>1, <1>2, <1>3, <1>4, <1>5, <1>6, <1>7, <1>8, <1>9, <1>10, <1>11, <1>12, <1>13,
       <1>14, <1>15, <1>16, <1>17, <1>18 DEF Next, Probe

(* However far probe() gets, and whichever step fails, a device that is    *)
(* unbound again holds what it held before, MSI-X excepted, and no BAR is  *)
(* mapped: for every board and every number of probes and removals.        *)
THEOREM ReleasesOnFailure == Spec => []ProbeReleases
  <1>1. HeldInv => ProbeReleases
    BY DEF HeldInv, Flags, Held, ProbeReleases, Resource, WithRegions, WithMsi, WithBars, WithDevice
  <1> QED
    BY <1>1, InitHeld, NextHeld, PTL DEF Spec

(* No error label and no step of remove() releases what is not held, and   *)
(* apart from the device nothing is acquired twice.                        *)
THEOREM ReleasesOnlyHeld == Spec => []ReleasesHeld
  <1>1. HeldInv => ReleasesHeld
    <2> SUFFICES ASSUME HeldInv, NEW r \in Resource
                 PROVE  held[r] >= 0 /\ (r # "device" => held[r] <= 1)
      BY DEF ReleasesHeld
    <2> QED
      BY DEF HeldInv, Held, Resource
  <1> QED
    BY <1>1, InitHeld, NextHeld, PTL DEF Spec

(* Descriptor bypass is enabled in the engines that were found whenever    *)
(* they have the same channel, although the offsets are exchanged.         *)
THEOREM BypassOfOneChannel == Spec => []EnginesOfOneChannelEnabled
  <1> DEFINE Exchanged == step \in {"misc", "bound"}
                            => {Block("c2h", h2c_engine), Block("h2c", c2h_engine)} \subseteq control
  <1>1. Init => Exchanged
    BY DEF Init
  <1>2. Exchanged /\ [Next]_vars => Exchanged'
    <2> SUFFICES ASSUME Exchanged, [Next]_vars, step' \in {"misc", "bound"}
                 PROVE  {Block("c2h", h2c_engine'), Block("h2c", c2h_engine')} \subseteq control'
      BY DEF Block
    <2>1. CASE ProbeEngines
      BY <2>1 DEF ProbeEngines, H2cRegs, C2hRegs
    <2>2. CASE ~ProbeEngines
      <3>1. step \in {"misc", "bound"} /\ UNCHANGED engines
        BY <2>2 DEF Next, Probe, AllocDevInstance, AllocFails, EnableDevice, ScanForMsi, MsiFails,
              RequestRegions, MapBar, IdentifyBars, SetDmaMask, MiscRegister, UnwindBars,
              UnwindRegions, UnwindMsi, UnwindDevice, UnwindInst, Unwind, Remove, RemoveWithout,
              vars
      <3> QED
        BY <3>1 DEF engines
    <2> QED
      BY <2>1, <2>2
  <1>3. Exchanged => EnginesOfOneChannelEnabled
    BY DEF EnginesOfOneChannelEnabled
  <1> QED
    BY <1>1, <1>2, <1>3, PTL DEF Spec

-----------------------------------------------------------------------------
(* Types. *)

(* A set of channels that is not empty has a first one. *)
LEMMA FirstExists ==
  ASSUME NEW T, T \subseteq Nat, T # {}
  PROVE  \E c \in T : \A d \in T : c <= d
  <1>1. \E c \in T : \A d \in T : ~(<<d, c>> \in OpToRel(<, Nat))
    BY NatLessThanWellFounded, WFMin
  <1>2. PICK c \in T : \A d \in T : ~(<<d, c>> \in OpToRel(<, Nat))
    BY <1>1
  <1>3. \A d \in T : ~(d < c)
    BY <1>2 DEF OpToRel
  <1> QED
    BY <1>3

LEMMA FirstEngineType ==
  ASSUME NEW dir \in {"h2c", "c2h"}, present \in [{"h2c", "c2h"} -> Engines]
  PROVE  FirstEngine(dir) \in Channels \union {-1}
  <1>1. present[dir] \subseteq Channels /\ Channels \subseteq Nat
    BY BoardAssumption
  <1>2. CASE present[dir] = {}
    BY <1>2 DEF FirstEngine
  <1>3. CASE present[dir] # {}
    <2>1. \E c \in present[dir] : \A d \in present[dir] : c <= d
      BY <1>1, <1>3, FirstExists
    <2> QED
      BY <1>1, <1>3, <2>1 DEF FirstEngine
  <1> QED
    BY <1>2, <1>3

(* The types; bar_id_list is a sequence. *)
DriverTypes ==
  /\ layout \in Layouts /\ present \in [{"h2c", "c2h"} -> Engines]
  /\ bar \subseteq Bar /\ next_bar \in 0 .. BarNum
  /\ bar_id_list \in Seq(Bar)
  /\ config_bar_idx \in Bar \union {-1} /\ user_bar_idx \in Bar \union {-1}
  /\ bypass_bar_idx \in Bar \union {-1}
  /\ h2c_engine \in Channels \union {-1} /\ c2h_engine \in Channels \union {-1}
  /\ control \subseteq {"lower", "upper"} \X Channels

LEMMA InitTypes == Init => DriverTypes
  <1> SUFFICES ASSUME Init PROVE DriverTypes
    OBVIOUS
  <1>1. bar_id_list \in Seq(Bar)
    BY EmptySeq DEF Init
  <1>2. next_bar \in 0 .. BarNum
    BY BoardAssumption DEF Init
  <1> QED
    BY <1>1, <1>2 DEF Init, DriverTypes

LEMMA NextTypes == DriverTypes /\ [Next]_vars => DriverTypes'
  <1> SUFFICES ASSUME DriverTypes, [Next]_vars PROVE DriverTypes'
    OBVIOUS
  <1>1. CASE UNCHANGED <<board, barVars, engines>>
    BY <1>1 DEF DriverTypes, board, barVars, engines
  <1>2. CASE AllocDevInstance
    <2>1. bar_id_list' \in Seq(Bar)
      BY <1>2, EmptySeq DEF AllocDevInstance
    <2>2. next_bar' \in 0 .. BarNum
      BY <1>2, BoardAssumption DEF AllocDevInstance
    <2> QED
      BY <1>2, <2>1, <2>2, BoardAssumption DEF AllocDevInstance, DriverTypes, board
  <1>3. CASE MapBar
    <2>1. /\ next_bar \in Bar /\ next_bar' = next_bar + 1 /\ next_bar' \in 0 .. BarNum
          /\ UNCHANGED <<board, user_bar_idx, bypass_bar_idx, engines>>
      BY <1>3, BoardAssumption DEF MapBar, DriverTypes, Bar
    <2>2. bar' \subseteq Bar
      BY <1>3, <2>1 DEF MapBar, DriverTypes, UnmapBars
    <2>3. bar_id_list' \in Seq(Bar)
      <3>1. bar_id_list' = bar_id_list \/ bar_id_list' = Append(bar_id_list, next_bar)
        BY <1>3 DEF MapBar
      <3>2. bar_id_list \in Seq(Bar)
        BY DEF DriverTypes
      <3>3. Append(bar_id_list, next_bar) \in Seq(Bar)
        BY <2>1, <3>2, AppendProperties
      <3> QED
        BY <3>1, <3>2, <3>3
    <2>4. config_bar_idx' \in Bar \union {-1}
      BY <1>3, <2>1 DEF MapBar, DriverTypes
    <2> QED
      BY <2>1, <2>2, <2>3, <2>4 DEF DriverTypes, board, engines
  <1>4. CASE IdentifyBars
    <2>1. /\ UNCHANGED <<board, next_bar, bar_id_list, config_bar_idx, engines>>
          /\ bar' \subseteq bar
          /\ user_bar_idx' = user_bar_idx \/ user_bar_idx' = UserBar
          /\ bypass_bar_idx' = bypass_bar_idx \/ bypass_bar_idx' = BypassBar
      BY <1>4 DEF IdentifyBars, UnmapBars
    <2>2. bar_id_list \in Seq(Bar)
      BY DEF DriverTypes
    <2>3. UserBar \in Bar \union {-1}
      <3>1. CASE Len(bar_id_list) = 2
        BY <2>2, <3>1 DEF UserBar
      <3>2. CASE Len(bar_id_list) = 3
        BY <2>2, <3>2 DEF UserBar
      <3>3. CASE ~(Len(bar_id_list) \in {2, 3})
        BY <3>3 DEF UserBar
      <3> QED
        BY <3>1, <3>2, <3>3
    <2>4. BypassBar \in Bar \union {-1}
      <3>1. CASE Len(bar_id_list) = 2
        BY <2>2, <3>1 DEF BypassBar
      <3>2. CASE Len(bar_id_list) = 3
        <4>1. bar_id_list[3] \in Bar
          BY <2>2, <3>2
        <4>2. Len(bar_id_list) # 2
          BY <3>2
        <4>3. BypassBar = bar_id_list[3] \/ BypassBar = -1
          BY <3>2, <4>2 DEF BypassBar
        <4> QED
          BY <4>1, <4>3
      <3>3. CASE Len(bar_id_list) # 2 /\ Len(bar_id_list) # 3
        BY <3>3 DEF BypassBar
      <3> QED
        BY <3>1, <3>2, <3>3
    <2> QED
      BY <2>1, <2>3, <2>4 DEF DriverTypes, board, engines
  <1>5. CASE ProbeEngines
    <2>1. /\ h2c_engine' \in Channels \union {-1} /\ c2h_engine' \in Channels \union {-1}
          /\ UNCHANGED <<board, barVars>>
      BY <1>5, FirstEngineType DEF ProbeEngines, DriverTypes
    <2>2. control' \subseteq {"lower", "upper"} \X Channels
      BY <1>5, <2>1 DEF ProbeEngines, DriverTypes, H2cRegs, C2hRegs, Block
    <2> QED
      BY <2>1, <2>2 DEF DriverTypes, board, barVars
  <1>6. CASE UnwindBars \/ Remove
    BY <1>6 DEF UnwindBars, Remove, UnmapBars, DriverTypes, board, engines
  <1> QED
    BY <1>1, <1>2, <1>3, <1>4, <1>5, <1>6
       DEF Next, Probe, AllocFails, EnableDevice, ScanForMsi, RequestRegions, SetDmaMask,
           MiscRegister, UnwindRegions, UnwindMsi, UnwindDevice, UnwindInst, Unwind,
           RemoveWithout, vars

(* Every index that the driver uses is that of a BAR or of a channel the   *)
(* board can have, or says that there is none.                             *)
THEOREM TypeCorrect == Spec => []TypeOK
  <1>1. DriverTypes /\ HeldInv => TypeOK
    <2> SUFFICES ASSUME DriverTypes, HeldInv PROVE TypeOK
      OBVIOUS
    <2>1. \A i \in DOMAIN bar_id_list : bar_id_list[i] \in Bar
      BY DEF DriverTypes
    <2>2. held \in [Resource -> Int] /\ keep \in [Resource -> Int] /\ step \in Steps
      BY DEF HeldInv, Held, Flags
    <2> QED
      BY <2>1, <2>2 DEF DriverTypes, TypeOK, Steps
  <1> QED
    BY <1>1, InitTypes, NextTypes, InitHeld, NextHeld, PTL DEF Spec

-----------------------------------------------------------------------------
(* The BARs. *)

(* The BAR of a kind is the only one of its kind. *)
LEMMA IndexOfKind ==
  ASSUME layout \in Layouts, NEW k \in {"user", "config", "bypass"}
  PROVE  /\ IndexOf(k) = -1 \/ (IndexOf(k) \in Bar /\ layout[IndexOf(k)] = k)
         /\ \A i \in Bar : layout[i] = k <=> i = IndexOf(k)
  <1>1. \A i, j \in Bar : layout[i] = k /\ layout[j] = k => i = j
    BY BoardAssumption DEF OrderedBars
  <1>2. -1 \notin Bar
    BY BoardAssumption DEF Bar
  <1>3. CASE \E i \in Bar : layout[i] = k
    BY <1>1, <1>3 DEF IndexOf
  <1>4. CASE ~\E i \in Bar : layout[i] = k
    BY <1>2, <1>4 DEF IndexOf
  <1> QED
    BY <1>3, <1>4

LEMMA IndexOrder ==
  ASSUME layout \in Layouts
  PROVE  /\ IndexOf("user") \in Bar /\ IndexOf("config") \in Bar
              => IndexOf("user") < IndexOf("config")
         /\ IndexOf("config") \in Bar /\ IndexOf("bypass") \in Bar
              => IndexOf("config") < IndexOf("bypass")
         /\ IndexOf("user") \in Bar /\ IndexOf("bypass") \in Bar
              => IndexOf("user") < IndexOf("bypass")
  <1>1. \A i, j \in Bar :
          /\ layout[i] = "user" /\ layout[j] = "config" => i < j
          /\ layout[i] = "config" /\ layout[j] = "bypass" => i < j
          /\ layout[i] = "user" /\ layout[j] = "bypass" => i < j
    BY BoardAssumption DEF OrderedBars
  <1>2. \A k \in {"user", "config", "bypass"} : IndexOf(k) \in Bar => layout[IndexOf(k)] = k
    BY IndexOfKind
  <1> QED
    BY <1>1, <1>2

(* The loop of map_bars has come past the BAR of a kind. *)
Seen(k) == 0 <= IndexOf(k) /\ IndexOf(k) < next_bar
Count(k) == IF Seen(k) THEN 1 ELSE 0

(* What the loop has found, and what identify_bars makes of it. *)
Found ==
  /\ step = "bars" =>
       /\ Len(bar_id_list) = Count("user") + Count("config") + Count("bypass")
       /\ Seen("user") => bar_id_list[1] = IndexOf("user")
       /\ Seen("config") => bar_id_list[1 + Count("user")] = IndexOf("config")
       /\ Seen("bypass") => bar_id_list[1 + Count("user") + Count("config")] = IndexOf("bypass")
       /\ config_bar_idx = IF Seen("config") THEN IndexOf("config") ELSE -1
       /\ config_bar_pos = IF Seen("config") THEN Count("user") ELSE 0
       /\ user_bar_idx = -1 /\ bypass_bar_idx = -1
  /\ step \in {"enable", "msi", "regions"} =>
       /\ next_bar = 0 /\ bar_id_list = <<>> /\ config_bar_idx = -1 /\ config_bar_pos = 0
       /\ user_bar_idx = -1 /\ bypass_bar_idx = -1

BarsInv == DriverTypes /\ Found /\ BarsIdentified

(* A round of the loop that finds a BAR. *)
LEMMA MapFound ==
  ASSUME DriverTypes, Found, step = "bars", next_bar < BarNum,
         next_bar' = next_bar + 1, Present(next_bar), layout' = layout,
         bar_id_list' = Append(bar_id_list, next_bar),
         IF config_bar_idx < 0 /\ IsConfigBar(next_bar)
         THEN config_bar_idx' = next_bar /\ config_bar_pos' = Len(bar_id_list)
         ELSE UNCHANGED <<config_bar_idx, config_bar_pos>>,
         UNCHANGED <<step, user_bar_idx, bypass_bar_idx>>
  PROVE  Found'
  <1> DEFINE n == Len(bar_id_list)
             u == IndexOf("user")
             c == IndexOf("config")
             b == IndexOf("bypass")
  <1>1. /\ next_bar \in Bar /\ next_bar \in Nat /\ bar_id_list \in Seq(Bar) /\ layout \in Layouts
    BY BoardAssumption DEF DriverTypes, Bar
  <1>2. IndexOf("user")' = u /\ IndexOf("config")' = c /\ IndexOf("bypass")' = b
    BY DEF IndexOf
  <1>3. /\ u \in Int /\ c \in Int /\ b \in Int
        /\ u = -1 \/ u \in Bar
        /\ c = -1 \/ c \in Bar
        /\ b = -1 \/ b \in Bar
    BY <1>1, IndexOfKind, BoardAssumption DEF Bar
  <1>4. /\ u \in Bar /\ c \in Bar => u < c
        /\ c \in Bar /\ b \in Bar => c < b
        /\ u \in Bar /\ b \in Bar => u < b
    BY <1>1, IndexOrder
  <1>5. layout[next_bar] \in {"user", "config", "bypass"}
    BY <1>1, BoardAssumption DEF Present, Kinds
  <1>6. /\ layout[next_bar] = "user" <=> next_bar = u
        /\ layout[next_bar] = "config" <=> next_bar = c
        /\ layout[next_bar] = "bypass" <=> next_bar = b
    BY <1>1, IndexOfKind
  <1>7. /\ Len(bar_id_list') = n + 1 /\ bar_id_list'[n + 1] = next_bar
        /\ \A i \in 1 .. n : bar_id_list'[i] = bar_id_list[i]
        /\ n \in Nat
    BY <1>1, AppendProperties
  <1>8. /\ n = Count("user") + Count("config") + Count("bypass")
        /\ Seen("user") => bar_id_list[1] = u
        /\ Seen("config") => bar_id_list[1 + Count("user")] = c
        /\ Seen("bypass") => bar_id_list[1 + Count("user") + Count("config")] = b
        /\ config_bar_idx = IF Seen("config") THEN c ELSE -1
        /\ config_bar_pos = IF Seen("config") THEN Count("user") ELSE 0
        /\ user_bar_idx = -1 /\ bypass_bar_idx = -1
    BY DEF Found
  <1>9. \A k \in Bar : k \in Int /\ k >= 0
    BY DEF Bar
  <1> HIDE DEF n, u, c, b
  <1>10. CASE next_bar = u
    <2>1. ~Seen("user") /\ ~Seen("config") /\ ~Seen("bypass") /\ n = 0
      BY <1>1, <1>3, <1>4, <1>8, <1>9, <1>10 DEF Seen, Count, u, c, b
    <2>2. Seen("user")' /\ ~Seen("config")' /\ ~Seen("bypass")'
      BY <1>1, <1>2, <1>3, <1>4, <1>9, <1>10 DEF Seen, u, c, b
    <2>3. ~IsConfigBar(next_bar)
      BY <1>6, <1>10 DEF IsConfigBar
    <2> QED
      BY <1>2, <1>7, <1>8, <1>10, <2>1, <2>2, <2>3 DEF Found, Count, u
  <1>11. CASE next_bar = c
    <2>1. ~Seen("config") /\ ~Seen("bypass") /\ n = Count("user") /\ config_bar_idx = -1
      BY <1>1, <1>3, <1>4, <1>8, <1>9, <1>11 DEF Seen, Count, u, c, b
    <2>2. /\ Seen("user")' <=> Seen("user")
          /\ Seen("config")' /\ ~Seen("bypass")'
      BY <1>1, <1>2, <1>3, <1>4, <1>9, <1>11 DEF Seen, u, c, b
    <2>3. IsConfigBar(next_bar)
      BY <1>6, <1>11 DEF IsConfigBar
    <2>4. config_bar_idx' = next_bar /\ config_bar_pos' = n
      BY <2>1, <2>3 DEF n
    <2> QED
      BY <1>2, <1>7, <1>8, <1>11, <2>1, <2>2, <2>4 DEF Found, Count, u, c
  <1>12. CASE next_bar = b
    <2>1. ~Seen("bypass") /\ n = Count("user") + Count("config")
      BY <1>1, <1>3, <1>4, <1>8, <1>9, <1>12 DEF Seen, Count, u, c, b
    <2>2. /\ Seen("user")' <=> Seen("user")
          /\ Seen("config")' <=> Seen("config")
          /\ Seen("bypass")'
      BY <1>1, <1>2, <1>3, <1>4, <1>9, <1>12 DEF Seen, u, c, b
    <2>3. ~IsConfigBar(next_bar)
      BY <1>6, <1>12 DEF IsConfigBar
    <2> QED
      BY <1>2, <1>7, <1>8, <1>12, <2>1, <2>2, <2>3 DEF Found, Count, u, c, b
  <1> QED
    BY <1>5, <1>6, <1>10, <1>11, <1>12

(* A round that finds none. *)
LEMMA SkipFound ==
  ASSUME DriverTypes, Found, step = "bars", next_bar < BarNum,
         next_bar' = next_bar + 1, ~Present(next_bar),
         UNCHANGED <<layout, step, bar_id_list, config_bar_pos, config_bar_idx, user_bar_idx,
                     bypass_bar_idx>>
  PROVE  Found'
  <1>1. next_bar \in Bar /\ next_bar \in Nat /\ layout \in Layouts
    BY BoardAssumption DEF DriverTypes, Bar
  <1>2. \A k \in {"user", "config", "bypass"} :
          /\ IndexOf(k)' = IndexOf(k) /\ IndexOf(k) \in Int /\ IndexOf(k) # next_bar
    <2> SUFFICES ASSUME NEW k \in {"user", "config", "bypass"}
                 PROVE  IndexOf(k)' = IndexOf(k) /\ IndexOf(k) \in Int /\ IndexOf(k) # next_bar
      OBVIOUS
    <2>1. IndexOf(k)' = IndexOf(k)
      BY DEF IndexOf
    <2>2. IndexOf(k) \in Int
      BY <1>1, IndexOfKind DEF Bar
    <2>3. IndexOf(k) # next_bar
      BY <1>1, IndexOfKind DEF Present
    <2> QED
      BY <2>1, <2>2, <2>3
  <1>3. \A k \in {"user", "config", "bypass"} :
          /\ Seen(k)' <=> Seen(k)
          /\ Count(k)' = Count(k)
    BY <1>1, <1>2 DEF Seen, Count
  <1> QED
    BY <1>2, <1>3 DEF Found

(* identify_bars, with the list complete. *)
LEMMA IdentifyFound ==
  ASSUME DriverTypes, Found, step = "bars", next_bar = BarNum, config_bar_idx >= 0
  PROVE  /\ config_bar_idx = IndexOf("config")
         /\ UserBar = IndexOf("user")
         /\ BypassBar = IndexOf("bypass")
  <1> DEFINE u == IndexOf("user")
             c == IndexOf("config")
             b == IndexOf("bypass")
             n == Len(bar_id_list)
  <1>1. \A k \in {"user", "config", "bypass"} : IndexOf(k) = -1 \/ Seen(k)
    BY IndexOfKind DEF DriverTypes, Seen, Bar
  <1>2. /\ n = Count("user") + Count("config") + Count("bypass")
        /\ Seen("user") => bar_id_list[1] = u
        /\ Seen("bypass") => bar_id_list[1 + Count("user") + Count("config")] = b
        /\ config_bar_idx = IF Seen("config") THEN c ELSE -1
        /\ config_bar_pos = IF Seen("config") THEN Count("user") ELSE 0
    BY DEF Found
  <1>3. Seen("config")
    BY <1>2
  <1>4. \A k \in {"user", "config", "bypass"} : IndexOf(k) = -1 => ~Seen(k)
    BY DEF Seen
  <1> HIDE DEF u, c, b, n
  <1>5. UserBar = u
    <2>1. CASE Seen("user")
      <3>1. (n = 2 \/ n = 3) /\ config_bar_pos = 1 /\ bar_id_list[1] = u
        BY <1>2, <1>3, <2>1 DEF Count
      <3> QED
        BY <3>1 DEF UserBar, n
    <2>2. CASE ~Seen("user")
      <3>1. config_bar_pos = 0 /\ u = -1
        BY <1>1, <1>2, <2>2 DEF Count, u
      <3> QED
        BY <3>1 DEF UserBar
    <2> QED
      BY <2>1, <2>2
  <1>6. BypassBar = b
    <2>1. CASE Seen("user") /\ Seen("bypass")
      <3>1. n = 3 /\ config_bar_pos = 1 /\ bar_id_list[3] = b
        BY <1>2, <1>3, <2>1 DEF Count
      <3> QED
        BY <3>1 DEF BypassBar, n
    <2>2. CASE ~Seen("user") /\ Seen("bypass")
      <3>1. n = 2 /\ config_bar_pos = 0 /\ bar_id_list[2] = b
        BY <1>2, <1>3, <2>2 DEF Count
      <3> QED
        BY <3>1 DEF BypassBar, n
    <2>3. CASE Seen("user") /\ ~Seen("bypass")
      <3>1. n = 2 /\ config_bar_pos = 1 /\ b = -1
        BY <1>1, <1>2, <1>3, <2>3 DEF Count, b
      <3> QED
        BY <3>1 DEF BypassBar, n
    <2>4. CASE ~Seen("user") /\ ~Seen("bypass")
      <3>1. n = 1 /\ b = -1
        BY <1>1, <1>2, <1>3, <2>4 DEF Count, b
      <3> QED
        BY <3>1 DEF BypassBar, n
    <2> QED
      BY <2>1, <2>2, <2>3, <2>4
  <1> QED
    BY <1>2, <1>3, <1>5, <1>6 DEF u, c, b

LEMMA InitBars == Init => BarsInv
  <1>1. Init => DriverTypes
    BY InitTypes
  <1> QED
    BY <1>1 DEF Init, BarsInv, Found, BarsIdentified

LEMMA NextBars == BarsInv /\ [Next]_vars => BarsInv'
  <1> SUFFICES ASSUME BarsInv, [Next]_vars PROVE Found' /\ BarsIdentified'
    BY NextTypes DEF BarsInv
  <1>1. layout' = layout
    BY DEF Next, Probe, AllocDevInstance, AllocFails, EnableDevice, ScanForMsi, RequestRegions,
           MapBar, IdentifyBars, SetDmaMask, ProbeEngines, MiscRegister, UnwindBars,
           UnwindRegions, UnwindMsi, UnwindDevice, UnwindInst, Unwind, Remove, RemoveWithout,
           vars, board
  <1>2. \A k \in {"user", "config", "bypass"} : IndexOf(k)' = IndexOf(k)
    BY <1>1 DEF IndexOf
  <1>3. CASE UNCHANGED <<step, barVars>>
    BY <1>2, <1>3 DEF BarsInv, Found, Seen, Count, BarsIdentified, barVars
  <1>4. CASE AllocDevInstance
    BY <1>4 DEF AllocDevInstance, Found, BarsIdentified
  <1>5. CASE step' \in {"unbound", "bound_without", "err_engines", "err_mask", "err_map",
                        "err_regions", "err_scan_msi", "err_enable"}
    BY <1>5 DEF Found, BarsIdentified
  <1>6. CASE EnableDevice \/ ScanForMsi
    <2>1. step \in {"enable", "msi"} /\ UNCHANGED barVars
          /\ step' \in {"msi", "regions", "err_enable", "err_scan_msi"}
      BY <1>6 DEF EnableDevice, ScanForMsi, MsiFails
    <2> QED
      BY <2>1 DEF BarsInv, Found, BarsIdentified, barVars
  <1>7. CASE RequestRegions
    <2>1. step = "regions" /\ UNCHANGED barVars /\ step' \in {"bars", "err_regions"}
      BY <1>7 DEF RequestRegions
    <2>2. /\ next_bar' = 0 /\ bar_id_list' = <<>> /\ config_bar_idx' = -1 /\ config_bar_pos' = 0
          /\ user_bar_idx' = -1 /\ bypass_bar_idx' = -1
      BY <2>1 DEF BarsInv, Found, barVars
    <2>3. \A k \in {"user", "config", "bypass"} : IndexOf(k)' \in Int
      BY <1>2, IndexOfKind DEF BarsInv, DriverTypes, Bar
    <2>4. \A k \in {"user", "config", "bypass"} : ~Seen(k)' /\ Count(k)' = 0
      BY <2>2, <2>3 DEF Seen, Count
    <2>5. Len(bar_id_list') = 0
      BY <2>2, EmptySeq
    <2> QED
      BY <2>1, <2>2, <2>4, <2>5 DEF Found, BarsIdentified
  <1>8. CASE MapBar
    <2>1. /\ step = "bars" /\ next_bar < BarNum /\ next_bar' = next_bar + 1
          /\ UNCHANGED <<user_bar_idx, bypass_bar_idx>>
          /\ step' = "bars" \/ step' = "err_map"
      BY <1>8 DEF MapBar
    <2>2. BarsIdentified'
      BY <2>1 DEF BarsIdentified
    <2>3. Found'
      BY <1>1, <1>5, <1>8, <2>1, MapFound, SkipFound DEF MapBar, BarsInv
    <2> QED
      BY <2>2, <2>3
  <1>9. CASE IdentifyBars
    <2>1. CASE config_bar_idx < 0
      BY <1>5, <1>9, <2>1 DEF IdentifyBars
    <2>2. CASE ~(config_bar_idx < 0)
      <3>1. config_bar_idx >= 0
        BY <2>2 DEF BarsInv, DriverTypes, Bar
      <3>2. /\ step' = "mask" /\ config_bar_idx' = config_bar_idx
            /\ user_bar_idx' = UserBar /\ bypass_bar_idx' = BypassBar
        BY <1>9, <2>2 DEF IdentifyBars
      <3>3. /\ config_bar_idx = IndexOf("config")
            /\ UserBar = IndexOf("user")
            /\ BypassBar = IndexOf("bypass")
        BY <1>9, <3>1, IdentifyFound DEF IdentifyBars, BarsInv
      <3> QED
        BY <1>2, <3>2, <3>3 DEF Found, BarsIdentified
    <2> QED
      BY <2>1, <2>2
  <1>10. CASE SetDmaMask \/ ProbeEngines \/ MiscRegister
    <2>1. /\ step \in {"mask", "engines", "misc"} /\ UNCHANGED barVars
          /\ step' \in {"engines", "misc", "bound", "err_mask", "err_engines"}
      BY <1>10 DEF SetDmaMask, ProbeEngines, MiscRegister
    <2> QED
      BY <1>2, <2>1 DEF BarsInv, Found, BarsIdentified, barVars
  <1>11. CASE UNCHANGED vars
    BY <1>3, <1>11 DEF vars
  <1> QED
    BY <1>4, <1>5, <1>6, <1>7, <1>8, <1>9, <1>10, <1>11
       DEF Next, Probe, AllocFails, UnwindBars, UnwindRegions, UnwindMsi, UnwindDevice,
           UnwindInst, Unwind, Remove, RemoveWithout

(* The configuration, user and bypass BARs are recognised on every board   *)
(* that follows the rules, with any number of BARs and gaps between them:  *)
(* xdma_mmap() will map the user logic's BAR and no other.                 *)
THEOREM RightBars == Spec => []BarsIdentified
  <1>1. BarsInv => BarsIdentified
    BY DEF BarsInv
  <1> QED
    BY <1>1, InitBars, NextBars, PTL DEF Spec

-----------------------------------------------------------------------------
(* XdmaSession *)

Pages == {PageOf(i) : i \in 1 .. NumPages} \union {Garbage}

Labels == {"off", "set", "pin", "count", "get", "tlb", "ready", "free"}

SessionTypes ==
  /\ huge_npages \in Nat /\ huge_hnpages \in 0 .. NumHuge
  /\ tlb_table \in [0 .. TlbEntries - 1 -> Int] /\ base_vaddr \in Int
  /\ tlb_data \in Seq(Int) /\ Len(tlb_data) <= 4
  /\ pc \in [Process -> Labels]
  /\ huge_base \in [Process -> Nat] /\ pinned \in [Process -> 0 .. NumPages]
  /\ dma_addr \in [Process -> Seq(Int)] /\ entry \in [Process -> Nat]
  /\ sent \in [Process -> 0 .. 4]
  /\ alone \in [Process -> BOOLEAN] /\ mapped_alone \in [Process -> BOOLEAN]
  /\ clean \in [Process -> BOOLEAN]

(* In the driver there is a list of all pages. *)
HasList ==
  \A p \in Process : pc[p] \notin {"off", "set"} => huge_pages \in [1 .. NumPages -> Pages]

(* The pages the program has pinned are in the list. *)
OwnList(p) == \A i \in 1 .. pinned[p] : huge_pages[i] = PageOf(i)

Alone ==
  \A p \in Process : alone[p] =>
    /\ pc[p] \in {"count", "get", "tlb", "ready", "free"} => OwnList(p)
    /\ pc[p] \in {"get", "tlb", "ready", "free"} =>
         huge_npages = pinned[p] /\ huge_hnpages = HugeOf(pinned[p])

(* The addresses it was told are those of its buffer. *)
Told == \A p \in Process : Len(dma_addr[p]) <= NumHuge

Mapped ==
  \A p \in Process : mapped_alone[p] =>
    \A k \in 1 .. Len(dma_addr[p]) : dma_addr[p][k] = Phys(k - 1) * PerHuge

(* The words in the register are those of its current writeTlb(). *)
OwnWords(p) ==
  Len(tlb_data) = sent[p] /\ \A i \in 1 .. sent[p] : tlb_data[i] = WordsOf(p)[i]

(* The mappings it wrote to the TLB are there. *)
OwnEntries(p) ==
  /\ base_vaddr = VirtAddr(p, 0)
  /\ \A k \in 0 .. entry[p] - 1 : tlb_table[k] = dma_addr[p][k + 1]

Written ==
  \A p \in Process :
    /\ pc[p] = "tlb" => entry[p] <= Len(dma_addr[p])
    /\ pc[p] = "ready" => entry[p] = Len(dma_addr[p])
    /\ pc[p] = "tlb" /\ clean[p] /\ (entry[p] > 0 \/ sent[p] > 0) => OwnWords(p)
    /\ pc[p] \in {"tlb", "ready"} /\ clean[p] /\ entry[p] > 0 => OwnEntries(p)

SessionInv == SessionTypes /\ HasList /\ Alone /\ Told /\ Mapped /\ Written

-----------------------------------------------------------------------------
LEMMA SmallRemainder ==
  ASSUME NEW n \in Nat, NEW d \in Nat \ {0}, n < d
  PROVE  n % d = n
OBVIOUS

(* A huge page is counted when its first page is pinned. *)
LEMMA HugePages ==
  ASSUME NEW n \in 0 .. NumPages
  PROVE  /\ HugeOf(n) \in 0 .. NumHuge
         /\ \A k \in 1 .. HugeOf(n) : (k - 1) * PerHuge + 1 \in 1 .. n
<1>1. NumHuge \in Nat /\ PerHuge \in Nat \ {0} /\ NumPages \in Nat /\ n \in Nat
  BY SessionAssumption DEF NumPages
<1>2. CASE n = 0
  <2>1. {i \in 0 .. n - 1 : i % PerHuge = 0} = {}
    BY <1>2
  <2>2. HugeOf(n) = 0
    BY <2>1, FS_EmptySet DEF HugeOf
  <2> QED BY <1>1, <2>2
<1>3. CASE n > 0
  <2> DEFINE T == {i \in 0 .. n - 1 : i % PerHuge = 0}
             S == 0 .. (n - 1) \div PerHuge
             f == [j \in S |-> j * PerHuge]
  <2>1. (n - 1) \div PerHuge \in Nat /\ (n - 1) \div PerHuge < NumHuge
    <3>1. n - 1 \in Nat /\ n - 1 < NumHuge * PerHuge
      BY <1>1, <1>3 DEF NumPages
    <3> QED BY <1>1, <3>1
  <2>2. ASSUME NEW j \in S
        PROVE  j \in Nat /\ j * PerHuge \in 0 .. n - 1 /\ (j * PerHuge) % PerHuge = 0
               /\ (j * PerHuge) \div PerHuge = j
    <3>1. j \in Nat /\ j <= (n - 1) \div PerHuge
      BY <2>1
    <3>2. j * PerHuge \in Nat /\ j * PerHuge <= PerHuge * ((n - 1) \div PerHuge)
      BY <1>1, <2>1, <3>1
    <3>3. PerHuge * ((n - 1) \div PerHuge) <= n - 1
      BY <1>1, <1>3
    <3>4. PerHuge * ((n - 1) \div PerHuge) \in Nat
      BY <1>1, <2>1
    <3>5. j * PerHuge \in 0 .. n - 1
      BY <1>1, <3>2, <3>3, <3>4
    <3>6. (j * PerHuge) % PerHuge = 0 /\ (j * PerHuge) \div PerHuge = j
      BY <1>1, <3>1
    <3> QED BY <3>1, <3>5, <3>6
  <2>3. f \in [S -> T]
    BY <2>2
  <2>4. ASSUME NEW a \in S, NEW b \in S, f[a] = f[b] PROVE a = b
    BY <2>2, <2>4
  <2>5. ASSUME NEW i \in T PROVE \E j \in S : f[j] = i
    <3>1. i \in Nat /\ i % PerHuge = 0 /\ i <= n - 1
      BY <1>1
    <3>2. i = (i \div PerHuge) * PerHuge /\ i \div PerHuge \in Nat
      BY <1>1, <3>1
    <3>3. i \div PerHuge <= (n - 1) \div PerHuge
      BY <1>1, <1>3, <3>1
    <3>4. i \div PerHuge \in S
      BY <2>1, <3>2, <3>3
    <3> QED BY <3>2, <3>4
  <2>6. f \in Bijection(S, T)
    BY <2>3, <2>4, <2>5 DEF Bijection, Injection, Surjection, IsInjective
  <2>7. IsFiniteSet(S) /\ Cardinality(S) = (n - 1) \div PerHuge + 1
    <3> HIDE DEF T, f
    <3>1. 0 \in Int /\ (n - 1) \div PerHuge \in Int /\ ~(0 > (n - 1) \div PerHuge)
      BY <2>1
    <3>2. IsFiniteSet(S) /\ Cardinality(S) = (n - 1) \div PerHuge - 0 + 1
      BY <3>1, FS_Interval
    <3> QED BY <2>1, <3>2
  <2>8. Cardinality(T) = (n - 1) \div PerHuge + 1
    <3> HIDE DEF S, T, f
    <3> QED BY <2>6, <2>7, FS_Bijection DEF ExistsBijection
  <2>9. HugeOf(n) = (n - 1) \div PerHuge + 1
    BY <2>8 DEF HugeOf
  <2>10. ASSUME NEW k \in 1 .. HugeOf(n) PROVE (k - 1) * PerHuge + 1 \in 1 .. n
    <3>1. k - 1 \in S
      BY <2>1, <2>9
    <3>2. (k - 1) * PerHuge \in 0 .. n - 1
      BY <2>2, <3>1
    <3> QED BY <1>1, <3>2
  <2> QED BY <1>1, <2>1, <2>9, <2>10
<1> QED BY <1>1, <1>2, <1>3

(* The first page of a huge page. *)
LEMMA FirstPage ==
  ASSUME NEW k \in Nat \ {0}
  PROVE  PageOf((k - 1) * PerHuge + 1) = <<Phys(k - 1), 0>>
<1>1. PICK j \in Nat : j = k - 1
  OBVIOUS
<1>2. (j * PerHuge) \div PerHuge = j /\ (j * PerHuge) % PerHuge = 0 /\ j * PerHuge \in Nat
  BY SessionAssumption
<1>3. (j * PerHuge + 1) - 1 = j * PerHuge
  BY <1>2
<1> QED BY <1>1, <1>2, <1>3 DEF PageOf

(* The pages of the file are different. *)
LEMMA DifferentPages ==
  ASSUME NEW i \in Nat \ {0}, NEW k \in Nat \ {0}, PageOf(i) = PageOf(k)
  PROVE  i = k
<1>1. PerHuge \in Nat \ {0} /\ NumHuge \in Nat
  BY SessionAssumption
<1>2. PICK a \in Nat, b \in Nat : a = i - 1 /\ b = k - 1
  OBVIOUS
<1>3. Phys(a \div PerHuge) = Phys(b \div PerHuge) /\ a % PerHuge = b % PerHuge
  BY <1>2 DEF PageOf
<1>4. a \div PerHuge \in Int /\ b \div PerHuge \in Int
  BY <1>1
<1>5. a \div PerHuge = b \div PerHuge
  BY <1>1, <1>3, <1>4 DEF Phys
<1>6. a = b
  BY <1>1, <1>3, <1>5
<1> QED BY <1>2, <1>6

(* A page that can be in the list has an address. *)
LEMMA AddressOfPage ==
  ASSUME NEW page \in Pages
  PROVE  PageToPhys(page) \in Int
<1>1. PerHuge \in Nat \ {0} /\ NumHuge \in Nat /\ NumPages \in Nat
  BY SessionAssumption DEF NumPages
<1>2. CASE page = Garbage
  <2>1. page[1] = 0 /\ page[2] = 0
    BY <1>2 DEF Garbage
  <2> QED BY <1>1, <2>1 DEF PageToPhys
<1>3. ASSUME NEW i \in 1 .. NumPages, page = PageOf(i)
      PROVE  PageToPhys(page) \in Int
  <2>1. (i - 1) \div PerHuge \in Int /\ (i - 1) % PerHuge \in Int
    BY <1>1
  <2>2. page[1] \in Int /\ page[2] \in Int
    BY <1>1, <1>3, <2>1 DEF PageOf, Phys
  <2> QED BY <1>1, <2>2 DEF PageToPhys
<1> QED BY <1>2, <1>3 DEF Pages

(* The two words of an address make the address. *)
LEMMA TwoWords ==
  ASSUME NEW a \in Int
  PROVE  a % Word \in Int /\ a \div Word \in Int /\ (a % Word) + Word * (a \div Word) = a
BY SessionAssumption

(* The k-th huge page behind the base has the k-th entry. *)
LEMMA EntryOfPage ==
  ASSUME NEW h \in Int, NEW k \in Nat, k < TlbEntries
  PROVE  EntryOf((h + k) * PerHuge, (h + 0) * PerHuge) = k
<1>1. PerHuge \in Nat \ {0} /\ TlbEntries \in Nat \ {0}
  BY SessionAssumption
<1>2. (h + k) * PerHuge - (h + 0) * PerHuge = k * PerHuge
  BY <1>1
<1>3. (k * PerHuge) \div PerHuge = k
  BY <1>1
<1>4. k % TlbEntries = k
  BY <1>1, SmallRemainder
<1> QED BY <1>2, <1>3, <1>4 DEF EntryOf

LEMMA EntryOfAny ==
  ASSUME NEW v \in Int, NEW b \in Int
  PROVE  EntryOf(v, b) \in 0 .. TlbEntries - 1
<1>1. PerHuge \in Nat \ {0} /\ TlbEntries \in Nat \ {0}
  BY SessionAssumption
<1>2. PICK d \in Int : d = (v - b) \div PerHuge
  BY <1>1
<1>3. d % TlbEntries \in 0 .. TlbEntries - 1
  BY <1>1
<1> QED BY <1>2, <1>3 DEF EntryOf

(* What says that a program's mappings are there stays as it is. *)
LEMMA SameWords ==
  ASSUME NEW q \in Process, UNCHANGED <<tlb_data, tlb_table, base_vaddr>>,
         huge_base'[q] = huge_base[q], dma_addr'[q] = dma_addr[q],
         entry'[q] = entry[q], sent'[q] = sent[q]
  PROVE  (OwnWords(q)' <=> OwnWords(q)) /\ (OwnEntries(q)' <=> OwnEntries(q))
<1>1. WordsOf(q)' = WordsOf(q) /\ VirtAddr(q, 0)' = VirtAddr(q, 0)
  BY Zenon DEF WordsOf, VirtAddr, IsBase
<1>2. OwnWords(q)' <=> OwnWords(q)
  BY <1>1 DEF OwnWords
<1>3. OwnEntries(q)' <=> OwnEntries(q)
  BY <1>1 DEF OwnEntries
<1> QED BY <1>2, <1>3

-----------------------------------------------------------------------------
LEMMA InitSessionInv ==
  ASSUME SessionInit
  PROVE  SessionInv
<1>1. NumHuge \in Nat /\ TlbEntries \in Nat /\ NumPages \in Nat
  BY SessionAssumption DEF NumPages
<1>2. <<>> \in Seq(Int) /\ Len(<<>>) = 0
  BY EmptySeq
<1>3. SessionTypes
  <2>2. /\ tlb_table \in [0 .. TlbEntries - 1 -> Int]
        /\ tlb_data \in Seq(Int) /\ Len(tlb_data) <= 4
    BY <1>2 DEF SessionInit
  <2>3. /\ pc \in [Process -> Labels] /\ huge_base \in [Process -> Nat]
        /\ pinned \in [Process -> 0 .. NumPages] /\ entry \in [Process -> Nat]
        /\ sent \in [Process -> 0 .. 4]
    BY <1>1 DEF SessionInit, Labels
  <2>4. dma_addr \in [Process -> Seq(Int)]
    BY <1>2 DEF SessionInit
  <2> QED BY <1>1, <2>2, <2>3, <2>4 DEF SessionInit, SessionTypes
<1>4. HasList /\ Alone /\ Written
  BY <1>2 DEF SessionInit, HasList, Alone, Written
<1>5. Told /\ Mapped
  BY <1>1, <1>2 DEF SessionInit, Told, Mapped
<1> QED BY <1>3, <1>4, <1>5 DEF SessionInv

LEMMA MapBufferStep ==
  ASSUME SessionInv, NEW p \in Process, NEW base \in Bases, MapBuffer(p, base)
  PROVE  SessionInv'
<1>1. SessionTypes /\ HasList /\ Alone /\ Told /\ Mapped /\ Written
  BY DEF SessionInv
<1>0. pc \in [Process -> Labels]
  BY <1>1 DEF SessionTypes
<1>2. /\ pc' \in [Process -> Labels]
      /\ \A q \in Process : pc'[q] = IF q = p THEN "set" ELSE pc[q]
  BY <1>0 DEF MapBuffer, Goto, Labels
<1>3. UNCHANGED <<driverVars, tlbVars, pinned, dma_addr, entry, sent, presence>>
  BY DEF MapBuffer
<1>4. /\ huge_base' \in [Process -> Nat]
      /\ \A q \in Process : q # p => huge_base'[q] = huge_base[q]
  BY <1>1, SessionAssumption DEF MapBuffer, SessionTypes
<1>5. SessionTypes'
  BY <1>1, <1>2, <1>3, <1>4 DEF SessionTypes, driverVars, tlbVars, presence
<1>6. HasList' /\ Told' /\ Mapped'
  BY <1>1, <1>2, <1>3 DEF HasList, Told, Mapped, driverVars, presence
<1>7. Alone'
  BY <1>1, <1>2, <1>3 DEF Alone, OwnList, driverVars, presence
<1>8. Written'
  BY <1>1, <1>2, <1>3, <1>4, SameWords DEF Written, tlbVars, presence
<1> QED BY <1>5, <1>6, <1>7, <1>8 DEF SessionInv

LEMMA BufferSetAllocStep ==
  ASSUME SessionInv, NEW p \in Process, BufferSetAlloc(p)
  PROVE  SessionInv'
<1>1. SessionTypes /\ HasList /\ Alone /\ Told /\ Mapped /\ Written
  BY DEF SessionInv
<1>0. pc \in [Process -> Labels]
  BY <1>1 DEF SessionTypes
<1>2. /\ pc' \in [Process -> Labels]
      /\ \A q \in Process : pc'[q] = IF q = p THEN "pin" ELSE pc[q]
  BY <1>0 DEF BufferSetAlloc, Goto, Labels
<1>3. UNCHANGED <<huge_npages, huge_hnpages, tlbVars, huge_base, pinned, dma_addr, entry, sent,
                  mapped_alone, clean>>
  BY DEF BufferSetAlloc
<1>4. huge_pages' \in [1 .. NumPages -> Pages]
  BY DEF BufferSetAlloc, Pages
<1>5. alone' \in [Process -> BOOLEAN] /\ \A q \in Process : q # p => alone'[q] = FALSE
  BY <1>1 DEF BufferSetAlloc, Disturb, SessionTypes
<1>6. SessionTypes'
  BY <1>1, <1>2, <1>3, <1>5 DEF SessionTypes, tlbVars
<1>7. HasList' /\ Told' /\ Mapped'
  BY <1>1, <1>2, <1>3, <1>4 DEF HasList, Told, Mapped
<1>8. Alone'
  BY <1>2, <1>5 DEF Alone
<1>9. Written'
  BY <1>1, <1>2, <1>3, SameWords DEF Written, tlbVars
<1> QED BY <1>6, <1>7, <1>8, <1>9 DEF SessionInv

LEMMA BufferSetPinStep ==
  ASSUME SessionInv, NEW p \in Process, NEW n \in Pins, BufferSetPin(p, n)
  PROVE  SessionInv'
<1>1. SessionTypes /\ HasList /\ Alone /\ Told /\ Mapped /\ Written /\ NumPages \in Nat
      /\ n \in 1 .. NumPages
  BY SessionAssumption DEF SessionInv, NumPages
<1>0. pc \in [Process -> Labels]
  BY <1>1 DEF SessionTypes
<1>2. /\ pc' \in [Process -> Labels]
      /\ \A q \in Process : pc'[q] = IF q = p THEN "count" ELSE pc[q]
  BY <1>0 DEF BufferSetPin, Goto, Labels
<1>3. UNCHANGED <<huge_npages, huge_hnpages, tlbVars, huge_base, dma_addr, entry, sent,
                  mapped_alone, clean>>
  BY DEF BufferSetPin
<1>4. huge_pages \in [1 .. NumPages -> Pages] /\ pc[p] = "pin"
  BY <1>1 DEF HasList, BufferSetPin
<1>5. /\ huge_pages' \in [1 .. NumPages -> Pages]
      /\ \A i \in 1 .. n : huge_pages'[i] = PageOf(i)
  <2>1. \A i \in 1 .. NumPages : PageOf(i) \in Pages
    BY DEF Pages
  <2>2. huge_pages' = [i \in 1 .. NumPages |-> IF i <= n THEN PageOf(i) ELSE huge_pages[i]]
    BY DEF BufferSetPin
  <2> QED BY <1>1, <1>4, <2>1, <2>2
<1>6. pinned' \in [Process -> 0 .. NumPages] /\ pinned'[p] = n
  BY <1>1 DEF BufferSetPin, SessionTypes
<1>7. alone' \in [Process -> BOOLEAN] /\ \A q \in Process : q # p => alone'[q] = FALSE
  BY <1>1 DEF BufferSetPin, Disturb, SessionTypes
<1>8. SessionTypes'
  BY <1>1, <1>2, <1>3, <1>6, <1>7 DEF SessionTypes, tlbVars
<1>9. HasList' /\ Told' /\ Mapped'
  BY <1>1, <1>2, <1>3, <1>5 DEF HasList, Told, Mapped
<1>10. Alone'
  BY <1>2, <1>5, <1>6, <1>7 DEF Alone, OwnList
<1>11. Written'
  BY <1>1, <1>2, <1>3, SameWords DEF Written, tlbVars
<1> QED BY <1>8, <1>9, <1>10, <1>11 DEF SessionInv

LEMMA BufferSetCountStep ==
  ASSUME SessionInv, NEW p \in Process, BufferSetCount(p)
  PROVE  SessionInv'
<1>1. SessionTypes /\ HasList /\ Alone /\ Told /\ Mapped /\ Written /\ NumPages \in Nat
  BY SessionAssumption DEF SessionInv, NumPages
<1>0. pc \in [Process -> Labels]
  BY <1>1 DEF SessionTypes
<1>2. /\ pc' \in [Process -> Labels]
      /\ \A q \in Process : pc'[q] = IF q = p THEN "get" ELSE pc[q]
  BY <1>0 DEF BufferSetCount, Goto, Labels
<1>3. UNCHANGED <<huge_pages, tlbVars, huge_base, pinned, dma_addr, entry, sent,
                  mapped_alone, clean>>
  BY DEF BufferSetCount
<1>4. /\ pc[p] = "count" /\ huge_npages' = pinned[p] /\ huge_hnpages' = HugeOf(pinned[p])
  BY DEF BufferSetCount
<1>5. huge_npages' \in Nat /\ huge_hnpages' \in 0 .. NumHuge
  BY <1>1, <1>4, HugePages DEF SessionTypes
<1>6. alone' = [q \in Process |-> IF q = p THEN alone[p] ELSE FALSE]
  BY <1>1 DEF BufferSetCount, Disturb, SessionTypes
<1>7. SessionTypes'
  BY <1>1, <1>2, <1>3, <1>5, <1>6 DEF SessionTypes, tlbVars
<1>8. HasList' /\ Told' /\ Mapped'
  BY <1>1, <1>2, <1>3, <1>4 DEF HasList, Told, Mapped
<1>9. Alone'
  BY <1>1, <1>2, <1>3, <1>4, <1>6 DEF Alone, OwnList
<1>10. Written'
  BY <1>1, <1>2, <1>3, SameWords DEF Written, tlbVars
<1> QED BY <1>7, <1>8, <1>9, <1>10 DEF SessionInv

(* What MAPPING_GET returns: as many addresses as there are huge pages, of *)
(* the buffer if the list is the caller's.                                 *)
LEMMA MappingGetStep ==
  ASSUME SessionInv, NEW p \in Process, MappingGet(p)
  PROVE  SessionInv'
<1>1. SessionTypes /\ HasList /\ Alone /\ Told /\ Mapped /\ Written
  BY DEF SessionInv
<1>0. pc \in [Process -> Labels]
  BY <1>1 DEF SessionTypes
<1>2. /\ pc' \in [Process -> Labels] /\ pc[p] = "get"
      /\ \A q \in Process : pc'[q] = IF q = p THEN "tlb" ELSE pc[q]
  BY <1>0 DEF MappingGet, Goto, Labels
<1>3. UNCHANGED <<driverVars, tlbVars, huge_base, pinned, alone, clean>>
  BY DEF MappingGet
<1>4. /\ huge_pages \in [1 .. NumPages -> Pages]
      /\ huge_hnpages \in 0 .. NumHuge /\ NumHuge \in Nat /\ PerHuge \in Nat \ {0}
      /\ dma_addr \in [Process -> Seq(Int)] /\ entry \in [Process -> Nat]
      /\ sent \in [Process -> 0 .. 4]
      /\ mapped_alone \in [Process -> BOOLEAN] /\ alone \in [Process -> BOOLEAN]
  BY <1>1, <1>2, SessionAssumption DEF HasList, SessionTypes
<1>5. PICK a : a = Addresses
  OBVIOUS
<1>6. dma_addr' = [dma_addr EXCEPT ![p] = a]
  <2>1. ~(NumHuge < huge_hnpages)
    BY <1>4
  <2> QED BY <1>5, <2>1 DEF MappingGet
<1>7. a \in Seq(Int) /\ Len(a) = huge_hnpages
      /\ \A k \in 1 .. huge_hnpages : a[k] = PageToPhys(huge_pages[(k - 1) * PerHuge + 1])
  <2>1. ASSUME NEW k \in 1 .. huge_hnpages
        PROVE  huge_pages[(k - 1) * PerHuge + 1] \in Pages
    <3>1. PICK j \in Nat : j = k - 1 /\ j <= NumHuge - 1
      BY <1>4
    <3>2. j * PerHuge \in Nat /\ j * PerHuge <= (NumHuge - 1) * PerHuge
      BY <1>4, <3>1
    <3>3. (NumHuge - 1) * PerHuge = NumPages - PerHuge
      BY <1>4 DEF NumPages
    <3>4. j * PerHuge + 1 \in 1 .. NumPages
      <4>1. NumPages \in Nat
        BY <1>4 DEF NumPages
      <4>2. j * PerHuge <= NumPages - PerHuge /\ PerHuge >= 1 /\ PerHuge \in Nat
        <5>1. PICK y \in Int : y = (NumHuge - 1) * PerHuge /\ j * PerHuge <= y
          BY <1>4, <3>2
        <5>2. y = NumPages - PerHuge
          BY <3>3, <5>1
        <5>3. j * PerHuge <= NumPages - PerHuge
          BY <5>1, <5>2
        <5>4. PerHuge >= 1 /\ PerHuge \in Nat
          BY <1>4
        <5> QED BY <5>3, <5>4
      <4>3. PICK x \in Nat : x = j * PerHuge
        BY <3>2
      <4>4. x + 1 \in 1 .. NumPages
        BY <4>1, <4>2, <4>3
      <4> QED BY <4>3, <4>4
    <3> QED BY <1>4, <3>1, <3>4
  <2>2. a = [k \in 1 .. huge_hnpages |-> PageToPhys(huge_pages[(k - 1) * PerHuge + 1])]
    BY <1>5 DEF Addresses
  <2>6. \A k \in 1 .. huge_hnpages : PageToPhys(huge_pages[(k - 1) * PerHuge + 1]) \in Int
    BY <2>1, AddressOfPage, Zenon
  <2>3. huge_hnpages \in Nat
    BY <1>4
  <2>4. a \in [1 .. huge_hnpages -> Int]
    BY <2>2, <2>6
  <2>5. a \in Seq(Int) /\ Len(a) = huge_hnpages
    BY <2>3, <2>4, SeqDef, LenProperties
  <2> QED BY <2>2, <2>5
<1>8. ASSUME alone[p], NEW k \in 1 .. huge_hnpages
      PROVE  a[k] = Phys(k - 1) * PerHuge
  <2>1. OwnList(p) /\ huge_hnpages = HugeOf(pinned[p])
    BY <1>1, <1>2, <1>8 DEF Alone
  <2>2. pinned[p] \in 0 .. NumPages
    BY <1>1 DEF SessionTypes
  <2>3. (k - 1) * PerHuge + 1 \in 1 .. pinned[p]
    BY <2>1, <2>2, HugePages
  <2>4. huge_pages[(k - 1) * PerHuge + 1] = PageOf((k - 1) * PerHuge + 1)
    BY <2>1, <2>3 DEF OwnList
  <2>5. k \in Nat \ {0} /\ Phys(k - 1) \in Int
    BY <1>4 DEF Phys
  <2>6. a[k] = PageToPhys(<<Phys(k - 1), 0>>)
    BY <1>7, <2>4, <2>5, FirstPage, Zenon
  <2>7. PICK y \in Int : y = Phys(k - 1)
    BY <2>5
  <2>8. PageToPhys(<<y, 0>>) = y * PerHuge
    BY <1>4 DEF PageToPhys
  <2> QED BY <2>6, <2>7, <2>8
<1>9. /\ dma_addr' \in [Process -> Seq(Int)]
      /\ dma_addr'[p] = a /\ \A q \in Process : q # p => dma_addr'[q] = dma_addr[q]
  BY <1>4, <1>6, <1>7
<1>10. /\ entry' \in [Process -> Nat] /\ entry'[p] = 0
       /\ \A q \in Process : q # p => entry'[q] = entry[q]
       /\ sent' \in [Process -> 0 .. 4] /\ sent'[p] = 0
       /\ \A q \in Process : q # p => sent'[q] = sent[q]
       /\ mapped_alone' \in [Process -> BOOLEAN] /\ (mapped_alone'[p] <=> alone[p])
       /\ \A q \in Process : q # p => mapped_alone'[q] = mapped_alone[q]
  BY <1>4 DEF MappingGet
<1>11. SessionTypes'
  BY <1>1, <1>2, <1>3, <1>9, <1>10 DEF SessionTypes, driverVars, tlbVars
<1>12. HasList'
  BY <1>1, <1>2, <1>3 DEF HasList, driverVars
<1>13. Alone'
  BY <1>1, <1>2, <1>3 DEF Alone, OwnList, driverVars
<1>14. Told'
  <2>1. Len(a) <= NumHuge
    BY <1>4, <1>7
  <2> QED BY <1>1, <1>9, <2>1 DEF Told
<1>15. Mapped'
  <2> SUFFICES ASSUME NEW q \in Process, mapped_alone'[q], NEW k \in 1 .. Len(dma_addr'[q])
               PROVE  dma_addr'[q][k] = Phys(k - 1) * PerHuge
    BY DEF Mapped
  <2>1. CASE q = p
    BY <1>7, <1>8, <1>9, <1>10, <2>1
  <2>2. CASE q # p
    <3>1. mapped_alone[q] /\ dma_addr'[q] = dma_addr[q]
      BY <1>9, <1>10, <2>2
    <3> QED BY <1>1, <3>1 DEF Mapped
  <2> QED BY <2>1, <2>2
<1>16. Written'
  <2> SUFFICES ASSUME NEW q \in Process
               PROVE  /\ pc'[q] = "tlb" => entry'[q] <= Len(dma_addr'[q])
                      /\ pc'[q] = "ready" => entry'[q] = Len(dma_addr'[q])
                      /\ pc'[q] = "tlb" /\ clean'[q] /\ (entry'[q] > 0 \/ sent'[q] > 0)
                           => OwnWords(q)'
                      /\ pc'[q] \in {"tlb", "ready"} /\ clean'[q] /\ entry'[q] > 0
                           => OwnEntries(q)'
    BY DEF Written
  <2>1. CASE q = p
    <3>1. /\ entry'[q] = 0 /\ sent'[q] = 0 /\ pc'[q] = "tlb"
          /\ Len(dma_addr'[q]) = huge_hnpages
      BY <1>2, <1>7, <1>9, <1>10, <2>1
    <3> QED BY <1>4, <3>1
  <2>2. CASE q # p
    BY <1>1, <1>2, <1>3, <1>9, <1>10, <2>2, SameWords DEF Written, tlbVars
  <2> QED BY <2>1, <2>2
<1> QED BY <1>11, <1>12, <1>13, <1>14, <1>15, <1>16 DEF SessionInv

(* A word that p writes with its own words before it: it is the next of    *)
(* its mapping, and the fifth completes the mapping.                       *)
LEMMA OwnMapping ==
  ASSUME SessionTypes, Told, NEW p \in Process, entry[p] < Len(dma_addr[p]),
         NEW words \in Seq(Int), Len(words) = 5, \A i \in 1 .. 5 : words[i] = WordsOf(p)[i],
         entry[p] > 0 => OwnEntries(p), TakeMapping(words)
  PROVE  /\ base_vaddr' = VirtAddr(p, 0)
         /\ \A k \in 0 .. entry[p] : tlb_table'[k] = dma_addr[p][k + 1]
<1>1. /\ tlb_table \in [0 .. TlbEntries - 1 -> Int] /\ PerHuge \in Nat \ {0}
      /\ NumHuge \in Nat /\ TlbEntries \in Nat \ {0} /\ NumHuge <= TlbEntries
      /\ dma_addr[p] \in Seq(Int) /\ Len(dma_addr[p]) <= NumHuge
  BY SessionAssumption DEF SessionTypes, Told
<1>2. PICK e \in Nat, h \in Nat : e = entry[p] /\ h = huge_base[p]
  BY DEF SessionTypes
<1>3. e < TlbEntries /\ e + 1 \in 1 .. Len(dma_addr[p])
  <2>1. PICK l \in Nat : l = Len(dma_addr[p]) /\ l <= NumHuge
    BY <1>1, LenProperties
  <2>2. e < l
    BY <1>2, <2>1
  <2>3. e < TlbEntries /\ e + 1 \in 1 .. l
    BY <1>1, <2>1, <2>2
  <2> QED BY <2>1, <2>3
<1>4. PICK v \in Int, b \in Int, a \in Int :
        v = (h + e) * PerHuge /\ b = (h + 0) * PerHuge /\ a = dma_addr[p][e + 1]
  <2>1. (h + e) * PerHuge \in Int /\ (h + 0) * PerHuge \in Int
    BY <1>1
  <2>2. dma_addr[p][e + 1] \in Int
    BY <1>1, <1>3, ElementOfSeq
  <2> QED BY <2>1, <2>2
<1>5. VirtAddr(p, e) = v /\ VirtAddr(p, 0) = b
  BY <1>2, <1>4 DEF VirtAddr
<1>6. /\ words[1] = v % Word /\ words[2] = v \div Word
      /\ words[3] = a % Word /\ words[4] = a \div Word
      /\ words[5] = IF e = 0 THEN 1 ELSE 0
  <2>1. WordsOf(p) = <<v % Word, v \div Word, a % Word, a \div Word, IF e = 0 THEN 1 ELSE 0>>
    BY <1>2, <1>4, <1>5 DEF WordsOf, IsBase
  <2>2. \A i \in 1 .. 5 : words[i] = WordsOf(p)[i]
    OBVIOUS
  <2>3. /\ words[1] = WordsOf(p)[1] /\ words[2] = WordsOf(p)[2] /\ words[3] = WordsOf(p)[3]
        /\ words[4] = WordsOf(p)[4] /\ words[5] = WordsOf(p)[5]
    BY <2>2
  <2> QED BY <2>1, <2>3
<1>7. words[1] + Word * words[2] = v /\ words[3] + Word * words[4] = a
  BY <1>6, TwoWords
<1>8. (IF words[5] % 2 = 1 THEN v ELSE base_vaddr) = b
  <2>1. CASE e = 0
    <3>1. words[5] % 2 = 1 /\ v = b
      BY <1>4, <1>6, <2>1
    <3> QED BY <3>1
  <2>2. CASE e > 0
    <3>0. words[5] = 0 /\ ~(0 % 2 = 1)
      BY <1>6, <2>2
    <3>1. ~(words[5] % 2 = 1)
      BY <3>0
    <3>2. base_vaddr = b
      BY <1>2, <1>5, <2>2 DEF OwnEntries
    <3> QED BY <3>1, <3>2
  <2> QED BY <1>2, <2>1, <2>2
<1>9. EntryOf(v, b) = e
  <2>1. EntryOf((h + e) * PerHuge, (h + 0) * PerHuge) = e
    BY <1>3, EntryOfPage
  <2> QED BY <1>4, <2>1
<1>10. base_vaddr' = b /\ tlb_table' = [tlb_table EXCEPT ![e] = a]
  BY <1>7, <1>8, <1>9 DEF TakeMapping
<1>11. ASSUME NEW k \in 0 .. entry[p] PROVE tlb_table'[k] = dma_addr[p][k + 1]
  <2>1. CASE k = e
    BY <1>1, <1>3, <1>4, <1>10, <2>1
  <2>2. CASE k < e
    <3>0. k \in Nat /\ k < TlbEntries /\ k # e /\ k <= e - 1 /\ e > 0
      <4>1. k \in Nat
        BY <1>2, <1>11
      <4>2. TlbEntries \in Nat
        BY <1>1
      <4> QED BY <1>3, <2>2, <4>1, <4>2
    <3>1. k \in 0 .. TlbEntries - 1 /\ k # e /\ k \in 0 .. entry[p] - 1 /\ entry[p] > 0
      BY <1>1, <1>2, <3>0
    <3>2. tlb_table[k] = dma_addr[p][k + 1]
      BY <3>1 DEF OwnEntries
    <3> QED BY <1>1, <1>10, <3>1, <3>2
  <2> QED BY <1>2, <1>11, <2>1, <2>2
<1> QED BY <1>5, <1>10, <1>11

(* Whatever five words make, it is a mapping. *)
LEMMA AnyMapping ==
  ASSUME SessionTypes, NEW words \in Seq(Int), Len(words) = 5, TakeMapping(words)
  PROVE  tlb_table' \in [0 .. TlbEntries - 1 -> Int] /\ base_vaddr' \in Int
<1>1. /\ words[1] \in Int /\ words[2] \in Int /\ words[3] \in Int /\ words[4] \in Int
      /\ words[5] \in Int
  BY ElementOfSeq
<1>2. PICK v \in Int, a \in Int : v = words[1] + Word * words[2] /\ a = words[3] + Word * words[4]
  BY <1>1, SessionAssumption
<1>3. PICK b \in Int : b = IF words[5] % 2 = 1 THEN v ELSE base_vaddr
  BY DEF SessionTypes
<1>4. EntryOf(v, b) \in 0 .. TlbEntries - 1
  BY EntryOfAny
<1>5. base_vaddr' = b /\ tlb_table' = [tlb_table EXCEPT ![EntryOf(v, b)] = a]
  BY <1>2, <1>3 DEF TakeMapping
<1> QED BY <1>4, <1>5 DEF SessionTypes

(* The next word goes behind those of the same mapping, and the next entry *)
(* behind those that are there, the first one to the base.                 *)
LEMMA WriteTlbStep ==
  ASSUME SessionInv, NEW p \in Process, WriteTlb(p)
  PROVE  SessionInv'
<1>1. SessionTypes /\ HasList /\ Alone /\ Told /\ Mapped /\ Written
  BY DEF SessionInv
<1>2. /\ UNCHANGED <<driverVars, pc, huge_base, pinned, dma_addr, alone, mapped_alone>>
      /\ pc[p] = "tlb" /\ entry[p] < Len(dma_addr[p])
  BY DEF WriteTlb
<1>3. /\ tlb_data \in Seq(Int) /\ Len(tlb_data) \in 0 .. 4
      /\ entry \in [Process -> Nat] /\ sent \in [Process -> 0 .. 4]
      /\ clean \in [Process -> BOOLEAN]
      /\ entry[p] \in Nat /\ sent[p] \in 0 .. 4 /\ dma_addr[p] \in Seq(Int)
      /\ Len(dma_addr[p]) \in Nat
  <2>1. tlb_data \in Seq(Int) /\ Len(tlb_data) <= 4 /\ dma_addr[p] \in Seq(Int)
    BY <1>1 DEF SessionTypes
  <2>2. Len(tlb_data) \in Nat /\ Len(dma_addr[p]) \in Nat
    BY <2>1, LenProperties
  <2>3. Len(tlb_data) \in 0 .. 4
    <3>1. PICK m \in Nat : m = Len(tlb_data) /\ m <= 4
      BY <2>1, <2>2
    <3>2. m \in 0 .. 4
      BY <3>1
    <3> QED BY <3>1, <3>2
  <2>4. /\ entry \in [Process -> Nat] /\ sent \in [Process -> 0 .. 4]
        /\ clean \in [Process -> BOOLEAN]
    BY <1>1 DEF SessionTypes
  <2>5. entry[p] \in Nat /\ sent[p] \in 0 .. 4
    BY <2>4
  <2> QED BY <2>1, <2>2, <2>3, <2>4, <2>5
<1>4. PICK W : W = WordsOf(p)
  OBVIOUS
<1>5. W[sent[p] + 1] \in Int
  <2>1. PICK v \in Int, a \in Int : v = VirtAddr(p, entry[p]) /\ a = dma_addr[p][entry[p] + 1]
    <3>1. VirtAddr(p, entry[p]) \in Int
      BY <1>1, <1>3, SessionAssumption DEF VirtAddr, SessionTypes
    <3>2. entry[p] + 1 \in 1 .. Len(dma_addr[p])
      BY <1>2, <1>3
    <3>3. dma_addr[p][entry[p] + 1] \in Int
      BY <1>3, <3>2, ElementOfSeq
    <3> QED BY <3>1, <3>3
  <2>2. PICK x \in {0, 1} : x = IF IsBase(entry[p]) THEN 1 ELSE 0
    OBVIOUS
  <2>3. W = <<v % Word, v \div Word, a % Word, a \div Word, x>>
    BY <1>4, <2>1, <2>2 DEF WordsOf
  <2>4. v % Word \in Int /\ v \div Word \in Int /\ a % Word \in Int /\ a \div Word \in Int
    BY TwoWords
  <2> QED BY <1>3, <2>3, <2>4
<1>6. PICK words : words = Append(tlb_data, W[sent[p] + 1])
  OBVIOUS
<1>7. /\ words \in Seq(Int) /\ Len(words) = Len(tlb_data) + 1
      /\ words[Len(tlb_data) + 1] = W[sent[p] + 1]
      /\ \A i \in 1 .. Len(tlb_data) : words[i] = tlb_data[i]
  BY <1>3, <1>5, <1>6, AppendProperties
<1>8. IF Len(words) < 5
      THEN tlb_data' = words /\ UNCHANGED <<tlb_table, base_vaddr>>
      ELSE tlb_data' = <<>> /\ TakeMapping(words)
  BY <1>4, <1>6 DEF WriteTlb, TakeWord
<1>9. /\ entry' \in [Process -> Nat] /\ sent' \in [Process -> 0 .. 4]
      /\ entry'[p] = (IF sent[p] = 4 THEN entry[p] + 1 ELSE entry[p])
      /\ sent'[p] = (sent[p] + 1) % 5
      /\ \A q \in Process : q # p => entry'[q] = entry[q] /\ sent'[q] = sent[q]
  <2>1. (sent[p] + 1) % 5 \in 0 .. 4
    BY <1>3
  <2>2. /\ sent' = [sent EXCEPT ![p] = (sent[p] + 1) % 5]
        /\ entry' = [entry EXCEPT ![p] = IF sent[p] = 4 THEN entry[p] + 1 ELSE entry[p]]
    BY DEF WriteTlb
  <2> QED BY <1>3, <2>1, <2>2
<1>10. /\ clean' \in [Process -> BOOLEAN]
       /\ clean'[p] <=> IF entry[p] = 0 /\ sent[p] = 0 THEN tlb_data = <<>> ELSE clean[p]
       /\ \A q \in Process : q # p => ~clean'[q]
  <2>1. clean' = [q \in Process |->
                    /\ q = p
                    /\ IF entry[p] = 0 /\ sent[p] = 0 THEN tlb_data = <<>> ELSE clean[p]]
    BY DEF WriteTlb
  <2>2. (IF entry[p] = 0 /\ sent[p] = 0 THEN tlb_data = <<>> ELSE clean[p]) \in BOOLEAN
    BY <1>3
  <2> QED BY <2>1, <2>2
<1>11. /\ tlb_table' \in [0 .. TlbEntries - 1 -> Int] /\ base_vaddr' \in Int
       /\ tlb_data' \in Seq(Int) /\ Len(tlb_data') <= 4
  <2>1. CASE Len(words) < 5
    BY <1>1, <1>3, <1>7, <1>8, <2>1 DEF SessionTypes
  <2>2. CASE ~(Len(words) < 5)
    <3>0. Len(words) = 5
      <4>1. PICK m \in 0 .. 4 : m = Len(tlb_data)
        BY <1>3
      <4>2. PICK l \in Nat : l = Len(words) /\ l = m + 1 /\ ~(l < 5)
        BY <1>7, <2>2, <4>1
      <4>3. l = 5
        BY <4>2
      <4> QED BY <4>2, <4>3
    <3>1. Len(words) = 5 /\ tlb_data' = <<>> /\ TakeMapping(words)
      BY <1>8, <2>2, <3>0
    <3>2. tlb_table' \in [0 .. TlbEntries - 1 -> Int] /\ base_vaddr' \in Int
      BY <1>1, <1>7, <3>1, AnyMapping
    <3> QED BY <3>1, <3>2, EmptySeq
  <2> QED BY <2>1, <2>2
<1>12. SessionTypes'
  BY <1>1, <1>2, <1>9, <1>10, <1>11 DEF SessionTypes, driverVars
<1>13. HasList' /\ Told' /\ Mapped'
  BY <1>1, <1>2 DEF HasList, Told, Mapped, driverVars
<1>14. Alone'
  BY <1>1, <1>2 DEF Alone, OwnList, driverVars
<1>15. ASSUME clean'[p]
       PROVE  /\ Len(words) = sent[p] + 1 /\ \A i \in 1 .. sent[p] + 1 : words[i] = W[i]
              /\ entry[p] > 0 => OwnEntries(p)
  <2>1. Len(tlb_data) = sent[p] /\ \A i \in 1 .. sent[p] : tlb_data[i] = W[i]
    <3>1. CASE entry[p] = 0 /\ sent[p] = 0
      BY <1>10, <1>15, <3>1, EmptySeq
    <3>2. CASE ~(entry[p] = 0 /\ sent[p] = 0)
      <4>1. clean[p] /\ (entry[p] > 0 \/ sent[p] > 0)
        BY <1>3, <1>10, <1>15, <3>2
      <4>2. OwnWords(p)
        BY <1>1, <1>2, <4>1 DEF Written
      <4> QED BY <1>4, <4>2 DEF OwnWords
    <3> QED BY <3>1, <3>2
  <2>2. ASSUME NEW i \in 1 .. sent[p] + 1 PROVE words[i] = W[i]
    <3>1. i = sent[p] + 1 \/ i \in 1 .. sent[p]
      BY <1>3
    <3> QED BY <1>7, <2>1, <3>1
  <2>3. entry[p] > 0 => OwnEntries(p)
    <3> SUFFICES ASSUME entry[p] > 0 PROVE OwnEntries(p)
      OBVIOUS
    <3>1. clean[p]
      BY <1>3, <1>10, <1>15
    <3> QED BY <1>1, <1>2, <3>1 DEF Written
  <2> QED BY <1>7, <2>1, <2>2, <2>3
<1>16. ASSUME clean'[p] PROVE OwnWords(p)'
  <2>1. CASE sent[p] < 4
    <3>1. /\ sent'[p] = sent[p] + 1 /\ entry'[p] = entry[p]
      BY <1>3, <1>9, <2>1
    <3>2. tlb_data' = words
      BY <1>3, <1>8, <1>15, <1>16, <2>1
    <3>3. WordsOf(p)' = W
      BY <1>2, <1>4, <3>1 DEF WordsOf, VirtAddr, IsBase
    <3> QED BY <1>15, <1>16, <3>1, <3>2, <3>3 DEF OwnWords
  <2>2. CASE sent[p] = 4
    <3>0. Len(words) = 4 + 1 /\ ~(4 + 1 < 5) /\ (4 + 1) % 5 = 0
      BY <1>15, <1>16, <2>2
    <3>1. sent'[p] = 0 /\ tlb_data' = <<>>
      BY <1>8, <1>9, <2>2, <3>0
    <3> QED BY <3>1, EmptySeq DEF OwnWords
  <2> QED BY <1>3, <2>1, <2>2
<1>17. ASSUME clean'[p], entry'[p] > 0 PROVE OwnEntries(p)'
  <2>0. VirtAddr(p, 0)' = VirtAddr(p, 0)
    BY <1>2 DEF VirtAddr
  <2>1. CASE sent[p] < 4
    <3>1. entry'[p] = entry[p] /\ UNCHANGED <<tlb_table, base_vaddr>>
      BY <1>3, <1>8, <1>9, <1>15, <1>17, <2>1
    <3>2. OwnEntries(p)
      BY <1>15, <1>17, <3>1
    <3> QED BY <1>2, <2>0, <3>1, <3>2 DEF OwnEntries
  <2>2. CASE sent[p] = 4
    <3>1. Len(words) = 5 /\ entry'[p] - 1 = entry[p] /\ sent[p] + 1 = 5
      BY <1>3, <1>9, <1>15, <1>17, <2>2
    <3>2. TakeMapping(words)
      BY <1>8, <3>1
    <3>3. \A i \in 1 .. 5 : words[i] = WordsOf(p)[i]
      BY <1>4, <1>15, <1>17, <3>1
    <3>4. /\ base_vaddr' = VirtAddr(p, 0)
          /\ \A k \in 0 .. entry[p] : tlb_table'[k] = dma_addr[p][k + 1]
      BY <1>1, <1>2, <1>7, <1>15, <1>17, <3>1, <3>2, <3>3, OwnMapping
    <3> QED BY <1>2, <2>0, <3>1, <3>4 DEF OwnEntries
  <2> QED BY <1>3, <2>1, <2>2
<1>18. Written'
  <2> SUFFICES ASSUME NEW q \in Process
               PROVE  /\ pc'[q] = "tlb" => entry'[q] <= Len(dma_addr'[q])
                      /\ pc'[q] = "ready" => entry'[q] = Len(dma_addr'[q])
                      /\ pc'[q] = "tlb" /\ clean'[q] /\ (entry'[q] > 0 \/ sent'[q] > 0)
                           => OwnWords(q)'
                      /\ pc'[q] \in {"tlb", "ready"} /\ clean'[q] /\ entry'[q] > 0
                           => OwnEntries(q)'
    BY DEF Written
  <2>1. CASE q = p
    <3>1. pc'[q] = "tlb" /\ entry'[q] <= Len(dma_addr'[q])
      BY <1>2, <1>3, <1>9, <2>1
    <3> QED BY <1>16, <1>17, <2>1, <3>1
  <2>2. CASE q # p
    BY <1>1, <1>2, <1>9, <1>10, <2>2 DEF Written
  <2> QED BY <2>1, <2>2
<1> QED BY <1>12, <1>13, <1>14, <1>18 DEF SessionInv

LEMMA ReadyStep ==
  ASSUME SessionInv, NEW p \in Process, Ready(p)
  PROVE  SessionInv'
<1>1. SessionTypes /\ HasList /\ Alone /\ Told /\ Mapped /\ Written
  BY DEF SessionInv
<1>0. pc \in [Process -> Labels]
  BY <1>1 DEF SessionTypes
<1>2. /\ pc' \in [Process -> Labels] /\ pc[p] = "tlb" /\ entry[p] = Len(dma_addr[p])
      /\ \A q \in Process : pc'[q] = IF q = p THEN "ready" ELSE pc[q]
  BY <1>0 DEF Ready, Goto, Labels
<1>3. UNCHANGED <<driverVars, tlbVars, huge_base, pinned, dma_addr, entry, sent, presence>>
  BY DEF Ready
<1>4. SessionTypes'
  BY <1>1, <1>2, <1>3 DEF SessionTypes, driverVars, tlbVars, presence
<1>5. HasList' /\ Told' /\ Mapped'
  BY <1>1, <1>2, <1>3 DEF HasList, Told, Mapped, driverVars, presence
<1>6. Alone'
  BY <1>1, <1>2, <1>3 DEF Alone, OwnList, driverVars, presence
<1>7. Written'
  BY <1>1, <1>2, <1>3, SameWords DEF Written, tlbVars, presence
<1> QED BY <1>4, <1>5, <1>6, <1>7 DEF SessionInv

LEMMA ReleasePagesStep ==
  ASSUME SessionInv, NEW p \in Process, ReleasePages(p)
  PROVE  SessionInv'
<1>1. SessionTypes /\ HasList /\ Alone /\ Told /\ Mapped /\ Written
  BY DEF SessionInv
<1>0. pc \in [Process -> Labels]
  BY <1>1 DEF SessionTypes
<1>2. /\ pc' \in [Process -> Labels] /\ pc[p] = "ready"
      /\ \A q \in Process : pc'[q] = IF q = p THEN "free" ELSE pc[q]
  BY <1>0 DEF ReleasePages, Goto, Labels
<1>3. UNCHANGED <<driverVars, tlbVars, huge_base, pinned, dma_addr, entry, sent, presence>>
  BY DEF ReleasePages
<1>4. SessionTypes'
  BY <1>1, <1>2, <1>3 DEF SessionTypes, driverVars, tlbVars, presence
<1>5. HasList' /\ Told' /\ Mapped'
  BY <1>1, <1>2, <1>3 DEF HasList, Told, Mapped, driverVars, presence
<1>6. Alone'
  BY <1>1, <1>2, <1>3 DEF Alone, OwnList, driverVars, presence
<1>7. Written'
  BY <1>1, <1>2, <1>3, SameWords DEF Written, tlbVars, presence
<1> QED BY <1>4, <1>5, <1>6, <1>7 DEF SessionInv

(* What a program takes with it when it leaves. *)
Gone(p) ==
  /\ pc' \in [Process -> Labels]
  /\ huge_base' \in [Process -> Nat] /\ pinned' \in [Process -> 0 .. NumPages]
  /\ dma_addr' \in [Process -> Seq(Int)] /\ Len(dma_addr'[p]) = 0
  /\ entry' \in [Process -> Nat] /\ sent' \in [Process -> 0 .. 4]
  /\ mapped_alone' \in [Process -> BOOLEAN] /\ clean' \in [Process -> BOOLEAN]
  /\ pc'[p] = "off" /\ ~mapped_alone'[p]
  /\ \A q \in Process : q # p =>
       /\ pc'[q] = pc[q] /\ huge_base'[q] = huge_base[q] /\ pinned'[q] = pinned[q]
       /\ dma_addr'[q] = dma_addr[q] /\ entry'[q] = entry[q] /\ sent'[q] = sent[q]
       /\ mapped_alone'[q] = mapped_alone[q] /\ clean'[q] = clean[q]

LEMMA LeaveStep ==
  ASSUME SessionTypes, NEW p \in Process, Leave(p)
  PROVE  Gone(p)
<1>1. <<>> \in Seq(Int) /\ Len(<<>>) = 0 /\ NumPages \in Nat
  BY EmptySeq, SessionAssumption DEF NumPages
<1>2. pc' \in [Process -> Labels] /\ pc'[p] = "off" /\ \A q \in Process : q # p => pc'[q] = pc[q]
  BY DEF SessionTypes, Leave, Goto, Labels
<1>3. /\ huge_base' \in [Process -> Nat] /\ pinned' \in [Process -> 0 .. NumPages]
      /\ entry' \in [Process -> Nat] /\ sent' \in [Process -> 0 .. 4]
      /\ \A q \in Process : q # p =>
           /\ huge_base'[q] = huge_base[q] /\ pinned'[q] = pinned[q]
           /\ entry'[q] = entry[q] /\ sent'[q] = sent[q]
  BY <1>1 DEF SessionTypes, Leave
<1>4. /\ dma_addr' \in [Process -> Seq(Int)] /\ dma_addr'[p] = <<>>
      /\ \A q \in Process : q # p => dma_addr'[q] = dma_addr[q]
  BY <1>1 DEF SessionTypes, Leave
<1>5. /\ mapped_alone' \in [Process -> BOOLEAN] /\ clean' \in [Process -> BOOLEAN]
      /\ ~mapped_alone'[p]
      /\ \A q \in Process : q # p =>
           mapped_alone'[q] = mapped_alone[q] /\ clean'[q] = clean[q]
  BY DEF SessionTypes, Leave
<1>6. Len(dma_addr'[p]) = 0
  BY <1>1, <1>4
<1> QED BY <1>2, <1>3, <1>4, <1>5, <1>6 DEF Gone

(* The mappings of the others are as they were. *)
LEMMA LeaveWritten ==
  ASSUME SessionTypes, Told, Mapped, Written, NEW p \in Process, Leave(p), UNCHANGED tlbVars
  PROVE  Told' /\ Mapped' /\ Written'
<1>1. NumHuge \in Nat /\ Gone(p)
  BY SessionAssumption, LeaveStep
<1>2. Told'
  <2> SUFFICES ASSUME NEW q \in Process PROVE Len(dma_addr'[q]) <= NumHuge
    BY DEF Told
  <2>1. CASE q = p
    <3>1. Len(dma_addr'[q]) = 0 /\ 0 <= NumHuge
      BY <1>1, <2>1 DEF Gone
    <3> QED BY <3>1
  <2>2. CASE q # p
    <3>1. dma_addr'[q] = dma_addr[q]
      BY <1>1, <2>2 DEF Gone
    <3> QED BY <3>1 DEF Told
  <2> QED BY <2>1, <2>2
<1>3. Mapped'
  <2> SUFFICES ASSUME NEW q \in Process, mapped_alone'[q], NEW k \in 1 .. Len(dma_addr'[q])
               PROVE  dma_addr'[q][k] = Phys(k - 1) * PerHuge
    BY DEF Mapped
  <2>1. q # p /\ mapped_alone[q] /\ dma_addr'[q] = dma_addr[q]
    BY <1>1 DEF Gone
  <2> QED BY <2>1 DEF Mapped
<1>4. UNCHANGED <<tlb_data, tlb_table, base_vaddr>>
  BY DEF tlbVars
<1>5. Written'
  BY <1>1, <1>4, SameWords DEF Written, Gone
<1> QED BY <1>2, <1>3, <1>5

LEMMA ReleaseListStep ==
  ASSUME SessionInv, NEW p \in Process, ReleaseList(p)
  PROVE  SessionInv'
<1>1. SessionTypes /\ HasList /\ Alone /\ Told /\ Mapped /\ Written /\ Leave(p)
  BY DEF SessionInv, ReleaseList
<1>2. UNCHANGED <<huge_npages, huge_hnpages, tlbVars>>
  BY DEF ReleaseList
<1>4. huge_pages' \in [1 .. NumPages -> Pages]
  BY DEF ReleaseList, Pages
<1>5. alone' \in [Process -> BOOLEAN] /\ \A q \in Process : ~alone'[q]
  BY DEF ReleaseList
<1>3. Gone(p)
  BY <1>1, LeaveStep
<1>6. SessionTypes'
  BY <1>1, <1>2, <1>3, <1>5 DEF SessionTypes, tlbVars, Gone
<1>7. HasList'
  BY <1>4 DEF HasList
<1>8. Alone'
  BY <1>5 DEF Alone
<1>9. Told' /\ Mapped' /\ Written'
  BY <1>1, <1>2, LeaveWritten
<1> QED BY <1>6, <1>7, <1>8, <1>9 DEF SessionInv

LEMMA EndStep ==
  ASSUME SessionInv, NEW p \in Process, End(p)
  PROVE  SessionInv'
<1>1. SessionTypes /\ HasList /\ Alone /\ Told /\ Mapped /\ Written /\ Leave(p)
  BY DEF SessionInv, End
<1>2. UNCHANGED <<driverVars, tlbVars>>
  BY DEF End
<1>3. /\ alone' \in [Process -> BOOLEAN] /\ ~alone'[p]
      /\ \A q \in Process : q # p => alone'[q] = alone[q]
  BY <1>1 DEF End, SessionTypes
<1>0. Gone(p)
  BY <1>1, LeaveStep
<1>4. SessionTypes'
  BY <1>0, <1>1, <1>2, <1>3 DEF SessionTypes, driverVars, tlbVars, Gone
<1>5. HasList'
  BY <1>0, <1>1, <1>2 DEF HasList, driverVars, Gone
<1>6. Alone'
  <2> SUFFICES ASSUME NEW q \in Process, alone'[q]
               PROVE  /\ pc'[q] \in {"count", "get", "tlb", "ready", "free"} => OwnList(q)'
                      /\ pc'[q] \in {"get", "tlb", "ready", "free"} =>
                           huge_npages' = pinned'[q] /\ huge_hnpages' = HugeOf(pinned'[q])
    BY DEF Alone
  <2>1. q # p /\ alone[q]
    BY <1>3
  <2>2. pc'[q] = pc[q] /\ pinned'[q] = pinned[q]
    BY <1>0, <2>1 DEF Gone
  <2> QED BY <1>1, <1>2, <2>1, <2>2 DEF Alone, OwnList, driverVars
<1>7. Told' /\ Mapped' /\ Written'
  BY <1>1, <1>2, LeaveWritten
<1> QED BY <1>4, <1>5, <1>6, <1>7 DEF SessionInv

LEMMA NextSessionInv ==
  ASSUME SessionInv, [SessionNext]_sessionVars
  PROVE  SessionInv'
<1>1. CASE SessionNext
  <2>1. PICK p \in Process :
          \/ \E base \in Bases : MapBuffer(p, base)
          \/ BufferSetAlloc(p) \/ (\E n \in Pins : BufferSetPin(p, n)) \/ BufferSetCount(p)
          \/ MappingGet(p) \/ WriteTlb(p) \/ Ready(p)
          \/ ReleasePages(p) \/ ReleaseList(p) \/ End(p)
    BY <1>1 DEF SessionNext
  <2>2. CASE \E base \in Bases : MapBuffer(p, base)
    BY <2>2, MapBufferStep
  <2>3. CASE BufferSetAlloc(p) \/ BufferSetCount(p)
    BY <2>3, BufferSetAllocStep, BufferSetCountStep
  <2>4. CASE \E n \in Pins : BufferSetPin(p, n)
    BY <2>4, BufferSetPinStep
  <2>5. CASE MappingGet(p) \/ WriteTlb(p) \/ Ready(p)
    BY <2>5, MappingGetStep, WriteTlbStep, ReadyStep
  <2>6. CASE ReleasePages(p) \/ ReleaseList(p) \/ End(p)
    BY <2>6, ReleasePagesStep, ReleaseListStep, EndStep
  <2> QED BY <2>1, <2>2, <2>3, <2>4, <2>5, <2>6, Zenon
<1>2. CASE UNCHANGED sessionVars
  <2>1. UNCHANGED <<huge_pages, huge_npages, huge_hnpages, tlb_table, base_vaddr>>
        /\ UNCHANGED <<tlb_data, pc, huge_base, pinned, dma_addr, entry, sent, alone,
                       mapped_alone, clean>>
    BY <1>2 DEF sessionVars, driverVars, tlbVars, presence
  <2>2. SessionTypes' /\ HasList' /\ Told'
    BY <2>1 DEF SessionInv, SessionTypes, HasList, Told
  <2>3. Alone' /\ Mapped' /\ Written'
    BY <2>1, SameWords DEF SessionInv, Alone, OwnList, Mapped, Written
  <2> QED BY <2>2, <2>3 DEF SessionInv
<1> QED BY <1>1, <1>2

-----------------------------------------------------------------------------
(* What MAPPING_GET reports to a program that was alone with the driver is *)
(* its buffer: the first page of every huge page, and each was pinned.     *)
THEOREM MappingOfOwnBuffer == SessionSpec => []MappingIsBuffer
<1>1. SessionInv => MappingIsBuffer
  <2> SUFFICES ASSUME SessionInv, NEW p \in Process, mapped_alone[p], NEW k \in DOMAIN dma_addr[p]
               PROVE  dma_addr[p][k] = Phys(k - 1) * PerHuge
    BY DEF MappingIsBuffer
  <2>1. dma_addr[p] \in Seq(Int)
    BY DEF SessionInv, SessionTypes
  <2>2. k \in 1 .. Len(dma_addr[p])
    BY <2>1, LenProperties
  <2> QED BY <2>2 DEF SessionInv, Mapped
<1> QED BY <1>1, InitSessionInv, NextSessionInv, PTL DEF SessionSpec

(* A program that is ready reaches its buffer through the TLB, if nobody   *)
(* else was in the driver, the register of the TLB was not in the middle   *)
(* of a mapping when it began to write, and nobody else wrote to it since, *)
(* whatever mappings the TLB held and wherever the programs before ended.  *)
THEOREM TlbOfOwnSession == SessionSpec => []TlbServesSession
<1>1. SessionInv => TlbServesSession
  <2> SUFFICES ASSUME SessionInv, NEW p \in Process, pc[p] = "ready", mapped_alone[p], clean[p],
                      NEW k \in 0 .. Len(dma_addr[p]) - 1
               PROVE  tlb_table[EntryOf(VirtAddr(p, k), base_vaddr)] = Phys(k) * PerHuge
    BY DEF TlbServesSession
  <2>1. /\ dma_addr[p] \in Seq(Int) /\ entry[p] \in Nat /\ huge_base[p] \in Nat
        /\ NumHuge \in Nat /\ TlbEntries \in Nat \ {0} /\ NumHuge <= TlbEntries
    BY SessionAssumption DEF SessionInv, SessionTypes
  <2>2. Len(dma_addr[p]) \in Nat /\ Len(dma_addr[p]) <= NumHuge /\ entry[p] = Len(dma_addr[p])
    BY <2>1, LenProperties DEF SessionInv, Told, Written
  <2>3. entry[p] > 0 /\ k \in 0 .. entry[p] - 1 /\ k \in Nat /\ k < TlbEntries
        /\ k + 1 \in 1 .. Len(dma_addr[p]) /\ (k + 1) - 1 = k
    BY <2>1, <2>2
  <2>4. OwnEntries(p)
    BY <2>3 DEF SessionInv, Written
  <2>5. base_vaddr = VirtAddr(p, 0) /\ tlb_table[k] = dma_addr[p][k + 1]
    BY <2>3, <2>4 DEF OwnEntries
  <2>6. dma_addr[p][k + 1] = Phys((k + 1) - 1) * PerHuge
    BY <2>3 DEF SessionInv, Mapped
  <2>7. EntryOf(VirtAddr(p, k), base_vaddr) = k
    <3>1. PICK h \in Nat : h = huge_base[p]
      BY <2>1
    <3>2. EntryOf((h + k) * PerHuge, (h + 0) * PerHuge) = k
      BY <2>3, EntryOfPage
    <3> QED BY <2>5, <3>1, <3>2 DEF VirtAddr
  <2> QED BY <2>3, <2>5, <2>6, <2>7
<1> QED BY <1>1, InitSessionInv, NextSessionInv, PTL DEF SessionSpec

References == refs \in [1 .. NumPages -> Int]

LEMMA NextReferences ==
  ASSUME SessionInv, References, [SessionNext]_sessionVars
  PROVE  References'
<1>1. huge_npages \in Nat
  BY DEF SessionInv, SessionTypes
<1>2. ASSUME NEW p \in Process, NEW n \in Pins, BufferSetPin(p, n)
      PROVE  References'
  BY <1>2 DEF BufferSetPin, References
<1>3. ASSUME NEW p \in Process, ReleasePages(p)
      PROVE  References'
  <2>1. ASSUME NEW i \in 1 .. NumPages
        PROVE  Cardinality({k \in Listed : huge_pages[k] = PageOf(i)}) \in Int
    <3>1. IsFiniteSet(Listed)
      BY <1>1, FS_Interval DEF Listed
    <3>2. IsFiniteSet({k \in Listed : huge_pages[k] = PageOf(i)})
      BY <3>1, FS_Subset
    <3> QED BY <3>2, FS_CardinalityType
  <2>2. refs' = [i \in 1 .. NumPages |->
                   refs[i] - Cardinality({k \in Listed : huge_pages[k] = PageOf(i)})]
    BY <1>3 DEF ReleasePages
  <2> QED BY <2>1, <2>2 DEF References
<1>4. CASE UNCHANGED refs
  BY <1>4 DEF References
<1> QED BY <1>2, <1>3, <1>4 DEF SessionNext, MapBuffer, BufferSetAlloc, BufferSetCount, MappingGet, WriteTlb,
         Ready, ReleaseList, End, sessionVars

(* RELEASE of a program that was alone gives back one reference of each    *)
(* page it pinned, and of no other page.                                   *)
THEOREM ReleasesOwnPages == SessionSpec => ReleaseGivesBackOwn
<1>1. ASSUME SessionInv, References, [SessionNext]_sessionVars, NEW p \in Process, pc[p] = "ready", pc'[p] = "free", alone[p]
      PROVE  refs' = [i \in 1 .. NumPages |-> IF i <= pinned[p] THEN refs[i] - 1 ELSE refs[i]]
  <2>1. pc \in [Process -> Labels] /\ pinned[p] \in 0 .. NumPages /\ NumPages \in Nat
    BY <1>1, SessionAssumption DEF SessionInv, SessionTypes, NumPages
  <2>2. ReleasePages(p)
    <3>1. SessionNext
      BY <1>1 DEF sessionVars
    <3>2. PICK q \in Process :
            \/ \E base \in Bases : MapBuffer(q, base)
            \/ BufferSetAlloc(q) \/ (\E n \in Pins : BufferSetPin(q, n)) \/ BufferSetCount(q)
            \/ MappingGet(q) \/ WriteTlb(q) \/ Ready(q)
            \/ ReleasePages(q) \/ ReleaseList(q) \/ End(q)
      BY <3>1 DEF SessionNext
    <3>3. CASE q = p
      BY <1>1, <2>1, <3>2, <3>3 DEF MapBuffer, BufferSetAlloc, BufferSetPin, BufferSetCount, MappingGet,
         WriteTlb, Ready, ReleaseList, End, Leave, Goto
    <3>4. CASE q # p
      BY <1>1, <2>1, <3>2, <3>4 DEF MapBuffer, BufferSetAlloc, BufferSetPin, BufferSetCount, MappingGet,
         WriteTlb, Ready, ReleasePages, ReleaseList, End, Leave, Goto
    <3> QED BY <3>3, <3>4
  <2>3. OwnList(p) /\ huge_npages = pinned[p]
    BY <1>1 DEF SessionInv, Alone
  <2>4. ASSUME NEW i \in 1 .. NumPages
        PROVE  refs[i] - Cardinality({k \in Listed : huge_pages[k] = PageOf(i)})
                 = IF i <= pinned[p] THEN refs[i] - 1 ELSE refs[i] - 0
    <3> DEFINE S == {k \in Listed : huge_pages[k] = PageOf(i)}
    <3>1. S = {k \in 1 .. pinned[p] : k = i}
      <4>1. ASSUME NEW k \in 1 .. pinned[p] PROVE huge_pages[k] = PageOf(i) <=> k = i
        <5>1. huge_pages[k] = PageOf(k) /\ k \in Nat \ {0} /\ i \in Nat \ {0}
          BY <2>1, <2>3 DEF OwnList
        <5> QED BY <5>1, DifferentPages
      <4> QED BY <2>3, <4>1 DEF Listed
    <3>2. CASE i <= pinned[p]
      <4>1. S = {i}
        BY <2>1, <3>1, <3>2
      <4>2. Cardinality(S) = 1
        <5> HIDE DEF S
        <5> QED BY <4>1, FS_Singleton
      <4> QED BY <3>2, <4>2
    <3>3. CASE ~(i <= pinned[p])
      <4>1. S = {}
        BY <2>1, <3>1, <3>3
      <4>2. Cardinality(S) = 0
        <5> HIDE DEF S
        <5> QED BY <4>1, FS_EmptySet
      <4> QED BY <3>3, <4>2
    <3> QED BY <3>2, <3>3
  <2>5. \A i \in 1 .. NumPages : refs[i] - 0 = refs[i]
    BY <1>1 DEF References
  <2> QED BY <2>2, <2>4, <2>5 DEF ReleasePages
<1>2. ASSUME SessionInv, References, [SessionNext]_sessionVars
      PROVE  [\A p \in Process : pc[p] = "ready" /\ pc'[p] = "free" /\ alone[p] =>
                refs' = [i \in 1 .. NumPages |-> IF i <= pinned[p] THEN refs[i] - 1 ELSE refs[i]]]_sessionVars
  BY <1>1, <1>2
<1>3. SessionInit => References
  BY DEF SessionInit, References
<1> QED BY <1>2, <1>3, InitSessionInv, NextSessionInv, NextReferences, PTL DEF SessionSpec, ReleaseGivesBackOwn
=============================================================================
