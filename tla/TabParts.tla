------------------------------ MODULE TabParts ------------------------------
(* The tabs whose rows are what cofi itself keeps: the bindings, the        *)
(* options, the devices, the executables of PATH and the slots; and the     *)
(* lines that were run.                                                     *)
EXTENDS PartState, Naturals, Sequences, FiniteSets

\* Hotkeys
CONSTANTS Combos, Spellings, Meaning, Canonical, Commands, Defaults, Contended, RulesBind, Saves,
          MaxBindings
\* Settings
CONSTANTS Flags, Enums, Ints, Values, Default, Repaired, Order, Providers, Required, Lists, Typed,
          Queries, Shows, Files
\* Bluetooth
CONSTANTS Devices, Searches, Found, MaxCalls
\* PathBinaries
CONSTANTS PathFiles, Initial, Ranked, MaxBins, MaxRows, MaxChanges
\* SlotStore
CONSTANTS SlotTabs, Payloads, SlotKeys, MatchIds, SlotFiles
\* CommandLine
CONSTANTS Names, Others, Spaced, Begins, MaxCandidates, MaxHistory, HelpLines, PageLines, MaxRun

HK == INSTANCE Hotkeys WITH hk <- st
CF == INSTANCE Settings WITH cf <- st
BT == INSTANCE Bluetooth WITH bt <- st, Typed <- Searches, Matching <- Found
PB == INSTANCE PathBinaries WITH pb <- st, Files <- PathFiles
SL == INSTANCE SlotStore WITH sl <- st, Tabs <- SlotTabs, Keys <- SlotKeys, Files <- SlotFiles
CL == INSTANCE CommandLine WITH cl <- st

-----------------------------------------------------------------------------
(* The combinations have names, and the defaults bind none of them twice    *)
(* (hotkey_config.c, init_default_hotkey_config).                           *)
HKBinding == [key : Spellings, command : Commands \cup {HK!NoCommand}]
Distinct(bindings) ==
    \A i, j \in DOMAIN bindings : bindings[i].key = bindings[j].key => i = j
HotkeysFit ==
    /\ Canonical \in [Combos -> Spellings]
    /\ Defaults \in Seq(HKBinding) /\ Distinct(Defaults)

(* The list of providers is an option of its own; every other option has    *)
(* values to cycle through, and what is read for a missing or an invalid    *)
(* one is among them; the Config tab cannot be disabled (config_schema.h,   *)
(* cofi_tab_provider.c).                                                    *)
CFOptions == Flags \cup Enums \cup Ints
OptionsFit ==
    /\ CF!List \notin CFOptions
    /\ \A k \in CFOptions :
          /\ Values[k] \in Seq(CF!Range(Values[k])) /\ Values[k] # <<>>
          /\ Default[k] \in CF!Range(Values[k]) /\ Repaired[k] \in CF!Range(Values[k])
    /\ CF!Config \in Providers \cap Required
    /\ Order \in Seq(CF!Keys)

(* A device is listed under one number, which is not None; what a query     *)
(* finds are devices.                                                       *)
BTQueries == Searches \cup {BT!Empty}
DevicesFit == BT!None \notin Devices /\ \A q \in BTQueries : Found[q] \in Seq(Devices)

(* There are finitely many executables; directories have places in PATH,    *)
(* names an order (path_binaries.c).                                        *)
PathFit ==
    /\ IsFiniteSet(PathFiles) /\ PathFiles \subseteq [dir : Nat, name : Nat]
    /\ MaxBins \in Nat

(* The windows are no tab of a provider, and an id of a match entry is not  *)
(* "0".  What is loaded from a file that the program did not write has a    *)
(* slot once and a payload of a tab at one slot: slot_load puts lines for   *)
(* the same key together, with a capital letter only when that comes first, *)
(* and nothing later mends the rest (slot_store.c: slot_load).              *)
SlotsFit ==
    /\ SL!Windows \notin SlotTabs /\ SL!NoPayload \notin MatchIds /\ SL!NoSlot \notin MatchIds
    /\ SlotKeys \subseteq Nat /\ IsFiniteSet(SlotKeys)
    /\ \A f \in SlotFiles : /\ Len(f) \in Nat /\ DOMAIN f = 1..Len(f)
                            /\ SL!Unique(SL!SlotLoad(f))

(* A line is completed to names of commands, the empty one to none          *)
(* (command_mode.c: is_verb_prefix).                                        *)
LinesFit ==
    /\ IsFiniteSet(Names) /\ Names \subseteq Nat
    /\ \A line \in DOMAIN Begins : Begins[line] \subseteq Names
    /\ CL!Empty \in DOMAIN Begins => Begins[CL!Empty] = {}
    /\ MaxCandidates \in Nat /\ MaxHistory \in Nat /\ HelpLines \in Nat /\ PageLines \in Nat
=============================================================================
