-------------------------------- MODULE Parts --------------------------------
(* The parts of cofi that keep a state of their own; MCParts has values for *)
(* their constants and some more parts.  Every part is a module, which says *)
(* what its constants are.                                                  *)
EXTENDS TabParts, LateParts, FiniteSets

\* Selection
CONSTANTS Ids, Kind, Matching, ProviderRows, ScreenLines, Coming

vars == <<part, st>>

SE == INSTANCE Selection WITH sel <- st, Rows <- ProviderRows, Lines <- ScreenLines

(* A window or a row is not cofi's own window, which no list has; there are *)
(* finitely many (window_list.c: get_window_list).                          *)
RowsFit ==
    /\ IsFiniteSet(Ids) /\ IsFiniteSet(Matching) /\ IsFiniteSet(ProviderRows)
    /\ SE!Cofi \notin Matching /\ SE!Cofi \notin ProviderRows /\ ScreenLines \in Nat

-----------------------------------------------------------------------------
Init ==
    \/ part = "hotkeys" /\ HK!Init
    \/ part = "settings" /\ CF!Init
    \/ part = "selection" /\ SE!Init
    \/ part = "line" /\ CL!Init
    \/ part = "bluetooth" /\ BT!Init
    \/ part = "path" /\ PB!Init
    \/ part = "slots" /\ SL!Init
    \/ part = "sinks" /\ SK!Init
    \/ part = "processes" /\ PR!Init
    \/ part = "sessions" /\ SN!Init
    \/ part = "ripple" /\ RP!Init
    \/ part = "restore" /\ FR!Init
    \/ part = "breaker" /\ BR!Init

Next ==
    /\ part' = part
    /\ \/ part = "hotkeys" /\ HK!Next
       \/ part = "settings" /\ CF!Next
       \/ part = "selection" /\ SE!Next
       \/ part = "line" /\ CL!Next
       \/ part = "bluetooth" /\ BT!Next
       \/ part = "path" /\ PB!Next
       \/ part = "slots" /\ SL!Next
       \/ part = "sinks" /\ SK!Next
       \/ part = "processes" /\ PR!Next
       \/ part = "sessions" /\ SN!Next
       \/ part = "ripple" /\ RP!Next
       \/ part = "restore" /\ FR!Next
       \/ part = "breaker" /\ BR!Next

Spec == Init /\ [][Next]_vars

-----------------------------------------------------------------------------
(* Between two events the keys held from the X server are those that the    *)
(* bindings ask for and no other client has, also after a capture           *)
(* (daemon/hotkeys.c, daemon/overlay_hotkey_add.c, rules.c).                *)
HotkeysInStep == part = "hotkeys" => HK!HotkeysInStep

(* The options in memory, in the file and in the rows of the Config tab are *)
(* the same, whichever way they were set (config.c, config_provider.c).     *)
SettingsAgree == part = "settings" => CF!SettingsAgree

(* The history has each window once, Enter takes the window of the marked   *)
(* row, and no offset of a longer list empties the screen (selection.c).    *)
RowsAreWindows == part = "selection" => SE!RowsAreWindows

(* A change of the window list while a query stands, and new rows of a      *)
(* provider, leave the marker on its window or row (selection.c).           *)
KeepsSelected == [][part = "selection" => SE!KeepsSelected]_vars

(* The mode, its claim, the entry, the candidates and the place in the      *)
(* history fit one another (command_mode.c, run_mode.c).                    *)
LineAgrees == part = "line" => CL!LineAgrees

(* The lists that others fill while the user types: the scan of PATH, the   *)
(* lines of ripgrep, and a file of slots that was edited; the rows stay     *)
(* those of the data and the text (path_binaries.c, sessions.c,             *)
(* slot_store.c).                                                           *)
ListsAgree ==
    /\ part = "slots" => SL!SlotsAgree
    /\ part = "path" => PB!PathRowsAgree
    /\ part = "sessions" => SN!SessionsAgree

(* What comes late or for something that was replaced does no harm: an      *)
(* answer of BlueZ or of pactl and a tick of /proc leave the rows and the   *)
(* actions those of what is shown; a switch is shown; a window gets the     *)
(* layout back that it last asked for; and a rule that loops is stopped by  *)
(* the clock and armed again by a quiet time (bluetooth_model.c, sinks.c,   *)
(* proc.c, x11_events.c, frame_extents_restore.c, rules.c).                 *)
LateIsHarmless ==
    /\ part = "bluetooth" => BT!AnswersCount
    /\ part = "sinks" => SK!DrawnIsMeant
    /\ part = "processes" => PR!ActsOnWhatIsShown
    /\ part = "ripple" => RP!SwitchIsShown
    /\ part = "restore" => FR!RestoresLast
    /\ part = "breaker" => BR!BreakerHolds
=============================================================================
