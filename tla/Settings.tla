------------------------------ MODULE Settings ------------------------------
(* The options (src/src/config/config.c), the registry of the tab          *)
(* providers, of which one option lists the disabled ones                  *)
(* (src/src/providers/cofi_tab_provider.c), and the ways to change them:   *)
(* the Config tab (src/src/config/config_provider.c), its two dialogs      *)
(* (src/src/config/overlay_config.c) and the command set, typed or run by  *)
(* a rule (src/src/commands/command_handlers_ui.c).                        *)
EXTENDS Naturals, Sequences, SequencesExt, FiniteSets

CONSTANTS Flags, Enums, Ints,   \* keys of options, by type
          Values,               \* the values of an option, in the order they cycle
          Default, Repaired,    \* what a missing and an invalid value is read as
          Order,                \* keys as build_config_entries lists them
          Providers, Required,  \* ids; config is a required one
          Lists, Typed,         \* lists and numbers that somebody enters
          Queries, Shows,       \* filters, and what keys and values they match
          Files                 \* options.json as found

VARIABLE cf

List == "disabled_providers"
Keys == Flags \cup Enums \cup Ints \cup {List}
Windows == "windows"
Config == "config"
NoDialog == [kind |-> "none", key |-> List, marks |-> {}]
All == "all"                    \* the empty query
File(options) == [is |-> "object", options |-> options]
Broken == [is |-> "broken", options |-> <<>>]   \* it does not parse
NoFile == [is |-> "absent", options |-> <<>>]

-----------------------------------------------------------------------------
(* cofi_apply_disabled_providers and cofi_build_disabled_providers_string. *)
Applied(list) == Providers \ (list \ Required)
AsList(enabled) == Providers \ enabled
IsRegistered(p, enabled) == p \in enabled       \* cofi_get_provider_for_tab

(* apply_config_setting: an id in the list may be any text. *)
Accepts(key, value) ==
    IF key = List THEN TRUE ELSE value \in Range(Values[key])
NextValue(key, value) ==
    LET n == SelectInSeq(Values[key], LAMBDA v : v = value)
    IN  Values[key][(n % Len(Values[key])) + 1]

InitConfigDefaults == [k \in Keys |-> IF k = List THEN {} ELSE Default[k]]
LoadConfig(file) ==
    LET found == file.options IN
    [k \in Keys |-> IF k \notin DOMAIN found THEN InitConfigDefaults[k]
                    ELSE IF Accepts(k, found[k]) THEN found[k] ELSE Repaired[k]]

(* save_config: of the other fields a save leaves nothing. *)
Saved(s) == {[s EXCEPT !.file = File(s.config), !.behind = FALSE], [s EXCEPT !.behind = TRUE]}

-----------------------------------------------------------------------------
(* filter_config: the rows are copies of key and value. *)
Rows(config, query) ==
    LET shown == {n \in DOMAIN Order :
                      query = All \/ <<query, Order[n], config[Order[n]]>> \in Shows}
    IN  [r \in 1..Cardinality(shown) |->
            LET n == CHOOSE n \in shown : Cardinality({m \in shown : m < n}) = r - 1
            IN  [key |-> Order[n], value |-> config[Order[n]]]]
Filtered(s) == [s EXCEPT !.rows = Rows(s.config, s.query), !.ruled = FALSE]

(* config_select_key: the first row when the key is not listed. *)
Selecting(s, key) ==
    LET n == SelectInSeq(s.rows, LAMBDA r : r.key = key)
    IN  [s EXCEPT !.row = IF n = 0 THEN 1 ELSE n]
SelectedKey(s) == IF s.row \in DOMAIN s.rows THEN s.rows[s.row].key ELSE List
Refreshed(s, key) == Selecting(Filtered(s), key)

(* surface_tab and switch_to_tab: nothing happens on the tab one is on. *)
SurfaceTab(s, tab) ==
    IF (tab # Windows /\ ~IsRegistered(tab, s.enabled)) \/ tab = s.tab THEN s
    ELSE IF tab = Config THEN Filtered([s EXCEPT !.tab = tab, !.query = All, !.row = 1])
    ELSE [s EXCEPT !.tab = tab, !.query = All, !.row = 1]

-----------------------------------------------------------------------------
\* Mutant: the registry learns of the list at the next start.
HandleSetSuccessLater(s, key, typed) ==
    LET left == IF ~typed THEN s
                ELSE IF s.tab = Config THEN Refreshed([s EXCEPT !.query = All], SelectedKey(s))
                ELSE [s EXCEPT !.query = All]
    IN  SurfaceTab(IF left.tab = Config /\ ~typed THEN [left EXCEPT !.ruled = TRUE] ELSE left, Config)

(* cmd_set_config and handle_set_success.  Typed, leaving command mode     *)
(* empties the entry and filters again; run by a rule it only surfaces.    *)
HandleSetSuccess(s, key, typed) ==
    LET on == IF key = List THEN [s EXCEPT !.enabled = Applied(s.config[List])] ELSE s
        at == IF on.tab # Windows /\ ~IsRegistered(on.tab, on.enabled)
              THEN [on EXCEPT !.tab = Windows] ELSE on
        left == IF ~typed THEN at
                ELSE IF at.tab = Config THEN Refreshed([at EXCEPT !.query = All], SelectedKey(at))
                ELSE [at EXCEPT !.query = All]
        stale == IF left.tab = Config /\ ~typed THEN [left EXCEPT !.ruled = TRUE] ELSE left
    IN  SurfaceTab(stale, Config)

CmdSetConfig(key, value, typed) ==
    /\ typed => cf.dialog = NoDialog
    /\ Accepts(key, value)
    /\ \E s \in Saved([cf EXCEPT !.config[key] = value]) : cf' = HandleSetSuccess(s, key, typed)

(* handle_config_tab_keys: Ctrl+T takes the value from the row. *)
OnConfig == cf.tab = Config /\ cf.dialog = NoDialog /\ cf.row \in DOMAIN cf.rows
Row == cf.rows[cf.row]
CtrlT ==
    /\ OnConfig /\ Row.key \in Flags \cup Enums
    /\ \E s \in Saved([cf EXCEPT !.config[Row.key] = NextValue(Row.key, Row.value)]) :
           cf' = Refreshed(s, Row.key)

(* init_provider_enablement_state: the marks are those of the registry. *)
OpenProviders ==
    /\ OnConfig /\ Row.key = List
    /\ cf' = [cf EXCEPT !.dialog = [kind |-> "providers", key |-> List, marks |-> cf.enabled]]
OpenEdit ==
    /\ OnConfig /\ Row.key \in Ints
    /\ cf' = [cf EXCEPT !.dialog = [kind |-> "edit", key |-> Row.key, marks |-> {}]]

(* handle_config_edit_key_press: a value that is refused closes the dialog *)
(* as well.                                                                *)
AnswerEdit(value) ==
    LET key == cf.dialog.key  open == [cf EXCEPT !.dialog = NoDialog] IN
    /\ cf.dialog.kind = "edit"
    /\ IF Accepts(key, value)
       THEN \E s \in Saved([open EXCEPT !.config[key] = value]) : cf' = Refreshed(s, key)
       ELSE cf' = Refreshed(open, key)

(* handle_provider_enablement_key_press. *)
ToggleMark(p) ==
    /\ cf.dialog.kind = "providers" /\ p \notin Required
    /\ cf' = [cf EXCEPT !.dialog.marks = SymDiff(@, {p})]
AnswerProviders ==
    /\ cf.dialog.kind = "providers"
    /\ LET on == cf.dialog.marks \cup (Providers \cap Required) IN
       \E s \in Saved([cf EXCEPT !.enabled = on, !.config[List] = AsList(on)]) :
           cf' = Refreshed([s EXCEPT !.dialog = NoDialog], List)
HideOverlay == cf.dialog # NoDialog /\ cf' = [cf EXCEPT !.dialog = NoDialog]

-----------------------------------------------------------------------------
(* Filtering keeps the row by its key.  A colon empties the entry and does *)
(* not filter, and neither does leaving the empty command line.            *)
OnQueryChanged(q) ==
    /\ cf.tab = Config /\ cf.dialog = NoDialog /\ q # cf.query
    /\ cf' = Refreshed([cf EXCEPT !.query = q], SelectedKey(cf))
ColonAndBack == cf.dialog = NoDialog /\ cf' = [cf EXCEPT !.query = All]
MoveTo(n) == OnConfig /\ n \in DOMAIN cf.rows /\ cf' = [cf EXCEPT !.row = n]
OpenTab(t) == cf.dialog = NoDialog /\ cf' = SurfaceTab(cf, t)
HideWindow ==
    \E s \in Saved(cf) : cf' = [s EXCEPT !.tab = Windows, !.query = All, !.dialog = NoDialog]

(* The program starts: load_config writes a file only where there is none, *)
(* and the registry follows the list.                                      *)
Started(file) ==
    LET config == LoadConfig(file)
        s == [config |-> config, enabled |-> Applied(config[List]), file |-> file, behind |-> TRUE,
              tab |-> Windows, rows |-> <<>>, row |-> 1, query |-> All, ruled |-> FALSE,
              dialog |-> NoDialog]
    IN  IF file = NoFile THEN Saved(s) ELSE {[s EXCEPT !.behind = file = Broken]}

Init == \E f \in Files : cf \in Started(f)
Restart == cf' \in Started(cf.file)

Next ==
    \/ \E key \in Keys, typed \in BOOLEAN :
        \E v \in (IF key = List THEN Lists ELSE Range(Values[key])) :
            CmdSetConfig(key, v, typed)
    \/ CtrlT \/ OpenProviders \/ OpenEdit \/ AnswerProviders \/ HideOverlay
    \/ \E v \in Typed : AnswerEdit(v)
    \/ \E p \in Providers : ToggleMark(p) \/ OpenTab(p)
    \/ \E q \in Queries \cup {All} : OnQueryChanged(q)
    \/ \E n \in DOMAIN Order : MoveTo(n)
    \/ ColonAndBack \/ OpenTab(Windows) \/ HideWindow \/ Restart

Spec == Init /\ [][Next]_cf

-----------------------------------------------------------------------------
(* The option, the registry, the file and the tab say the same, by         *)
(* whichever way an option was changed: the providers that are off are     *)
(* those the option lists and may be off; the next start reads what is in  *)
(* memory, unless a save failed; nobody is on the tab of a provider that   *)
(* is off; and the rows show the values that are in force, unless a rule   *)
(* has set one under the open tab.                                         *)
SettingsAgree ==
    /\ cf.enabled = Applied(cf.config[List])
    /\ ~cf.behind => LoadConfig(cf.file) = cf.config
    /\ cf.tab = Windows \/ cf.tab \in cf.enabled
    /\ cf.tab = Config /\ ~cf.ruled =>
           \A n \in DOMAIN cf.rows : cf.rows[n].value = cf.config[cf.rows[n].key]
=============================================================================
