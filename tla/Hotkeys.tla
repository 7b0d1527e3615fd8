------------------------------ MODULE Hotkeys ------------------------------
(* The table of global hotkeys: the bindings in memory and in              *)
(* hotkeys.json, the keys grabbed at the X server, the Hotkeys tab with    *)
(* its overlays, and the :hotkeys command (src/src/daemon/hotkey*.c,       *)
(* overlay_hotkey_*.c).                                                    *)
(* A spelling is the text of a shortcut, a combination what it means to    *)
(* the server: several spellings may mean the same combination.  What a    *)
(* fired hotkey does to the window is in Lifecycle.                        *)
EXTENDS Naturals, Sequences, FiniteSets, SequencesExt, Places

CONSTANTS Combos,        \* combinations of keys
          Spellings,     \* texts of shortcuts
          Meaning,       \* [Spellings -> Combos \cup {NoCombo}]: parse_hotkey
          Canonical,     \* [Combos -> Spellings]: canonicalize_hotkey_*
          Commands,      \* command texts that are not empty
          Defaults,      \* the bindings of init_default_hotkey_config
          Contended,     \* combinations that other clients grab now and then
          RulesBind,     \* TRUE iff rules and hotkeys run :hotkeys commands
          Saves,         \* outcomes of a save: a subset of BOOLEAN
          MaxBindings    \* MAX_HOTKEY_BINDINGS

VARIABLE hk

NoCombo == 0
NoCommand == "no command"
Missing == "missing"
Corrupt == "corrupt"

Keys(bindings) == {bindings[i].key : i \in DOMAIN bindings}

(* find_hotkey_binding: 0 for a key that is not bound. *)
Find(bindings, key) == SelectInSeq(bindings, LAMBDA b : b.key = key)

(* add_hotkey_binding, where it succeeds. *)
Bound(bindings, key, command) ==
    LET i == Find(bindings, key) IN
    IF i # 0 THEN [bindings EXCEPT ![i].command = command]
    ELSE Append(bindings, [key |-> key, command |-> command])

CanBind(bindings, key) == Find(bindings, key) # 0 \/ Len(bindings) < MaxBindings
Unbound(bindings, key) ==
    LET i == Find(bindings, key) IN IF i = 0 THEN bindings ELSE RemoveAt(bindings, i)

(* load_hotkey_config of a file that parses. *)
Loaded(file) == Picked(file, {i \in DOMAIN file : file[i].command # NoCommand})

(* populate_hotkey_grab_state: bindings that do not parse are skipped. *)
Grabbed(bindings) == Picked(bindings, {i \in DOMAIN bindings : Meaning[bindings[i].key] # NoCombo})
CombosOf(grabs) == {Meaning[grabs[i].key] : i \in DOMAIN grabs}

(* filter_hotkeys: the rows copy the bindings and their indices. *)
Matches(text, b) == text = "" \/ b.command = text
RowsFor(bindings, text) ==
    LET shown == {i \in DOMAIN bindings : Matches(text, bindings[i])}
    IN  [n \in 1..Cardinality(shown) |->
            [index |-> Nth(shown, n), binding |-> bindings[Nth(shown, n)]]]

NoRebind == [active |-> FALSE, index |-> 0, key |-> "", command |-> NoCommand,
             asking |-> FALSE, conflict |-> 0, pending |-> ""]

-----------------------------------------------------------------------------
(* Handlers as functions of the state. *)

(* One pass of setup_hotkeys over the grab table: all keys or none. *)
TryGrab(h) ==
    LET wanted == CombosOf(h.grabs)
        fails == wanted \cap h.foreign # {}
    IN  [h EXCEPT !.held = IF fails THEN {} ELSE wanted, !.dialog = fails]

(* cleanup_hotkeys and regrab_hotkeys. *)
Cleanup(h) == [h EXCEPT !.held = @ \ CombosOf(h.grabs), !.grabs = <<>>]
Regrab(h) == TryGrab([Cleanup(h) EXCEPT !.grabs = Grabbed(h.bindings)])

Save(h, ok) == IF ok THEN [h EXCEPT !.file = h.bindings] ELSE h

\* Mutant: the overlay is closed and its capture goes on.
HideOverlayHeld(h) ==
    IF h.overlay = "none" THEN h
    ELSE [h EXCEPT !.overlay = "none", !.editing = "",
                   !.rebind = IF h.overlay = "rebind" THEN NoRebind ELSE @]

(* hide_overlay with clear_overlay_state: a capture ends with a regrab. *)
HideOverlay(h) ==
    IF h.overlay = "none" THEN h
    ELSE LET closed == [h EXCEPT !.overlay = "none", !.editing = "",
                                 !.rebind = IF h.overlay = "rebind" THEN NoRebind ELSE @]
         IN  IF h.capture THEN Regrab([closed EXCEPT !.capture = FALSE]) ELSE closed

(* filter_hotkeys with the text of the entry, and the selection kept valid. *)
Refilter(h) ==
    LET rows == RowsFor(h.bindings, h.text)
    IN  [h EXCEPT !.rows = rows,
                  !.selected = IF rows = <<>> THEN 1 ELSE IF @ > Len(rows) THEN Len(rows) ELSE @]

(* finish_hotkey_capture_add: nothing at all for an empty key. *)
SelectKey(h, key) ==
    IF key = "" THEN h
    ELSE LET shown == Refilter(h)
             row == SelectInSeq(shown.rows, LAMBDA r : r.binding.key = key)
         IN  [shown EXCEPT !.selected = IF row = 0 THEN 1 ELSE row]

(* switch_to_tab and hotkeys_on_enter. *)
EnterTab(h) ==
    IF h.onTab THEN h
    ELSE Refilter([h EXCEPT !.onTab = TRUE, !.text = "", !.selected = 1])

-----------------------------------------------------------------------------
(* The program: init_app_data and setup_hotkeys of a process that starts. *)
Fresh(bindings, file, foreign) ==
    TryGrab([bindings |-> bindings, file |-> file, grabs |-> Grabbed(bindings),
             held |-> {}, foreign |-> foreign, dialog |-> FALSE, overlay |-> "none",
             capture |-> FALSE, rebind |-> NoRebind, editing |-> "",
             rows |-> <<>>, text |-> "", selected |-> 1, onTab |-> FALSE])

Start(file, foreign, ok) ==
    IF file = Missing THEN Fresh(Defaults, IF ok THEN Defaults ELSE Missing, foreign)
    ELSE IF file = Corrupt THEN Fresh(Defaults, Corrupt, foreign)
    ELSE Fresh(Loaded(file), file, foreign)

Init == \E file \in {Missing, Corrupt, <<>>} : hk = Start(file, {}, TRUE)

(* A key reaches the tab: no overlay, no dialog. *)
AtTab == hk.onTab /\ hk.overlay = "none" /\ ~hk.dialog
HasRow == hk.selected \in DOMAIN hk.rows
Row == hk.rows[hk.selected]

(* hotkeys_on_query_changed *)
Type(text) ==
    /\ AtTab /\ hk.text # text
    /\ hk' = Refilter([hk EXCEPT !.text = text, !.selected = 1])

Select(n) == AtTab /\ n \in DOMAIN hk.rows /\ n # hk.selected /\ hk' = [hk EXCEPT !.selected = n]

(* handle_hotkeys_tab_keys: Ctrl+A, Ctrl+B, Ctrl+E and Ctrl+D. *)
StartAdd ==
    /\ AtTab
    /\ hk' = [Cleanup(hk) EXCEPT !.capture = TRUE, !.overlay = "add"]

StartRebind ==
    /\ AtTab /\ HasRow
    /\ hk' = [Cleanup(hk) EXCEPT !.capture = TRUE, !.overlay = "rebind",
                  !.rebind = [NoRebind EXCEPT !.active = TRUE, !.index = Row.index, !.key = Row.binding.key,
                                     !.command = Row.binding.command]]

StartEdit ==
    /\ AtTab /\ HasRow
    /\ hk' = [hk EXCEPT !.overlay = "edit", !.editing = Row.binding.key]

Delete(ok) ==
    /\ AtTab /\ HasRow
    /\ hk' = Refilter(Regrab(Save([hk EXCEPT !.bindings = Unbound(@, Row.binding.key)], ok)))

(* apply_rebind writes at the index that was selected. *)
ApplyRebind(h, key, ok) ==
    LET i == h.rebind.index
        written == [h EXCEPT !.bindings = IF i \in DOMAIN @ THEN [@ EXCEPT ![i].key = key] ELSE @]
    IN  SelectKey(HideOverlay(Save(written, ok)), key)

(* process_canonical_combo: a captured or typed shortcut. *)
Shortcut(combo, ok) ==
    LET key == Canonical[combo]
        existing == Find(hk.bindings, key)
    IN  /\ ~hk.dialog /\ hk.overlay \in {"add", "rebind"} /\ ~hk.rebind.asking
        /\ hk' = IF hk.rebind.active
                 THEN IF existing = hk.rebind.index \/ key = hk.rebind.key THEN HideOverlay(hk)
                      ELSE IF existing # 0
                      THEN [hk EXCEPT !.rebind.asking = TRUE, !.rebind.conflict = existing,
                                      !.rebind.pending = key]
                      ELSE ApplyRebind(hk, key, ok)
                 ELSE IF existing # 0 \/ ~CanBind(hk.bindings, key) THEN hk
                 ELSE LET added == Save([hk EXCEPT !.bindings = Bound(@, key, NoCommand)], ok)
                      IN  SelectKey(HideOverlay(IF hk.capture THEN added ELSE Regrab(added)), key)

(* handle_rebind_confirm_key: 'y'.  hide_overlay has cleared the           *)
(* combination when the rows are to be filtered.                           *)
ConfirmReplace(ok) ==
    /\ ~hk.dialog /\ hk.rebind.asking
    /\ LET i == hk.rebind.conflict
           left == IF i \in DOMAIN hk.bindings THEN Unbound(hk.bindings, hk.bindings[i].key) ELSE hk.bindings
           j == Find(left, hk.rebind.key)
           written == [hk EXCEPT !.bindings = IF j = 0 THEN left
                                              ELSE [left EXCEPT ![j].key = hk.rebind.pending]]
           closed == HideOverlay(Save(written, ok))
       IN  hk' = SelectKey(closed, closed.rebind.pending)

(* Escape, 'n' while asking, an empty command in the edit overlay. *)
Cancel == ~hk.dialog /\ hk.overlay # "none" /\ hk' = HideOverlay(hk)

(* handle_hotkey_edit_key_press: Enter. *)
SaveEdit(command, ok) ==
    /\ ~hk.dialog /\ hk.overlay = "edit"
    /\ LET i == Find(hk.bindings, hk.editing)
           edited == IF i = 0 THEN hk
                     ELSE Regrab(Save([hk EXCEPT !.bindings[i].command = command], ok))
       IN  hk' = Refilter(HideOverlay(edited))

(* hotkeys_command_handler: typed, where leaving command mode empties the  *)
(* entry and filters again, or run by a rule or a hotkey.  The Hotkeys tab *)
(* is surfaced; if it is current already its rows stay as they are.        *)
AfterCommand(h, typed) ==
    IF typed /\ h.onTab THEN Refilter([h EXCEPT !.text = "", !.selected = 1]) ELSE EnterTab(h)

(* A command of a rule may come while an overlay is open.  That it unbinds *)
(* while a replacement waits for its answer is left out: the index of the  *)
(* conflict would then point at bytes that no binding holds.               *)
MayRun(typed) == ~hk.dialog /\ ~hk.rebind.asking /\ (IF typed THEN hk.overlay = "none" ELSE RulesBind)

BindCommand(key, command, typed, ok) ==
    /\ MayRun(typed)
    /\ LET added == IF CanBind(hk.bindings, key) THEN [hk EXCEPT !.bindings = Bound(@, key, command)] ELSE hk
       IN  hk' = AfterCommand(Regrab(Save(added, ok)), typed)

UnbindCommand(key, typed, ok) ==
    /\ MayRun(typed)
    /\ LET removed == IF key \in Keys(hk.bindings)
                      THEN Regrab(Save([hk EXCEPT !.bindings = Unbound(@, key)], ok))
                      ELSE hk
       IN  hk' = AfterCommand(removed, typed)

(* Another tab, or hide_window: the overlay is closed with it.  The rows   *)
(* are not looked at until the tab is entered again.                       *)
LeaveTab ==
    /\ hk.onTab /\ ~hk.dialog
    /\ hk' = HideOverlay([hk EXCEPT !.onTab = FALSE, !.text = "", !.rows = <<>>, !.selected = 1])

Enter == ~hk.onTab /\ ~hk.dialog /\ hk' = EnterTab(hk)

(* Another client grabs a key, or lets it go. *)
ForeignGrab(c) == c \notin hk.held \cup hk.foreign /\ hk' = [hk EXCEPT !.foreign = @ \cup {c}]
ForeignRelease(c) == c \in hk.foreign /\ hk' = [hk EXCEPT !.foreign = @ \ {c}]

(* show_grab_failure_dialog: Retry grabs again, Exit ends the process. *)
Retry == hk.dialog /\ hk' = TryGrab(hk)

(* The process ends, or crashes, and is started again. *)
Restart(ok) == hk' = Start(hk.file, hk.foreign, ok)

Next ==
    \/ \E text \in Commands \cup {""} : Type(text)
    \/ \E n \in 1..MaxBindings : Select(n)
    \/ StartAdd \/ StartRebind \/ StartEdit \/ Cancel \/ LeaveTab \/ Enter \/ Retry
    \/ \E c \in Contended : ForeignGrab(c) \/ ForeignRelease(c)
    \/ \E ok \in Saves :
         \/ Delete(ok) \/ ConfirmReplace(ok) \/ Restart(ok)
         \/ \E c \in Combos : Shortcut(c, ok)
         \/ \E command \in Commands : SaveEdit(command, ok)
         \/ \E key \in Spellings, typed \in BOOLEAN :
              \/ UnbindCommand(key, typed, ok)
              \/ \E command \in Commands : BindCommand(key, command, typed, ok)

Spec == Init /\ [][Next]_hk

-----------------------------------------------------------------------------
(* What the handlers between them keep up, whichever way an overlay ends,  *)
(* a save or a grab fails: no text is bound twice; unless a shortcut is    *)
(* being captured or the conflict dialog waits, the grab table is that of  *)
(* the bindings and the server holds its keys, all of them or none; and a  *)
(* capture never outlives its overlay, or no hotkey would work again.      *)
NoKeyTwice == \A i, j \in DOMAIN hk.bindings : hk.bindings[i].key = hk.bindings[j].key => i = j
GrabsFollow == ~hk.capture => hk.grabs = Grabbed(hk.bindings)
HeldFollow == hk.held = IF hk.dialog THEN {} ELSE CombosOf(hk.grabs)
CaptureEnds == hk.capture => hk.overlay \in {"add", "rebind"}
HotkeysInStep == NoKeyTwice /\ GrabsFollow /\ HeldFollow /\ CaptureEnds
=============================================================================
