----------------------------- MODULE Selection -----------------------------
(* The order of the windows (src/src/core/history/history.c), the rows     *)
(* that a query leaves of them (src/src/ui/window_filter.c), and which row *)
(* is selected and which rows are on the screen                            *)
(* (src/src/core/selection/selection.c, src/src/ui/display_pipeline.c), on *)
(* the Windows tab and on a provider tab, while the X server reports new   *)
(* windows and activations.                                                *)
EXTENDS Integers, Sequences, FiniteSets, SequencesExt, Places

CONSTANTS Ids,       \* windows
          Kind,      \* [Ids -> [normal : BOOLEAN, desktop : Nat or Sticky]]
          Matching,  \* windows that fit the query
          Rows,      \* identities of the rows of the provider
          Lines,     \* get_max_display_lines_dynamic
          Coming     \* windows that come and go; the others stay open

VARIABLE sel

Sticky == -1
Cofi == 0              \* own_window_id, which get_window_list leaves out
Desktops == {1, 2}
Unknown == -1          \* active_window_id at the start

(* The X server: open is _NET_CLIENT_LIST, active _NET_ACTIVE_WINDOW, told *)
(* the two notifications not handled yet.                                  *)
(* cofi: wins, history, filtered, known (app->active_window_id), the text, *)
(* and the selections of both tabs.                                        *)
AtTop == [index |-> 0, id |-> Cofi, offset |-> 0]

-----------------------------------------------------------------------------
(* update_history: windows that are gone leave, new ones follow, and the   *)
(* active one comes to the front if it is not the one known already.       *)
UpdateHistory(s) ==
    LET kept == Within(s.history, Range(s.wins))
        all == kept \o Without(s.wins, Range(kept))
        changed == s.active # s.known
    IN  [s EXCEPT !.known = s.active,
                  !.history = IF changed /\ s.active \in Range(all)
                              THEN <<s.active>> \o Without(all, {s.active})
                              ELSE all]

(* partition_and_reorder: the first two stay. *)
PartitionAndReorder(history, current) ==
    LET class(w) == IF Kind[w].desktop = Sticky THEN 5
                    ELSE (IF Kind[w].normal THEN 1 ELSE 3) + (IF Kind[w].desktop = current THEN 0 ELSE 1)
        later(c) == Picked(history, {n \in 3..Len(history) : class(history[n]) = c})
    IN  IF Len(history) <= 2 THEN history
        ELSE SubSeq(history, 1, 2) \o later(1) \o later(2) \o later(3) \o later(4) \o later(5)

(* apply_native_stacking_order: the order of the X server, any.            *)
Ordered(s) ==
    IF s.native THEN {[s EXCEPT !.history = order] : order \in SetToSeqs(Range(s.history))}
    ELSE {[s EXCEPT !.history = PartitionAndReorder(s.history, d)] : d \in Desktops}

(* score_and_filter_windows and the sort by score, whose order depends on  *)
(* the titles; without a query the special windows go last.                *)
Filtered(s, query) ==
    IF query # "" THEN SetToSeqs(Range(s.history) \cap Matching)
    ELSE LET normal == {w \in Range(s.history) : Kind[w].normal}
         IN  {Within(s.history, normal) \o Without(s.history, normal)}

-----------------------------------------------------------------------------
(* The selection of a list of identities.                                  *)
Upper(a, b) == IF a > b THEN a ELSE b
Lower(a, b) == IF a < b THEN a ELSE b

\* Mutant: the offset of a longer list stays.
ScrolledPast(c, n) ==
    [c EXCEPT !.offset = IF c.index < c.offset THEN c.index
                         ELSE IF c.index >= c.offset + Lines THEN c.index - Lines + 1 ELSE c.offset]

(* update_scroll_position *)
Scrolled(c, n) ==
    LET seen == IF c.index < c.offset THEN c.index
                ELSE IF c.index >= c.offset + Lines THEN c.index - Lines + 1 ELSE c.offset
    IN  [c EXCEPT !.offset = IF n <= Lines THEN 0 ELSE Lower(Upper(seen, 0), n - Lines)]

Preserve(c, list) == IF c.index < Len(list) THEN [c EXCEPT !.id = list[c.index + 1]] ELSE c

(* restore_selection, with validate_selection: the first row when the one  *)
(* remembered is gone.  A provider has no remembered row after a reset.    *)
FirstId(list) == IF list = <<>> THEN Cofi ELSE Head(list)
\* Mutant: the index is kept, not the identity.
RestoreIndex(c, list) ==
    Scrolled(IF c.index < Len(list) THEN [c EXCEPT !.id = list[c.index + 1]]
             ELSE [c EXCEPT !.index = 0, !.id = FirstId(list)], Len(list))

Restore(c, list) ==
    LET at == SelectInSeq(list, LAMBDA i : i = c.id) IN
    Scrolled(IF at > 0 THEN [c EXCEPT !.index = at - 1]
             ELSE [c EXCEPT !.index = 0, !.id = FirstId(list)], Len(list))

ResetSelection(s) ==
    IF s.tab = "windows" THEN [s EXCEPT !.win = [AtTop EXCEPT !.id = FirstId(s.filtered)]]
    ELSE [s EXCEPT !.prov = AtTop]

(* move_selection_up and move_selection_down wrap around. *)
Moved(c, list, up) ==
    LET n == Len(list)
        to == IF up THEN (c.index + 1) % n ELSE (c.index - 1) % n
    IN  IF n = 0 THEN c ELSE Scrolled([c EXCEPT !.index = to, !.id = list[to + 1]], n)

(* apply_alt_tab_selection: the second row, without scrolling to it. *)
AltTab(s, query) ==
    IF s.tab = "windows" /\ Len(s.filtered) >= 2 /\ query = "" /\ ~s.command
    THEN [s EXCEPT !.win.index = 1, !.win.id = s.filtered[2]]
    ELSE s

(* filter_windows: the results there may be.  On a provider tab it is the  *)
(* selection of the provider that is preserved and restored.               *)
FilterWindows(s, query) ==
    LET kept == IF s.tab = "windows" THEN [s EXCEPT !.win = Preserve(@, s.filtered)]
                ELSE [s EXCEPT !.prov = Preserve(@, s.rows)]
        restored(t) == IF t.tab = "windows" THEN [t EXCEPT !.win = Restore(@, t.filtered)]
                       ELSE [t EXCEPT !.prov = Restore(@, t.rows)]
    IN  UNION {{AltTab(restored([t EXCEPT !.filtered = f]), query) : f \in Filtered(t, query)} :
               t \in Ordered(UpdateHistory(kept))}

-----------------------------------------------------------------------------
(* The X server.                                                           *)
Activate(w) == sel.active # w /\ sel' = [sel EXCEPT !.active = w, !.told = @ \cup {"active"}]
Map(w) ==
    /\ w \notin Range(sel.open)
    /\ sel' = [sel EXCEPT !.open = Append(@, w), !.told = @ \cup {"list"}]
Unmap(w) ==
    /\ w \in Range(sel.open) /\ sel.active # w
    /\ sel' = [sel EXCEPT !.open = Without(@, {w}), !.told = @ \cup {"list"}]

(* handle_x11_event.  In command mode the text is a command. *)
Query(s) == IF s.command THEN "" ELSE s.text
OnClientList ==
    /\ "list" \in sel.told
    /\ sel' \in FilterWindows([sel EXCEPT !.wins = sel.open, !.told = @ \ {"list"}], Query(sel))
OnActiveWindow ==
    /\ "active" \in sel.told
    /\ sel' = [sel EXCEPT !.known = sel.active, !.told = @ \ {"active"}]

-----------------------------------------------------------------------------
RowLists == SetToSeqs(Rows) \cup {<<>>}   \* what the provider may show

(* The keys.                                                               *)
(* on_entry_changed; most providers reset the selection when they filter   *)
(* and so forget the row that was preserved.                               *)
Type(text) ==
    /\ ~sel.command /\ text # sel.text
    /\ LET s == [sel EXCEPT !.text = text] IN
       IF s.tab = "windows" THEN sel' \in FilterWindows(s, text)
       ELSE \E rows \in RowLists, c \in {AtTop, Preserve(s.prov, s.rows)} :
            sel' = [s EXCEPT !.rows = rows, !.prov = Restore(c, rows)]

MoveSelection ==
    \E up \in BOOLEAN :
        sel' = IF sel.tab = "windows" THEN [sel EXCEPT !.win = Moved(@, sel.filtered, up)]
               ELSE [sel EXCEPT !.prov = Moved(@, sel.rows, up)]

(* switch_to_tab: on the Windows tab the reset comes after the filter, so  *)
(* the first row is selected, not the second.  What the other tab had is   *)
(* not read again before it is reset and loaded.                           *)
SwitchTab ==
    LET s == [sel EXCEPT !.text = "", !.win = AtTop, !.prov = AtTop, !.rows = <<>>] IN
    IF s.tab = "windows" THEN sel' = [s EXCEPT !.tab = "provider"]
    ELSE \E t \in FilterWindows([s EXCEPT !.tab = "windows"], "") : sel' = ResetSelection(t)

(* show_window on the Windows tab, and the hotkey while cofi is on another *)
(* tab: reset before the filter.  The list is read again by show_window.   *)
Show ==
    \E read \in BOOLEAN :
        LET s == [sel EXCEPT !.tab = "windows", !.text = "", !.command = FALSE, !.rows = <<>>,
                             !.wins = IF read THEN sel.open ELSE @]
        IN  sel' \in FilterWindows(ResetSelection(s), "")

(* handle_repeat_key *)
Repeat ==
    /\ sel.tab = "windows" /\ ~sel.command
    /\ \E t \in FilterWindows(sel, "q") : sel' = [ResetSelection(t) EXCEPT !.text = ""]

Command == sel.text = "" /\ sel' = [sel EXCEPT !.command = ~@]

(* A provider replaces its rows: the answer of a process, a tick. *)
Refresh ==
    \E rows \in RowLists :
        /\ sel.tab = "provider" /\ rows # sel.rows
        /\ sel' = [sel EXCEPT !.rows = rows, !.prov = Restore(Preserve(@, sel.rows), rows)]

-----------------------------------------------------------------------------
(* app_init: the history is the list, then everything is filtered. *)
Start(native) ==
    [open |-> <<>>, active |-> Cofi, told |-> {}, wins |-> <<>>, history |-> <<>>, filtered |-> <<>>,
     known |-> Unknown, text |-> "", command |-> FALSE, native |-> native, tab |-> "windows",
     rows |-> <<>>, win |-> AtTop, prov |-> AtTop]

Init ==
    \E native \in BOOLEAN, wins \in {SetToSeq(Ids \ S) : S \in SUBSET Coming} :
        sel \in FilterWindows([Start(native) EXCEPT !.open = wins, !.wins = wins, !.history = wins], "")

Next ==
    \/ \E w \in Coming : Map(w) \/ Unmap(w)
    \/ \E w \in Range(sel.open) \cup {Cofi} : Activate(w)
    \/ OnClientList \/ OnActiveWindow
    \/ \E q \in {"", "q"} : Type(q)
    \/ MoveSelection \/ SwitchTab \/ Show \/ Repeat \/ Command \/ Refresh

Spec == Init /\ [][Next]_sel

-----------------------------------------------------------------------------
(* The history has each window of the list once, and when no notification  *)
(* is left each open window, in whatever order they came and were          *)
(* activated; a row is a window of the history, and stands once; Enter     *)
(* takes the window of the row that is marked; and the screen is never     *)
(* left empty by an offset that a longer list had.                         *)
RowsAreWindows ==
    /\ sel.history \in SetToSeqs(Range(sel.wins))
    /\ "list" \notin sel.told => Range(sel.wins) = Range(sel.open)
    /\ sel.filtered \in SetToSeqs(Range(sel.filtered)) /\ Range(sel.filtered) \subseteq Range(sel.history)
    /\ sel.tab = "windows" /\ sel.filtered # <<>> =>
           sel.win.index < Len(sel.filtered) /\ sel.win.id = sel.filtered[sel.win.index + 1]
    /\ sel.tab = "provider" /\ sel.rows # <<>> => sel.prov.index < Len(sel.rows)
    /\ LET c == IF sel.tab = "windows" THEN sel.win ELSE sel.prov
           n == IF sel.tab = "windows" THEN Len(sel.filtered) ELSE Len(sel.rows)
       IN  c.offset <= Upper(0, n - Lines)

(* A change of the window list while a query stands, and new rows of a     *)
(* provider, leave the selection on the window or row it was on.           *)
Selected(s) ==
    IF s.tab = "windows" THEN IF s.win.index < Len(s.filtered) THEN s.filtered[s.win.index + 1] ELSE Cofi
    ELSE IF s.prov.index < Len(s.rows) THEN s.rows[s.prov.index + 1] ELSE Cofi
KeepsSelected ==
    LET now == IF sel.tab = "windows" THEN sel'.filtered ELSE sel'.rows
        listed == "list" \in sel.told /\ "list" \notin sel'.told /\ sel.text # ""
        refreshed == sel.tab = "provider" /\ sel.rows # sel'.rows
    IN  (listed \/ refreshed) /\ sel.tab = sel'.tab /\ sel.text = sel'.text /\ Selected(sel) \in Range(now)
        => Selected(sel') = Selected(sel)

-----------------------------------------------------------------------------
(* core/history/CONTEXT.md:34: "When the active X11 window changes to a    *)
(* tracked non-cofi window, that window moves to history[0]".  Whenever    *)
(* the window list is shown in the order of cofi, it does.                 *)
PromotesActivated ==
    [][Show /\ ~sel.native /\ sel.active \in Range(sel'.wins) => Head(sel'.history) = sel.active]_sel
=============================================================================
