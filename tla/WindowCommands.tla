--------------------------- MODULE WindowCommands ---------------------------
(* What a line of commands does to windows and workspaces                  *)
(* (src/src/commands/command_handlers.c and the handlers it calls), from   *)
(* each of the places that run one: the command line, a hotkey and a rule; *)
(* and the dialogs a command without an argument opens, whose answer comes *)
(* later (src/src/harpoon/workspace_overlay.c, src/src/geom/               *)
(* tiling_overlay.c, src/src/workspaces/overlay_workspace.c).              *)
(* A line is given its window as a pointer into an array, which a command  *)
(* of the line may fill anew: every command reads the place again.         *)
(* The window manager carries a request out at once.                       *)
EXTENDS Integers, Sequences, FiniteSets, SequencesExt, FiniteSetsExt

CONSTANTS Win,          \* windows, positive
          Desks,        \* number of workspaces
          PerRow,       \* workspaces_per_row
          Screens,      \* number of monitors
          Names,        \* what a workspace can be called
          Lines,        \* lines that are typed or bound: sequences of [cmd, arg]
          MaxLines      \* bound: lines that are run

(* wc.clients is the list of the X server; list, count and seen are what   *)
(* app->windows has of it (the places from count on keep what they had),   *)
(* rows and at what app->filtered and the selection have; told observes.   *)
VARIABLE wc

None == 0
NoArg == "none"
Desk == 0..(Desks - 1)
Dirs == {"left", "right", "up", "down"}
Place == 1..Cardinality(Win)
NoDialog == [kind |-> "none", of |-> -1, for |-> {}, again |-> FALSE]
Nothing == [window |-> None, on |-> {}, front |-> {}, anyFront |-> TRUE, slips |-> FALSE]

(* A line is a sequence of commands (command_parser.c).                    *)
CommandsFit == Lines \subseteq Seq([cmd : STRING, arg : STRING])

-----------------------------------------------------------------------------
(* adjacent_workspace: no wrap, and nothing at the end of a short last row. *)
Adjacent(current, dir) ==
    LET row == IF PerRow <= 0 THEN Desks ELSE PerRow
        to == [left |-> <<-1, 0>>, right |-> <<1, 0>>, up |-> <<0, -1>>, down |-> <<0, 1>>][dir]
        x == (current % row) + to[1]  y == (current \div row) + to[2]
        ok == x \in 0..(row - 1) /\ y >= 0 /\ y * row + x < Desks
    IN  IF ok THEN y * row + x ELSE -1

(* What atoi and strtol make of an argument. *)
Number(arg) == SelectInSeq(<<"0", "1", "2", "3">>, LAMBDA t : t = arg) - 1

(* resolve_workspace_from_arg: a direction or a number from 1; -1 if there *)
(* is no such workspace.                                                   *)
Workspace(s, arg) ==
    IF arg \in Dirs THEN Adjacent(s.current, arg)
    ELSE IF Number(arg) \in 1..Desks THEN Number(arg) - 1 ELSE -1

Live(s) == Range(s.clients)
Entries(s) == {n \in Place : n <= s.count}
Listed(s) == {s.list[n] : n \in Entries(s)}

(* get_selected_window: the selected row of the Windows tab, if any.       *)
Selected(s) == IF s.at \in DOMAIN s.rows THEN s.rows[s.at] ELSE None

(* get_window_list: the clients of now, from the first place on.           *)
Relisted(s) ==
    [s EXCEPT !.list = [n \in Place |-> IF n <= Len(s.clients) THEN s.clients[n] ELSE s.list[n]],
              !.count = Len(s.clients),
              !.seen = [w \in Win |-> IF w \in Live(s) THEN s.desk[w] ELSE s.seen[w]]]

(* apply_alt_tab_selection: the second row, or the only one.               *)
AltTabRow(rows) == IF Len(rows) >= 2 THEN 2 ELSE Len(rows)

(* show_window reads the list only if cofi is hidden.                      *)
Overlaid(s) ==
    IF s.shown THEN s
    ELSE [Relisted(s) EXCEPT !.rows = s.clients, !.at = AltTabRow(s.clients), !.shown = TRUE]

(* A WindowInfo *: a row, an entry of the list, or NULL; what it points to. *)
Row(n) == [in |-> "rows", at |-> n]
Entry(n) == [in |-> "list", at |-> n]
Null == [in |-> "null", at |-> 0]
At(s, p) == CASE p.in = "rows" -> s.rows[p.at] [] p.in = "list" -> s.list[p.at] [] OTHER -> None

-----------------------------------------------------------------------------
(* The handlers: the state they leave, and what they return.  What is asked *)
(* of a window that has gone has no effect.                                 *)
Done(s) == [s |-> s, ok |-> TRUE]
Failed(s) == [s |-> s, ok |-> FALSE]

ShowOverlay(s, kind, of, for) ==
    [Overlaid(s) EXCEPT !.dialog = [kind |-> kind, of |-> of, for |-> for, again |-> FALSE]]
Ask(s, kind, for) == Failed(ShowOverlay(s, kind, -1, for))

MoveTo(s, ws, d) == [s EXCEPT !.desk = [w \in Win |-> IF w \in ws \cap Live(s) THEN d ELSE @[w]]]
Activated(s, w) ==
    IF w \in Live(s) THEN [s EXCEPT !.active = w, !.hidden = @ \ {w}] ELSE s

(* cmd_every_workspace and the six others that set, clear or toggle a state. *)
StateCommand(s, w, arg) ==
    IF arg \notin {NoArg, "on", "off"} THEN Failed(s)
    ELSE LET on == CASE arg = "on" -> TRUE [] arg = "off" -> FALSE [] OTHER -> w \notin s.sticky
         IN  Done(IF w \notin Live(s) THEN s
                  ELSE [s EXCEPT !.sticky = IF on THEN @ \cup {w} ELSE @ \ {w}])

ChangeWorkspace(s, w, arg) ==
    IF arg = NoArg THEN Ask(s, "jump", {})
    ELSE IF Workspace(s, arg) < 0 THEN Failed(s)
    ELSE Done(MoveTo(s, {w}, Workspace(s, arg)))

JumpWorkspace(s, arg) ==
    IF arg = NoArg THEN Ask(s, "jump", {})
    ELSE IF Workspace(s, arg) < 0 THEN Failed(s)
    ELSE Done([s EXCEPT !.current = Workspace(s, arg)])

(* cmd_jump_slot reads the list anew and numbers the windows of the current *)
(* workspace, here in the order of the list.                                *)
JumpSlot(s, arg) ==
    LET t == Relisted(s)
        here == SelectSeq(t.clients, LAMBDA v : /\ t.desk[v] = t.current \/ v \in t.sticky
                                                /\ v \notin t.hidden)
    IN  IF Number(arg) < 1 THEN Failed(s)
        ELSE IF Number(arg) > Len(here) THEN Failed(t)
        ELSE Done(Activated(t, here[Number(arg)]))

PullWindow(s, w) == Done(MoveTo(s, {w}, s.current))

(* move_window_to_monitor_with_screen, by number or the next one.  Without *)
(* a number it is the selected window, not the commanded one.              *)
ToMonitor(s, w, m) == IF w \in Live(s) THEN [s EXCEPT !.screen[w] = m] ELSE s
ToggleMonitor(s, w, arg) ==
    IF arg = NoArg
    THEN LET v == Selected(s) IN
         Done(IF v = None \/ Screens < 2 THEN s ELSE ToMonitor(s, v, (s.screen[v] + 1) % Screens))
    ELSE IF w \in Live(s) /\ Number(arg) \in 0..(Screens - 1) THEN Done(ToMonitor(s, w, Number(arg)))
    ELSE Failed(s)

ApplyTiling(s, w) == IF w \in Live(s) THEN [s EXCEPT !.tiled = @ \cup {w}] ELSE s
TileWindow(s, w, arg) ==
    CASE arg = NoArg -> Ask(s, "tile", {})
      [] arg = "tile" -> Done(ApplyTiling(s, w))
      [] OTHER -> Failed(s)

Without(s, w) == [s EXCEPT !.clients = SelectSeq(@, LAMBDA v : v # w), !.gone = @ \cup {w},
                           !.active = IF @ = w THEN None ELSE @]
CloseWindow(s, w) == Done(Without(s, w))
MinimizeWindow(s, w) ==
    Done(IF w \notin Live(s) \/ w \in s.hidden THEN Activated(s, w)
         ELSE [s EXCEPT !.hidden = @ \cup {w}, !.active = IF @ = w THEN None ELSE @])

(* find_swap_partner: the first other row. *)
Partner(s, w) ==
    LET others == SelectSeq(s.rows, LAMBDA v : v # w)
    IN  IF Len(s.rows) < 2 \/ others = <<>> THEN None ELSE others[1]
SwapWindows(s, w) ==
    LET v == Partner(s, w) IN
    IF w \notin Live(s) \/ v \notin Live(s) THEN Failed(s)
    ELSE Done([s EXCEPT !.screen = [@ EXCEPT ![w] = s.screen[v], ![v] = s.screen[w]]])

(* collect_windows_to_move goes by the workspace that the list has of a    *)
(* window; the dialog moves what is collected when it is answered.         *)
Movable(s) == {w \in Listed(s) \ s.sticky : s.seen[w] = s.current}
MoveAll(s, arg) ==
    LET which == Movable(s)
        t == [s EXCEPT !.collected = which, !.dialog.again = s.dialog.kind = "all"]
        d == Workspace(s, arg)
    IN  CASE which = {} -> Failed(t)
          [] which # {} /\ arg = NoArg -> Ask(t, "all", which)
          [] which # {} /\ arg # NoArg /\ d < 0 -> Failed(t)
          [] OTHER -> Done([MoveTo(t, which, d) EXCEPT !.current = d])

(* cmd_rename_workspace returns TRUE with its dialog on the screen.        *)
RenameWorkspace(s, arg) ==
    IF arg = NoArg THEN Done(ShowOverlay(s, "rename", s.current, {}))
    ELSE IF Number(arg) \in 1..Desks THEN Done(ShowOverlay(s, "rename", Number(arg) - 1, {}))
    ELSE Failed(s)

WithoutWindow == {"jw", "js", "maw", "rw"}
Activates == {"ew", "cw", "pw", "tm", "tw"}
KeepsOpen(seg) == seg.cmd = "rw" \/ (seg.cmd \in {"cw", "jw", "maw", "tw"} /\ seg.arg = NoArg)
ClosesAfter(seg) == seg.cmd \in {"cl", "js", "miw"}

Handler(s, w, seg) ==
    IF w = None /\ seg.cmd \notin WithoutWindow THEN Failed(s)
    ELSE CASE seg.cmd = "ew"  -> StateCommand(s, w, seg.arg)
           [] seg.cmd = "cw"  -> ChangeWorkspace(s, w, seg.arg)
           [] seg.cmd = "jw"  -> JumpWorkspace(s, seg.arg)
           [] seg.cmd = "js"  -> JumpSlot(s, seg.arg)
           [] seg.cmd = "pw"  -> PullWindow(s, w)
           [] seg.cmd = "tm"  -> ToggleMonitor(s, w, seg.arg)
           [] seg.cmd = "tw"  -> TileWindow(s, w, seg.arg)
           [] seg.cmd = "cl"  -> CloseWindow(s, w)
           [] seg.cmd = "miw" -> MinimizeWindow(s, w)
           [] seg.cmd = "sw"  -> SwapWindows(s, w)
           [] seg.cmd = "maw" -> MoveAll(s, seg.arg)
           [] seg.cmd = "rw"  -> RenameWorkspace(s, seg.arg)
           [] OTHER -> Failed(s)

-----------------------------------------------------------------------------
(* What a command is meant for, when its line was given window w: its      *)
(* windows, and those that it gives the focus to on its own.               *)
Meant(s, w, seg) ==
    CASE seg.cmd \in {"jw", "js", "rw"} -> {}
      [] seg.cmd = "maw" -> Movable(s)
      [] seg.cmd = "sw" -> {w, Partner(s, w)}
      [] seg.cmd = "tm" /\ seg.arg = NoArg -> {Selected(s)}
      [] OTHER -> {w}
Told(s, seg) ==
    [s EXCEPT !.told.on = @ \cup Meant(s, s.told.window, seg),
              !.told.front = IF seg.cmd = "miw" THEN @ \cup ({s.told.window} \cap s.hidden) ELSE @]

\* Mutant: a command of a rule activates its window as well.
ContinueInFront(r, p, seg, background) ==
    LET h == Handler(Told(r.s, seg), At(r.s, p), seg) IN
    IF ~r.ok THEN r
    ELSE IF h.ok /\ seg.cmd \in Activates THEN Done(Activated(h.s, At(h.s, p))) ELSE h

(* execute_single_command: a foreground command that says so activates its *)
(* window; the first failure ends the line.                                *)
Continue(r, p, seg, background) ==
    LET h == Handler(Told(r.s, seg), At(r.s, p), seg) IN
    IF ~r.ok THEN r
    ELSE IF h.ok /\ seg.cmd \in Activates /\ ~background THEN Done(Activated(h.s, At(h.s, p)))
    ELSE h

(* visit_command_segments *)
Results(s, p, line, background) ==
    LET r[n \in 0..Len(line)] ==
            IF n = 0 THEN Done(s) ELSE Continue(r[n - 1], p, line[n], background)
    IN  r

(* A line that reads the list again slips if its place in the list is then *)
(* another window's.                                                       *)
Has(line, cmd) == \E n \in DOMAIN line : line[n].cmd = cmd
Relists(s, line) == Has(line, "js") \/ (Has(line, "rw") /\ ~s.shown)
Moves(s, p, line) ==
    Has(line, "cl") \/ (p.at <= Len(s.clients) /\ s.clients[p.at] # s.list[p.at])
About(s, p, line, background) ==
    [s EXCEPT !.ran = @ + 1,
              !.told = [window |-> At(s, p), on |-> {}, front |-> {},
                        anyFront |-> ~background \/ Has(line, "js"),
                        slips |-> p.in = "list" /\ Relists(s, line) /\ Moves(s, p, line)]]
Execute(s, p, line, background) ==
    Results(About(s, p, line, background), p, line, background)[Len(line)]

(* hide_window goes back to the Windows tab. *)
Hidden(s) == [s EXCEPT !.shown = FALSE, !.dialog = NoDialog,
                       !.at = IF @ = 0 /\ s.rows # <<>> THEN 1 ELSE @]
Apart == [wc EXCEPT !.told = Nothing]

-----------------------------------------------------------------------------
(* Enter on the command line: it acts on the selected row, and leaves the  *)
(* window on the screen unless one of its commands closes it.              *)
TypeLine(line) ==
    /\ wc.shown /\ wc.dialog = NoDialog
    /\ LET p == IF Selected(wc) = None THEN Null ELSE Row(wc.at)
           r == Execute(wc, p, line, FALSE)
           closes == r.ok /\ \E n \in DOMAIN line : ClosesAfter(line[n])
       IN  wc' = IF closes THEN Hidden(r.s) ELSE r.s

(* hotkey_dispatch_idle, a binding that ends in "!": it acts on the active *)
(* window as far as the list has it, on none if that is cofi's own; shown  *)
(* before when a command keeps cofi open, hidden after otherwise.          *)
HotkeyLine(line) ==
    LET keeps == \E n \in DOMAIN line : KeepsOpen(line[n])
        closes == \E n \in DOMAIN line : ClosesAfter(line[n])
        s == IF keeps THEN Overlaid(wc) ELSE wc
        found == {Entry(n) : n \in {m \in Entries(s) : s.list[m] = s.active}}
    IN  \E p \in (IF found = {} \/ s.shown THEN {Null} ELSE {}) \cup found :
            LET r == Execute(s, p, line, FALSE)
            IN  wc' = IF closes \/ ~keeps THEN Hidden(r.s) ELSE r.s

(* rules_apply hands a rule an entry of the list. *)
RuleLine(line, n) == wc' = Execute(wc, Entry(n), line, TRUE).s

(* The keys of the dialogs.  They read the selection of now; the rename    *)
(* dialog takes a stored 0 for a missing index.                            *)
AnswerTile ==
    /\ wc.dialog.kind = "tile" /\ Selected(wc) # None
    /\ wc' = Hidden(ApplyTiling([Apart EXCEPT !.told.on = {Selected(wc)}], Selected(wc)))
AnswerJump(d) ==
    /\ wc.dialog.kind = "jump"
    /\ wc' = Hidden([Apart EXCEPT !.current = d])
\* Mutant: the windows are collected when the dialog is answered.
AnswerAllNow(d) ==
    /\ wc.dialog.kind = "all"
    /\ LET s == [Apart EXCEPT !.told.on = wc.dialog.for, !.told.slips = wc.dialog.again] IN
       wc' = Hidden(IF d = wc.current THEN s ELSE [MoveTo(s, Movable(s), d) EXCEPT !.current = d])
AnswerAll(d) ==
    /\ wc.dialog.kind = "all"
    /\ LET s == [Apart EXCEPT !.told.on = wc.dialog.for, !.told.slips = wc.dialog.again] IN
       wc' = Hidden(IF d = wc.current THEN s
                    ELSE [MoveTo(s, wc.collected, d) EXCEPT !.current = d])
AnswerRename(name) ==
    /\ wc.dialog.kind = "rename"
    /\ wc' = [Apart EXCEPT !.dialog = NoDialog,
                           !.names[wc.dialog.of] = IF wc.dialog.of = 0 THEN @ ELSE name]
Cancel == wc.dialog # NoDialog /\ wc' = [Apart EXCEPT !.dialog = NoDialog]

(* The client list event: the list and the rows are those of now, and the  *)
(* selection stays on its window, or goes to the first row or to that of   *)
(* alt-tab; another tab stays.                                             *)
Relist ==
    \E n \in {m \in DOMAIN wc.clients : wc.clients[m] = Selected(wc)}
             \cup {Min({1, Len(wc.clients)}), AltTabRow(wc.clients)}
             \cup (IF wc.shown /\ wc.at = 0 THEN {0} ELSE {}) :
        wc' = [Relisted(Apart) EXCEPT !.rows = wc.clients, !.at = n]

(* The rest of the world: a window opens or goes away before cofi is told; *)
(* cofi is shown or hidden, another row or another tab is chosen, another  *)
(* window gets the focus, another workspace is entered.                    *)
Open(w) == w \notin Live(wc) \cup wc.gone /\ wc' = [Apart EXCEPT !.clients = Append(@, w)]
Gone(w) == w \in Live(wc) /\ wc' = [Without(Apart, w) EXCEPT !.told.on = {w}]
Show == ~wc.shown /\ wc' = Overlaid(Apart)
Hide == wc.shown /\ wc' = Hidden(Apart)
Select == \E n \in DOMAIN wc.rows \cup (IF wc.shown THEN {0} ELSE {}) : wc' = [Apart EXCEPT !.at = n]
Focus == \E w \in Live(wc) : wc' = Activated(Apart, w)
Wander == \E d \in Desk : wc' = [Apart EXCEPT !.current = d]

Init == \E clients \in UNION {SetToSeqs(S) : S \in SUBSET Win} :
    wc = [clients |-> clients, gone |-> {}, count |-> Len(clients), rows |-> clients, at |-> 0,
          list |-> [n \in Place |-> IF n <= Len(clients) THEN clients[n] ELSE None],
          seen |-> [w \in Win |-> 0], desk |-> [w \in Win |-> 0], screen |-> [w \in Win |-> 0],
          sticky |-> {}, hidden |-> {}, tiled |-> {}, current |-> 0, active |-> None,
          names |-> [d \in Desk |-> "old"], shown |-> FALSE, dialog |-> NoDialog,
          collected |-> {}, told |-> Nothing, ran |-> 0]

Next ==
    \/ wc.ran < MaxLines /\ \E line \in Lines :
        \/ TypeLine(line)
        \/ HotkeyLine(line)
        \/ \E n \in Entries(wc) : RuleLine(line, n)
    \/ \E d \in Desk : AnswerJump(d) \/ AnswerAll(d)
    \/ \E name \in Names : AnswerRename(name)
    \/ AnswerTile \/ Cancel \/ Relist
    \/ \E w \in Win : Open(w) \/ Gone(w)
    \/ Show \/ Hide \/ Select \/ Focus \/ Wander

Spec == Init /\ [][Next]_wc

-----------------------------------------------------------------------------
(* The windows that are moved, tiled, marked, minimized or closed.         *)
Touched == {w \in Win : \/ wc'.desk[w] # wc.desk[w] \/ wc'.screen[w] # wc.screen[w]
                        \/ (w \in wc.tiled) # (w \in wc'.tiled)
                        \/ (w \in wc.sticky) # (w \in wc'.sticky)
                        \/ w \in wc'.hidden \ wc.hidden \/ w \in wc'.gone \ wc.gone}

(* Each command of a line changes the window the line was given for, which *)
(* it reads through a pointer after what the commands before it did to the *)
(* arrays; "sw" its partner too, "maw" those on the current workspace, and *)
(* "tm" without a number the selected one.  The answer to the dialog for   *)
(* tiling changes the selected window, that to "maw" the windows its       *)
(* dialog was opened for, and nothing else changes any.  A rule gives the  *)
(* focus to no window but one that was minimized and that it restores, or  *)
(* that it jumps to.  Not so when a hotkey or a rule reads the list again  *)
(* and its place has moved, or when a later "maw" has replaced what a      *)
(* dialog collected.                                                       *)
ActsAsTold ==
    \/ wc'.told.slips
    \/ /\ Touched \subseteq wc'.told.on
       /\ wc'.told.anyFront \/ wc'.active \in {wc.active, None} \cup wc'.told.front
KeepsToItsWindows == [][ActsAsTold]_wc
=============================================================================
