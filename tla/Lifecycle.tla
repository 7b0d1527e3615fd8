----------------------------- MODULE Lifecycle -----------------------------
(***************************************************************************)
(* The window of cofi: shown, hidden, its tabs, its three modes, the text  *)
(* of the entry and the prefix that claimed it, the overlay, the timers    *)
(* and idle calls it leaves behind, and the hotkeys and socket requests    *)
(* that arrive while any of that is going on.                              *)
(*                                                                         *)
(* The handlers call one another, so each function of the code is an       *)
(* operator from the state of the application to the state it leaves, and  *)
(* an action applies one of them to app.  A handler runs to its end: the   *)
(* interleaving is that of the callbacks of one main loop.                 *)
(***************************************************************************)
EXTENDS Naturals, Sequences, FiniteSets, SequencesExt

CONSTANTS
    Keys,        \* the code points that can be typed
    Later,       \* one of them, for any that is not the first of a text
    MaxText,     \* bound on the length of the text in the entry
    Bindings,    \* the commands that hotkeys run
    MaxHotkeys,  \* bound on the hotkeys that wait to be dispatched
    AutoClose    \* close_on_focus_loss of the configuration

(***************************************************************************)
(* visible, tab, mode, vis, claim, origin, overlay and target are fields   *)
(* of the program of these names, text is that of the entry.  focused: the *)
(* window has the focus; loss, regrab, tick: the timers that are armed;    *)
(* asked: the window manager was asked to present the window; pending:     *)
(* pending_hotkey_mode is set; idle: the idle calls that wait, and round   *)
(* those of the round that is running and have not run.                    *)
(***************************************************************************)
VARIABLE app

(***************************************************************************)
(* Tabs.  "path" stands for those claimed by a prefix, "list" for those    *)
(* opened by a command that poll, and "run" is the modal provider of the   *)
(* exclamation mark.  Only the windows are pinned.                         *)
(***************************************************************************)
Tab == {"windows", "path", "list", "run"}
TabOrder == <<"windows", "path", "list", "run">>
Ticking == {"list"}

Colon == 58
Bang == 33
NoClaim == 0

\* The tab that a prefix character claims, as far as it claims one.
TabClaimOfNoTab == [c \in {36, 62} |-> IF c = 36 THEN "apps" ELSE "windows"]
TabClaim == [c \in {36, 62} |-> IF c = 36 THEN "path" ELSE "windows"]
IsPrefixChar(c) == c \in {Colon, Bang} \union DOMAIN TabClaim

\* on_key_press narrows the code point of the key to a char.
Narrow(u) == u % 256

\* entry_text[0]: the first byte of a text in UTF-8, which is the character
\* itself in the ASCII range and never a prefix character outside of it.
FirstByte(t) == IF Head(t) < 128 THEN Head(t) ELSE 195

(***************************************************************************)
(* Commands, by what they do to the window.                                *)
(*   "act"     does its work and succeeds; "kill" also closes cofi         *)
(*   "help"    fails or leaves something to read                           *)
(*   "tile"    opens an overlay                                            *)
(*   "list"    opens a tab; "launch" is the same with an argument, which   *)
(*             starts something and closes cofi                            *)
(*   "run"     enters the modal of the run provider                        *)
(*   "windows", "command", "showrun"  are the modes of :show               *)
(***************************************************************************)
Command == {"act", "kill", "help", "tile", "list", "launch", "run",
            "windows", "command", "showrun"}
KeepsOpen(c) == c \notin {"act", "kill"}
ClosesAfter(c) == c \in {"kill", "launch", "run"}
Succeeds(c) == c \in {"act", "kill", "launch"}

\* What a hotkey that only fills the command line would run does not matter.
Hotkey == [cmd : Bindings, auto : {TRUE}] \union [cmd : {"act"}, auto : {FALSE}]

ASSUME LifecycleConstants ==
    /\ Keys \subseteq Nat /\ Later \in Keys
    /\ MaxText \in Nat \ {0} /\ Bindings \subseteq Command
    /\ MaxHotkeys \in Nat
    /\ AutoClose \in BOOLEAN

InitApp ==
    [visible |-> FALSE, focused |-> FALSE, tab |-> "windows", mode |-> "normal",
     vis |-> [t \in Tab |-> IF t = "windows" THEN "pinned" ELSE "hidden"],
     text |-> <<>>, claim |-> NoClaim, origin |-> "windows",
     overlay |-> FALSE, target |-> FALSE, loss |-> FALSE, regrab |-> FALSE, asked |-> FALSE,
     tick |-> "none", pending |-> FALSE, idle |-> <<>>, round |-> <<>>]

GrabFocus == [cmd |-> "grab", auto |-> FALSE]
IsHotkey(i) == i # GrabFocus

\* g_source_remove of the one idle call that grabs the focus, if it waits.
Grabs(s) == {i \in DOMAIN s : s[i] = GrabFocus}
Ungrabbed(s) == IF Grabs(s) = {} THEN s ELSE RemoveAt(s, CHOOSE i \in Grabs(s) : TRUE)

-----------------------------------------------------------------------------
(***************************************************************************)
(* Tabs and modes.  SwitchQuietly is switch_to_tab with entry changes      *)
(* suppressed, as the prefixes and the modals call it.                     *)
(***************************************************************************)
LeaveTab(a) == IF a.tab = "windows" THEN a ELSE [a EXCEPT !.tick = "none"]

EnterTab(a, t) ==
    [a EXCEPT !.tick = CASE t = "windows" -> @
                         [] t \in Ticking -> t
                         [] OTHER -> "none"]

SwitchQuietly(a, t) ==
    IF a.tab = t THEN a
    ELSE EnterTab([LeaveTab(a) EXCEPT !.tab = t, !.text = <<>>], t)

Surfaced(vis, t) == [vis EXCEPT ![t] = IF @ = "hidden" THEN "surfaced" ELSE @]

ClearSurfaced(vis) ==
    [t \in Tab |-> IF vis[t] = "surfaced" THEN "hidden" ELSE vis[t]]

EnterModal(a, t) ==
    LET b == [a EXCEPT !.origin = IF a.tab # t THEN a.tab ELSE @,
                       !.mode = "modal",
                       !.vis = Surfaced(@, t)]
    IN  [SwitchQuietly(b, t) EXCEPT !.text = <<>>]

ExitModal(a) ==
    IF a.mode # "modal" THEN a
    ELSE SwitchQuietly([a EXCEPT !.mode = "normal",
                                 !.vis = IF a.tab = "windows" THEN @
                                         ELSE [@ EXCEPT ![a.tab] = "hidden"],
                                 !.claim = NoClaim],
                       a.origin)

\* Emptying the entry in command mode only updates the candidates.
EnterCommandMode(a) == [a EXCEPT !.mode = "command", !.text = <<>>]

DispatchPrefix(a, c) ==
    LET b == [a EXCEPT !.origin = a.tab, !.claim = c] IN
    CASE c = Colon -> EnterCommandMode(b)
      [] c = Bang  -> EnterModal(b, "run")
      [] OTHER     -> [SwitchQuietly(b, TabClaim[c]) EXCEPT !.text = <<>>]

-----------------------------------------------------------------------------
(***************************************************************************)
(* The "changed" signal of the entry.  GTK emits it only when the text     *)
(* becomes another one.                                                    *)
(***************************************************************************)
ApplyPrefixClaim(a) ==
    IF a.text = <<>>
    THEN IF a.claim = NoClaim THEN a
         ELSE [SwitchQuietly(a, a.origin) EXCEPT !.claim = NoClaim]
    ELSE LET c == FirstByte(a.text)
             rest == Tail(a.text)
         IN  CASE c = Colon ->
                    EnterCommandMode(IF a.claim # NoClaim THEN a
                                     ELSE [a EXCEPT !.origin = a.tab, !.claim = Colon])
               [] c = Bang /\ a.claim = NoClaim ->
                    [DispatchPrefix(a, c) EXCEPT !.text = rest]
               [] c \in DOMAIN TabClaim \/ (c = Bang /\ a.claim # NoClaim) ->
                    DispatchPrefix(a, c)
               [] OTHER -> [a EXCEPT !.claim = NoClaim]

EntryChanged(a) ==
    IF a.mode = "normal" THEN ApplyPrefixClaim(a) ELSE a

SetText(a, t) == IF a.text = t THEN a ELSE EntryChanged([a EXCEPT !.text = t])

SwitchTab(a, t) ==
    IF a.tab = t THEN a
    ELSE EnterTab(SetText([LeaveTab(a) EXCEPT !.tab = t], <<>>), t)

SurfaceTab(a, t) == SwitchTab([a EXCEPT !.vis = Surfaced(@, t)], t)

ExitCommandModeAimed(a) ==
    IF a.mode = "normal" THEN a ELSE SetText([a EXCEPT !.mode = "normal"], <<>>)

\* Also called in a modal, by the commands of hotkeys.
ExitCommandMode(a) ==
    IF a.mode = "normal" THEN a
    ELSE SetText([a EXCEPT !.mode = "normal", !.target = FALSE], <<>>)

ExitModes(a) ==
    CASE a.mode = "command" -> ExitCommandMode(a)
      [] a.mode = "modal"   -> ExitModal(a)
      [] OTHER              -> a

-----------------------------------------------------------------------------
(***************************************************************************)
(* Showing and hiding.                                                     *)
(***************************************************************************)
ShowWindow(a) ==
    IF a.visible THEN [a EXCEPT !.asked = @ \/ ~a.focused]
    ELSE [a EXCEPT !.visible = TRUE, !.regrab = FALSE,
                   !.idle = Append(Ungrabbed(@), GrabFocus), !.round = Ungrabbed(@)]

HideWindowSurfaced(a) ==
    IF ~a.visible THEN a
    ELSE LET b == ExitModes([SetText(a, <<>>) EXCEPT !.tick = "none"])
         IN  [b EXCEPT !.tab = "windows",
                       !.overlay = FALSE, !.loss = FALSE, !.regrab = FALSE, !.asked = FALSE,
                       !.idle = Ungrabbed(@), !.round = Ungrabbed(@),
                       !.visible = FALSE]

HideWindow(a) ==
    IF ~a.visible THEN a
    ELSE LET b == ExitModes([SetText(a, <<>>) EXCEPT !.tick = "none"])
         IN  [b EXCEPT !.vis = ClearSurfaced(@), !.tab = "windows",
                       !.overlay = FALSE, !.loss = FALSE, !.regrab = FALSE, !.asked = FALSE,
                       !.idle = Ungrabbed(@), !.round = Ungrabbed(@),
                       !.visible = FALSE]

ShowOverlay(a) == [ShowWindow(a) EXCEPT !.overlay = TRUE]

\* dispatch_hotkey_mode, as :show calls it.
DispatchMode(a, mode) ==
    LET fresh == ShowWindow([a EXCEPT !.tab = "windows",
                                      !.target = IF mode = "command" THEN TRUE ELSE @])
        shown == ExitModes([a EXCEPT !.loss = FALSE])
    IN  CASE mode = "windows" ->
               IF ~a.visible THEN fresh
               ELSE IF shown.tab = "windows" THEN shown
               ELSE SetText([shown EXCEPT !.tab = "windows"], <<>>)
          [] mode = "command" ->
               EnterCommandMode(IF ~a.visible THEN fresh
                                ELSE [shown EXCEPT !.tab = "windows", !.target = TRUE])
          [] mode = "showrun" ->
               EnterModal(IF ~a.visible THEN fresh ELSE [shown EXCEPT !.tab = "windows"],
                          "run")

(***************************************************************************)
(* execute_command: the state a command leaves.  A command that fails or   *)
(* stays open leaves the command line to be cleared by its caller.         *)
(***************************************************************************)
Execute(a, c) ==
    CASE c \in {"act", "kill", "help"} -> a
      [] c = "tile" -> ShowOverlay(a)
      [] c = "launch" -> ExitCommandMode(a)
      [] c = "list" ->
           LET b == ExitCommandMode(a) IN SurfaceTab([b EXCEPT !.origin = b.tab], "list")
      [] c = "run" ->
           LET b == ExitCommandMode(a)
           IN  EnterModal([b EXCEPT !.origin = b.tab, !.claim = Bang], "run")
      [] OTHER -> DispatchMode(ExitCommandMode(a), c)

-----------------------------------------------------------------------------
(***************************************************************************)
(* Keys.                                                                   *)
(***************************************************************************)
InsertKey(a, u) == SetText(a, IF a.text = <<>> THEN <<u>> ELSE Append(a.text, Later))

TypeKey(a, u) ==
    LET c == Narrow(u)
        dispatched == /\ a.text = <<>> \/ (u = Colon /\ a.mode = "normal")
                      /\ IsPrefixChar(c)
                      /\ a.claim # c
    IN  CASE dispatched -> DispatchPrefix(ExitModes(a), c)
          [] ~dispatched /\ a.mode = "command" /\ u = Colon -> a
          [] ~dispatched /\ a.mode = "command" /\ u = Bang ->
               LET b == ExitCommandMode(a)
               IN  EnterModal([b EXCEPT !.origin = b.tab, !.claim = Bang], "run")
          [] OTHER -> InsertKey(a, u)

\* The modal of the run provider has the policy COFI_MODAL_CLEAR_THEN_RETURN.
Escape(a) ==
    CASE a.mode = "command" -> ExitCommandMode(a)
      [] a.mode = "modal" /\ a.text # <<>> -> [a EXCEPT !.text = <<>>]
      [] a.mode = "modal" /\ a.text = <<>> -> ExitModal(a)
      [] OTHER -> HideWindow(a)

\* should_close_after_execute reads the command out of the entry, which a
\* handler that left command mode has emptied by then.
EnterOnCommand(a, c) ==
    LET b == Execute(a, c)
        dismissed == ClosesAfter(c) /\ b.text # <<>>
    IN  CASE a.text = <<>> -> ExitCommandMode(a)
          [] a.text # <<>> /\ ~Succeeds(c) -> SetText(b, <<>>)
          [] OTHER -> IF dismissed THEN HideWindow(ExitCommandMode(b))
                      ELSE ExitCommandMode(b)

Reachable(a, t) == a.vis[t] # "hidden"

TabIndex(t) == CHOOSE i \in DOMAIN TabOrder : TabOrder[i] = t

\* The nearest tab in the direction that is reachable, and the tab itself last.
NextTab(a, forward) ==
    LET n == Len(TabOrder)
        At(i) == TabOrder[((TabIndex(a.tab) - 1 + (IF forward THEN i ELSE n - i)) % n) + 1]
        steps == {i \in 1 .. n : Reachable(a, At(i))}
    IN  At(CHOOSE i \in steps : \A j \in steps : i <= j)

PressTab(a, forward) ==
    LET b == [IF a.mode = "modal" THEN ExitModal(a) ELSE a EXCEPT !.claim = NoClaim]
        t == NextTab(b, forward)
    IN  SwitchTab(IF b.vis[b.tab] = "surfaced" /\ b.vis[t] = "pinned"
                  THEN [b EXCEPT !.vis = ClearSurfaced(@)] ELSE b, t)

-----------------------------------------------------------------------------
(***************************************************************************)
(* Idle calls.  The main loop runs a round of all that are waiting; what   *)
(* they add waits for the next round, what they remove does not run.       *)
(***************************************************************************)
PrefillCommandMode(a) ==
    LET b == ShowWindow([a EXCEPT !.target = TRUE])
        c == IF b.mode = "command" THEN b ELSE EnterCommandMode(b)
    IN  [c EXCEPT !.text = <<Later>>]

DispatchHotkey(a, h) ==
    LET b == [a EXCEPT !.pending = FALSE]
        c == Execute(IF KeepsOpen(h.cmd) THEN ShowWindow(b) ELSE b, h.cmd)
    IN  IF ~h.auto THEN PrefillCommandMode(b)
        ELSE IF ClosesAfter(h.cmd) \/ ~KeepsOpen(h.cmd) THEN HideWindow(c) ELSE c

GrabFocusOnce(a, ok) ==
    IF ~a.visible THEN [a EXCEPT !.regrab = FALSE]
    ELSE [a EXCEPT !.regrab = FALSE, !.focused = @ \/ ok, !.asked = @ /\ ~ok]

\* XSetInputFocus succeeds, or fails and is tried again after 20 ms.
GrabFocusDelayed(a, ok) ==
    IF ~a.visible THEN [a EXCEPT !.regrab = FALSE]
    ELSE [a EXCEPT !.regrab = ~ok, !.focused = @ \/ ok, !.asked = @ /\ ~ok]

\* Mutant: only the first of the idle calls is taken.
RoundOfOne(a) == [a EXCEPT !.round = <<Head(a.idle)>>, !.idle = Tail(a.idle)]
RoundOfAll(a) == [a EXCEPT !.round = a.idle, !.idle = <<>>]

-----------------------------------------------------------------------------
(***************************************************************************)
(* The callbacks of the main loop.                                         *)
(***************************************************************************)
Init == app = InitApp

\* Keys reach the window when it has the focus, and its modes when no overlay
\* takes them.
Keyboard == app.visible /\ app.focused

OnKey(u) ==
    /\ Keyboard /\ ~app.overlay
    /\ Len(app.text) < MaxText
    /\ app' = TypeKey(app, u)

OnBackspace ==
    /\ Keyboard /\ ~app.overlay
    /\ app.text # <<>>
    /\ app' = SetText(app, Front(app.text))

\* The text behind a leading colon is read through a pointer into the entry,
\* which has been emptied since: what it finds there is up to GTK.
Replaced(t, kept) ==
    LET a == SetText(app, t)
    IN  IF kept /\ app.mode = "normal" /\ a.mode = "command" THEN [a EXCEPT !.text = Tail(t)]
        ELSE a

\* The first character is deleted, which leaves any other in its place.
OnDeleteFirst(u) ==
    /\ Keyboard /\ ~app.overlay
    /\ Len(app.text) >= 2
    /\ \E kept \in BOOLEAN : app' = Replaced(<<u>> \o Tail(Tail(app.text)), kept)

OnPaste(u) ==
    /\ Keyboard /\ ~app.overlay
    /\ app.text = <<>> /\ MaxText >= 2
    /\ \E kept \in BOOLEAN : app' = Replaced(<<u, Later>>, kept)

OnEscape ==
    /\ Keyboard
    /\ app' = IF app.overlay THEN [app EXCEPT !.overlay = FALSE] ELSE Escape(app)

OnTab(forward) ==
    /\ Keyboard /\ ~app.overlay
    /\ app' = PressTab(app, forward)

\* Enter with a command on the command line.
OnEnterCommand(c) ==
    /\ Keyboard /\ ~app.overlay
    /\ app.mode = "command"
    /\ app' = EnterOnCommand(app, c)

\* Enter on a row: the provider asks to hide, or to stay.
OnEnterRow(hide) ==
    /\ Keyboard /\ ~app.overlay
    /\ app.mode # "command"
    /\ app' = CASE hide /\ app.mode = "modal" -> HideWindow(ExitModal(app))
                [] hide /\ app.mode = "normal" -> HideWindow(app)
                [] ~hide /\ app.mode = "modal" -> [app EXCEPT !.text = <<>>]
                [] OTHER -> app

\* An overlay such as the tiling one does its work and hides the window.
OnOverlayDone ==
    /\ Keyboard /\ app.overlay
    /\ app' = HideWindow(app)

OnDelete == app.visible /\ app' = HideWindow(app)

OnFocusIn ==
    /\ app.visible /\ ~app.focused
    /\ app' = [app EXCEPT !.focused = TRUE, !.asked = FALSE]

OnFocusOut ==
    /\ app.focused
    /\ LET a == [app EXCEPT !.focused = FALSE]
           b == IF app.pending THEN a ELSE ExitModes(a)
       IN  app' = [b EXCEPT !.loss = AutoClose \/ @]

OnLossTimer ==
    /\ app.loss
    /\ LET a == [app EXCEPT !.loss = FALSE]
       IN  app' = IF a.visible /\ ~a.focused THEN HideWindow(a) ELSE a

OnRegrabTimer(ok) ==
    /\ app.regrab
    /\ app' = GrabFocusDelayed([app EXCEPT !.regrab = FALSE], ok)

OnTick ==
    /\ app.tick # "none"
    /\ app' = IF app.tab = app.tick THEN app ELSE [app EXCEPT !.tick = "none"]

OnHotkey(h) ==
    /\ Cardinality({i \in DOMAIN app.idle : IsHotkey(app.idle[i])}) < MaxHotkeys
    /\ app' = [app EXCEPT !.loss = IF app.visible THEN FALSE ELSE @,
                          !.pending = TRUE, !.idle = Append(@, h)]

OnIdle ==
    /\ app.idle # <<>>
    /\ app' = RoundOfAll(app)

\* The next call of the round.
RunIdle(ok) ==
    /\ app.round # <<>>
    /\ LET a == [app EXCEPT !.round = Tail(@)]
       IN  app' = IF Head(app.round) = GrabFocus THEN GrabFocusDelayed(a, ok)
                  ELSE DispatchHotkey(a, Head(app.round))

(***************************************************************************)
(* Requests of other invocations.                                          *)
(***************************************************************************)
RequestWindows ==
    LET a == ShowWindow([ExitModes(app) EXCEPT !.tab = "windows"])
    IN  app' = SetText(a, <<>>)

RequestTab(t) ==
    app' = SurfaceTab(ShowWindow([ExitModes(app) EXCEPT !.tab = "windows"]), t)

\* With the name of a command of a provider; another name shows an error.
RequestShowTab(known) ==
    LET a == ShowWindow([ExitModes(app) EXCEPT !.tab = "windows"])
    IN  app' = IF known THEN Execute(a, "list") ELSE a

RequestCommand ==
    app' = EnterCommandMode(ShowWindow([app EXCEPT !.tab = "windows", !.target = TRUE]))

RequestRun ==
    LET a == ShowWindow([app EXCEPT !.tab = "windows"])
        b == IF a.mode = "command" THEN ExitCommandMode(a) ELSE a
    IN  app' = EnterModal([b EXCEPT !.origin = b.tab, !.claim = Bang], "run")

-----------------------------------------------------------------------------
Keyed ==
    \/ \E u \in Keys : OnKey(u) \/ OnDeleteFirst(u) \/ OnPaste(u)
    \/ OnBackspace \/ OnEscape
    \/ \E forward \in BOOLEAN : OnTab(forward)
    \/ \E c \in Command : OnEnterCommand(c)
    \/ \E hide \in BOOLEAN : OnEnterRow(hide)
    \/ OnOverlayDone

Requested ==
    \/ RequestWindows \/ RequestCommand \/ RequestRun
    \/ RequestTab("path")
    \/ \E known \in BOOLEAN : RequestShowTab(known)

Dispatched ==
    \/ Keyed \/ Requested
    \/ OnDelete \/ OnFocusIn \/ OnFocusOut \/ OnLossTimer \/ OnTick
    \/ \E h \in Hotkey : OnHotkey(h)
    \/ \E ok \in BOOLEAN : OnRegrabTimer(ok)
    \/ OnIdle

\* Nothing else is dispatched before the round is over.
Next ==
    \/ app.round = <<>> /\ Dispatched
    \/ \E ok \in BOOLEAN : RunIdle(ok)

Spec == Init /\ [][Next]_app

-----------------------------------------------------------------------------
(***************************************************************************)
(* Properties.                                                             *)
(***************************************************************************)

\* The fields have their types, and at most one request for the focus is
\* outstanding, of the idle calls and the timer together.
TypeOK ==
    /\ app.tab \in Tab /\ app.origin \in Tab
    /\ app.mode \in {"normal", "command", "modal"}
    /\ \A t \in Tab : app.vis[t] \in {"pinned", "surfaced", "hidden"}
    /\ Len(app.text) <= MaxText
    /\ \A i, j \in Grabs(app.idle) : i = j
    /\ \A i, j \in Grabs(app.round) : i = j
    /\ Grabs(app.round) = {} \/ Grabs(app.idle) = {}
    /\ app.regrab => Grabs(app.idle) \cup Grabs(app.round) = {}

\* Whatever was going on when the window was hidden, by a key, a command, a
\* hotkey, the window manager or the loss of the focus: the next one to show
\* it finds the windows tab in normal mode and an empty entry, no tab that
\* only a command had opened, no overlay, no target of an old command.
HiddenIsReset ==
    ~app.visible => /\ app.tab = "windows" /\ app.mode = "normal" /\ ~app.overlay
                    /\ \A t \in Tab : app.vis[t] # "surfaced"
                    /\ ~app.regrab /\ app.text = <<>> /\ ~app.target

\* A target belongs to a command line, and a modal has its tab in front, which
\* is where the keys of the modal are taken from, and can be cycled to:
\* whatever sequence of prefixes, hotkeys and requests led there.
ModesFit ==
    /\ app.target => app.mode = "command"
    /\ app.mode = "modal" => app.tab = "run" /\ app.vis["run"] = "surfaced"

\* Between two rounds of idle calls, which is when the focus can be lost, the
\* flag that keeps a loss of the focus from ending the modes is set as
\* long as a hotkey waits, although the first dispatch of several clears it.
PendingCoversQueue ==
    app.round = <<>> =>
        (app.pending <=> \E i \in DOMAIN app.idle : IsHotkey(app.idle[i]))

\* A window that is shown without the focus is never left alone: it is about
\* to be hidden, or its focus was requested, or an idle call will see to it.
NeverStranded ==
    AutoClose /\ app.visible /\ ~app.focused =>
        app.loss \/ app.regrab \/ app.asked \/ app.idle \o app.round # <<>>
=============================================================================
