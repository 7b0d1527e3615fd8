-------------------------- MODULE LifecycleProofs --------------------------
(***************************************************************************)
(* Theorems of Lifecycle.  The handlers call one another, so each operator *)
(* gets a lemma that says which part of the state it may change: an edit   *)
(* changes the entry, the tabs and the modes only; what shows the window   *)
(* leaves it Shown; and a handler as a whole leaves it Settled.  The steps *)
(* of the callbacks are then put together from these.                      *)
(***************************************************************************)
EXTENDS Lifecycle, SequenceTheorems, TLAPS

-----------------------------------------------------------------------------
(* The state of the window, and what every callback keeps of it             *)

Claims == {NoClaim, Colon, Bang} \cup DOMAIN TabClaim
Vis == {"pinned", "surfaced", "hidden"}
Text == {s \in Seq(Nat) : Len(s) <= MaxText}
Idles == Seq(Hotkey \cup {GrabFocus})

App ==
    [visible : BOOLEAN, focused : BOOLEAN, tab : Tab, mode : {"normal", "command", "modal"},
     vis : [Tab -> Vis], text : Text, claim : Claims, origin : Tab,
     overlay : BOOLEAN, target : BOOLEAN, loss : BOOLEAN, regrab : BOOLEAN, asked : BOOLEAN,
     tick : {"none"} \cup Tab, pending : BOOLEAN, idle : Idles, round : Idles]

(* The modes and the fields that belong to one another.                     *)
Fits(a) ==
    /\ a.target => a.mode = "command"
    /\ a.mode = "modal" => a.tab = "run" /\ a.vis["run"] = "surfaced"
    /\ a.vis["run"] # "pinned" /\ a.vis["windows"] = "pinned"

Reset(a) ==
    ~a.visible => /\ a.tab = "windows" /\ a.mode = "normal" /\ ~a.overlay
                  /\ \A t \in Tab : a.vis[t] # "surfaced"
                  /\ ~a.regrab /\ a.text = <<>> /\ ~a.target

(* One request for the focus at most.                                       *)
OneGrab(a) ==
    /\ \A i, j \in Grabs(a.idle) : i = j
    /\ \A i, j \in Grabs(a.round) : i = j
    /\ Grabs(a.round) = {} \/ Grabs(a.idle) = {}
    /\ a.regrab => Grabs(a.idle) \cup Grabs(a.round) = {}

(* While a round runs, no hotkey waits that is not in it.                   *)
Waits(s) == \E i \in DOMAIN s : IsHotkey(s[i])
Covered(a) ==
    IF a.round = <<>> THEN a.pending <=> Waits(a.idle)
    ELSE ~Waits(a.idle) /\ (a.pending => Waits(a.round))

Seen(a) ==
    AutoClose /\ a.visible /\ ~a.focused =>
        a.loss \/ a.regrab \/ a.asked \/ a.idle # <<>> \/ a.round # <<>>

LInv == app \in App /\ Fits(app) /\ Reset(app) /\ OneGrab(app) /\ Covered(app) /\ Seen(app)

(* What a callback does to the entry, the tabs and the modes leaves the     *)
(* window, its focus, its timers and its idle calls alone.                  *)
Window(a) ==
    <<a.visible, a.focused, a.overlay, a.loss, a.regrab, a.asked, a.pending, a.idle, a.round>>
Edits(a, b) == b \in App /\ Window(b) = Window(a)

(* The queue of hotkeys is as before, and the focus is seen to by other     *)
(* means than the timer of a loss.                                          *)
Kept(a, b) ==
    /\ b.pending = a.pending
    /\ Waits(b.idle) <=> Waits(a.idle)
    /\ a.round = <<>> => b.round = <<>>
Attended(a) == a.visible /\ ~a.focused => a.regrab \/ a.asked \/ a.idle # <<>>

Shown(z, a) == a \in App /\ a.visible /\ OneGrab(a) /\ Kept(z, a) /\ Attended(a)
Settled(z, a) ==
    a \in App /\ Fits(a) /\ Reset(a) /\ OneGrab(a) /\ Kept(z, a) /\ Attended(a)

(* Edits follow one another.                                                *)
LEMMA EditsCompose ==
  ASSUME NEW a, NEW b, NEW c, Edits(a, b), Edits(b, c)
  PROVE  Edits(a, c)
  BY DEF Edits

(* The fields that an edit leaves alone, one by one.                        *)
LEMMA WindowFields ==
  ASSUME NEW a, NEW b, Window(b) = Window(a)
  PROVE  /\ b.visible = a.visible /\ b.focused = a.focused /\ b.overlay = a.overlay
         /\ b.loss = a.loss /\ b.regrab = a.regrab /\ b.asked = a.asked
         /\ b.pending = a.pending /\ b.idle = a.idle /\ b.round = a.round
  BY DEF Window

(* An edit of the open window leaves it open.                               *)
LEMMA ShownEdited ==
  ASSUME NEW z, NEW a, NEW b, Shown(z, a), Edits(a, b)
  PROVE  Shown(z, b)
  BY WindowFields DEF Shown, Edits, OneGrab, Kept, Attended

(* An edit before the window is shown changes nothing about that.           *)
LEMMA EditedShown ==
  ASSUME NEW z, NEW a, NEW b, Edits(z, a), Shown(a, b)
  PROVE  Shown(z, b)
  BY WindowFields DEF Shown, Edits, Kept

(* An open window whose modes fit has settled.                              *)
LEMMA ShownSettles ==
  ASSUME NEW z, NEW a, Shown(z, a), Fits(a)
  PROVE  Settled(z, a)
  BY DEF Shown, Settled, Reset

-----------------------------------------------------------------------------
(* The text of the entry                                                    *)

(* The texts the entry is given fit into it.                                *)
LEMMA TextFacts ==
  /\ <<>> \in Text
  /\ \A u \in Nat : <<u>> \in Text
  /\ \A s \in Text : s # <<>> =>
        /\ Head(s) \in Nat /\ Tail(s) \in Text /\ Front(s) \in Text
        /\ Len(s) >= 2 => \A u \in Nat : /\ <<u>> \o Tail(Tail(s)) \in Text
                                          /\ <<u>> \o Tail(Tail(s)) # <<>>
  /\ \A s \in Text, u \in Nat : Len(s) < MaxText => Append(s, u) \in Text
  /\ MaxText >= 2 => \A u, v \in Nat : <<u, v>> \in Text
<1>1. MaxText \in Nat \ {0}
  BY LifecycleConstants
<1>2. <<>> \in Text /\ \A u \in Nat : <<u>> \in Text
  BY <1>1 DEF Text
<1>3. ASSUME NEW s \in Text, s # <<>>
      PROVE  Head(s) \in Nat /\ Tail(s) \in Text /\ Front(s) \in Text
  BY <1>1, <1>3 DEF Text, Front
<1>4. ASSUME NEW s \in Text, Len(s) >= 2, NEW u \in Nat
      PROVE  <<u>> \o Tail(Tail(s)) \in Text /\ <<u>> \o Tail(Tail(s)) # <<>>
  <2>0. s \in Seq(Nat) /\ s # <<>>
    BY <1>4 DEF Text
  <2>1. Tail(s) \in Seq(Nat) /\ Len(Tail(s)) = Len(s) - 1
    BY <2>0, HeadTailProperties
  <2>1a. Tail(s) # <<>>
    <3>. SUFFICES ASSUME Tail(s) = <<>> PROVE FALSE
      OBVIOUS
    <3>1. Len(Tail(s)) = 0
      BY Zenon, EmptySeq
    <3>2. Len(s) \in Nat
      BY <2>0, LenProperties
    <3>3. \A n \in Nat : n >= 2 => n - 1 # 0
      OBVIOUS
    <3>. QED  BY Zenon, <1>4, <2>1, <3>1, <3>2, <3>3
  <2>2. Tail(Tail(s)) \in Seq(Nat) /\ Len(Tail(Tail(s))) = Len(s) - 2
    BY <2>1, <2>1a, HeadTailProperties
  <2>3. <<u>> \in Seq(Nat) /\ Len(<<u>>) = 1
    OBVIOUS
  <2>4. <<u>> \o Tail(Tail(s)) # <<>>
    BY <2>2, <2>3
  <2>. QED  BY <1>1, <2>2, <2>3, <2>4 DEF Text
<1>5. \A s \in Text, u \in Nat : Len(s) < MaxText => Append(s, u) \in Text
  BY <1>1 DEF Text
<1>6. MaxText >= 2 => \A u, v \in Nat : <<u, v>> \in Text
  BY <1>1 DEF Text
<1>. QED  BY <1>2, <1>3, <1>4, <1>5, <1>6

(* A prefix claims a tab, and never that of the modal.                      *)
LEMMA TabClaims ==
  ASSUME NEW c, c \in DOMAIN TabClaim
  PROVE  TabClaim[c] \in Tab /\ TabClaim[c] # "run" /\ c \in Claims
  BY DEF TabClaim, Tab, Claims

-----------------------------------------------------------------------------
(* Tabs and modes                                                           *)

(* switch_to_tab of a prefix or a modal ends at the tab it was asked for.   *)
LEMMA SwitchQuietlyEdits ==
  ASSUME NEW a \in App, NEW t \in Tab, NEW b, b = SwitchQuietly(a, t)
  PROVE  /\ Edits(a, b)
         /\ b.tab = t /\ b.mode = a.mode /\ b.vis = a.vis /\ b.target = a.target
         /\ b.text \in {a.text, <<>>}
<1>1. <<>> \in Text
  BY TextFacts
<1>2. CASE a.tab = t
  BY <1>2 DEF SwitchQuietly, Edits
<1>3. CASE a.tab # t
  <2> DEFINE c == LeaveTab(a)
             d == [c EXCEPT !.tab = t, !.text = <<>>]
  <2>1. /\ Edits(a, c) /\ c.mode = a.mode /\ c.vis = a.vis /\ c.target = a.target
    BY DEF LeaveTab, App, Edits, Window
  <2>. HIDE DEF c
  <2>2. /\ Edits(c, d) /\ d.mode = c.mode /\ d.vis = c.vis /\ d.target = c.target
        /\ d.tab = t /\ d.text = <<>>
    BY <1>1, <2>1 DEF App, Edits, Window
  <2>3. b = EnterTab(d, t)
    BY <1>3 DEF SwitchQuietly, c
  <2>. HIDE DEF d
  <2>4. /\ Edits(d, b) /\ b.mode = d.mode /\ b.vis = d.vis /\ b.target = d.target
        /\ b.tab = t /\ b.text = <<>>
    BY <2>2, <2>3 DEF EnterTab, App, Edits, Window, Ticking, Tab
  <2>. QED  BY <2>1, <2>2, <2>4 DEF Edits
<1>. QED  BY <1>2, <1>3

(* A modal has its tab in front, whatever tab it was entered from.          *)
LEMMA EnterModalFits ==
  ASSUME NEW a \in App, ~a.target, a.vis["run"] # "pinned", a.vis["windows"] = "pinned",
         NEW b, b = EnterModal(a, "run")
  PROVE  Edits(a, b) /\ Fits(b) /\ b.text = <<>> /\ ~b.target /\ b.mode = "modal"
<1> DEFINE c == [a EXCEPT !.origin = IF a.tab # "run" THEN a.tab ELSE @,
                          !.mode = "modal",
                          !.vis = Surfaced(@, "run")]
           d == SwitchQuietly(c, "run")
<1>1. "run" \in Tab /\ <<>> \in Text
  BY TextFacts DEF Tab
<1>2. Surfaced(a.vis, "run") \in [Tab -> Vis] /\ Surfaced(a.vis, "run")["run"] = "surfaced"
      /\ Surfaced(a.vis, "run")["windows"] = "pinned"
  BY <1>1 DEF App, Surfaced, Vis, Tab
<1>3. Edits(a, c) /\ c.mode = "modal" /\ c.vis = Surfaced(a.vis, "run") /\ ~c.target
  BY <1>2 DEF App, Edits, Window
<1>4. b = [d EXCEPT !.text = <<>>]
  BY DEF EnterModal
<1>. HIDE DEF c
<1>5. Edits(c, d) /\ d.tab = "run" /\ d.mode = "modal" /\ d.vis = c.vis /\ ~d.target
  BY <1>1, <1>3, SwitchQuietlyEdits DEF Edits
<1>. HIDE DEF d
<1>6. Edits(d, b) /\ b.tab = "run" /\ b.mode = "modal" /\ b.vis = d.vis /\ ~b.target
      /\ b.text = <<>>
  BY <1>1, <1>4, <1>5 DEF Edits, App, Window
<1>. QED  BY <1>2, <1>3, <1>5, <1>6 DEF Edits, Fits

(* Its end returns to the tab it came from, and hides its own.              *)
LEMMA ExitModalFits ==
  ASSUME NEW a \in App, Fits(a), NEW b, b = ExitModal(a)
  PROVE  /\ Edits(a, b) /\ Fits(b) /\ b.text \in {a.text, <<>>}
         /\ b.mode = IF a.mode = "modal" THEN "normal" ELSE a.mode
<1>1. CASE a.mode # "modal"
  BY <1>1 DEF ExitModal, Edits
<1>2. CASE a.mode = "modal"
  <2> DEFINE v == IF a.tab = "windows" THEN a.vis ELSE [a.vis EXCEPT ![a.tab] = "hidden"]
             c == [a EXCEPT !.mode = "normal", !.vis = v, !.claim = NoClaim]
  <2>1. v \in [Tab -> Vis] /\ v["run"] # "pinned" /\ v["windows"] = "pinned"
    BY DEF App, Vis, Fits, Tab
  <2>2. b = SwitchQuietly(c, a.origin)
    BY <1>2 DEF ExitModal
  <2>. HIDE DEF v
  <2>3. Edits(a, c) /\ c.mode = "normal" /\ c.vis = v /\ ~c.target /\ c.text = a.text
    BY <1>2, <2>1 DEF App, Edits, Window, Claims, Fits
  <2>. HIDE DEF c
  <2>4. a.origin \in Tab
    BY DEF App
  <2>5. c \in App
    BY <2>3 DEF Edits
  <2>6. /\ Edits(c, b) /\ b.mode = c.mode /\ b.vis = c.vis /\ b.target = c.target
        /\ b.text \in {c.text, <<>>}
    BY <2>2, <2>4, <2>5, SwitchQuietlyEdits
  <2>. QED  BY <1>2, <2>1, <2>3, <2>6 DEF Edits, Fits
<1>. QED  BY <1>1, <1>2

(* Command mode is entered with an empty entry.                             *)
LEMMA EnterCommandModeFits ==
  ASSUME NEW a \in App, a.vis["run"] # "pinned", a.vis["windows"] = "pinned",
         NEW b, b = EnterCommandMode(a)
  PROVE  Edits(a, b) /\ Fits(b) /\ b.mode = "command" /\ b.target = a.target /\ b.text = <<>>
<1>1. <<>> \in Text
  BY TextFacts
<1>2. Edits(a, b) /\ b.mode = "command" /\ b.target = a.target /\ b.text = <<>> /\ b.vis = a.vis
  BY <1>1 DEF EnterCommandMode, App, Edits, Window
<1>. QED  BY <1>2 DEF Fits

(* A prefix in normal mode.                                                 *)
LEMMA DispatchPrefixFits ==
  ASSUME NEW a \in App, Fits(a), a.mode = "normal", NEW c, IsPrefixChar(c),
         NEW b, b = DispatchPrefix(a, c)
  PROVE  Edits(a, b) /\ Fits(b) /\ ~b.target /\ b.text = <<>>
<1> DEFINE d == [a EXCEPT !.origin = a.tab, !.claim = c]
<1>1. c \in Claims /\ <<>> \in Text /\ (c \in {Colon, Bang} \/ c \in DOMAIN TabClaim)
  BY TextFacts DEF IsPrefixChar, Claims
<1>2. Edits(a, d) /\ d.mode = "normal" /\ ~d.target /\ d.vis = a.vis
  BY <1>1 DEF App, Edits, Window, Fits
<1>3. d.vis["run"] # "pinned" /\ d.vis["windows"] = "pinned"
  BY <1>2 DEF Fits
<1>4. b = CASE c = Colon -> EnterCommandMode(d)
            [] c = Bang  -> EnterModal(d, "run")
            [] OTHER     -> [SwitchQuietly(d, TabClaim[c]) EXCEPT !.text = <<>>]
  BY DEF DispatchPrefix
<1>. HIDE DEF d
<1>5. CASE c = Colon
  <2>1. b = EnterCommandMode(d)
    BY <1>4, <1>5 DEF Bang, Colon
  <2>. QED  BY <1>2, <1>3, <2>1, EnterCommandModeFits DEF Edits
<1>6. CASE c = Bang
  <2>1. b = EnterModal(d, "run")
    BY <1>4, <1>6 DEF Bang, Colon
  <2>. QED  BY <1>2, <1>3, <2>1, EnterModalFits DEF Edits
<1>7. CASE c \notin {Colon, Bang}
  <2> DEFINE e == SwitchQuietly(d, TabClaim[c])
  <2>1. TabClaim[c] \in Tab
    BY <1>1, <1>7, TabClaims
  <2>2. Edits(d, e) /\ e.mode = "normal" /\ ~e.target /\ e.vis = d.vis
    BY <1>2, <2>1, SwitchQuietlyEdits DEF Edits
  <2>3. b = [e EXCEPT !.text = <<>>]
    BY <1>4, <1>7
  <2>. HIDE DEF e
  <2>4. Edits(e, b) /\ b.mode = "normal" /\ ~b.target /\ b.vis = d.vis /\ b.text = <<>>
    BY <1>1, <2>2, <2>3 DEF Edits, App, Window
  <2>. QED  BY <1>2, <1>3, <2>2, <2>4 DEF Edits, Fits
<1>. QED  BY <1>5, <1>6, <1>7

-----------------------------------------------------------------------------
(* The entry                                                                *)

(* The byte that apply_prefix_tab_claim looks at.                           *)
LEMMA FirstByteOfText ==
  ASSUME NEW t \in Text, t # <<>>
  PROVE  FirstByte(t) \in Nat
  BY TextFacts DEF FirstByte

(* What the text claims; an empty one stays in normal mode.                 *)
LEMMA ApplyPrefixClaimFits ==
  ASSUME NEW a \in App, Fits(a), a.mode = "normal", NEW b, b = ApplyPrefixClaim(a)
  PROVE  /\ Edits(a, b) /\ Fits(b) /\ ~b.target
         /\ a.text = <<>> => b.text = <<>> /\ b.mode = "normal"
<1>1. ~a.target /\ a.origin \in Tab /\ a.text \in Text
  BY DEF Fits, App
<1>2. CASE a.text = <<>>
  <2> DEFINE d == SwitchQuietly(a, a.origin)
  <2>1. /\ Edits(a, d) /\ d.mode = "normal" /\ d.vis = a.vis /\ ~d.target /\ d.text = <<>>
    BY <1>1, <1>2, SwitchQuietlyEdits
  <2>2. b = a \/ b = [d EXCEPT !.claim = NoClaim]
    BY <1>2 DEF ApplyPrefixClaim
  <2>. HIDE DEF d
  <2>3. CASE b = [d EXCEPT !.claim = NoClaim]
    <3>1. /\ Edits(d, b) /\ b.mode = d.mode /\ b.vis = d.vis /\ b.target = d.target
          /\ b.text = d.text
      BY <2>1, <2>3 DEF Edits, App, Window, Claims
    <3>. QED  BY <1>2, <2>1, <3>1 DEF Edits, Fits
  <2>. QED  BY <1>1, <1>2, <2>2, <2>3 DEF Edits
<1>3. CASE a.text # <<>>
  <2> DEFINE c == FirstByte(a.text)
             rest == Tail(a.text)
             e == IF a.claim # NoClaim THEN a
                  ELSE [a EXCEPT !.origin = a.tab, !.claim = Colon]
             d == DispatchPrefix(a, c)
  <2>1. c \in Nat /\ rest \in Text
    BY <1>1, <1>3, FirstByteOfText, TextFacts
  <2>2. b = CASE c = Colon -> EnterCommandMode(e)
              [] c = Bang /\ a.claim = NoClaim -> [d EXCEPT !.text = rest]
              [] c \in DOMAIN TabClaim \/ (c = Bang /\ a.claim # NoClaim) -> d
              [] OTHER -> [a EXCEPT !.claim = NoClaim]
    BY <1>3 DEF ApplyPrefixClaim
  <2>3. Edits(a, e) /\ e.vis = a.vis /\ ~e.target
    <3> DEFINE g == [a EXCEPT !.origin = a.tab, !.claim = Colon]
    <3>1. Edits(a, g) /\ g.vis = a.vis /\ g.target = a.target
      BY DEF App, Edits, Window, Claims
    <3>. HIDE DEF g
    <3>2. e = a \/ e = g
      BY DEF g
    <3>. QED  BY <1>1, <3>1, <3>2 DEF Edits
  <2>4. IsPrefixChar(c) => Edits(a, d) /\ Fits(d) /\ ~d.target
    BY DispatchPrefixFits
  <2>. HIDE DEF c, rest, e, d
  <2>5. CASE c = Colon
    <3>1. b = EnterCommandMode(e)
      BY <2>2, <2>5 DEF Colon, Bang, TabClaim
    <3>2. e \in App /\ e.vis["run"] # "pinned" /\ e.vis["windows"] = "pinned"
      BY <2>3 DEF Edits, Fits
    <3>3. Edits(e, b) /\ Fits(b) /\ b.target = e.target
      BY <3>1, <3>2, EnterCommandModeFits
    <3>. QED  BY <1>3, <2>3, <3>3 DEF Edits
  <2>6. CASE c = Bang /\ a.claim = NoClaim
    <3>1. b = [d EXCEPT !.text = rest]
      BY <2>2, <2>6 DEF Colon, Bang, TabClaim
    <3>2. Edits(a, d) /\ Fits(d) /\ ~d.target
      BY <2>4, <2>6 DEF IsPrefixChar
    <3>3. Edits(d, b) /\ b.mode = d.mode /\ b.tab = d.tab /\ b.vis = d.vis /\ b.target = d.target
      BY <2>1, <3>1, <3>2 DEF Edits, App, Window
    <3>. QED  BY <1>3, <3>2, <3>3 DEF Edits, Fits
  <2>7. CASE c \in DOMAIN TabClaim \/ (c = Bang /\ a.claim # NoClaim)
    <3>1. b = d
      BY <2>2, <2>7 DEF Colon, Bang, TabClaim
    <3>. QED  BY <1>3, <2>4, <2>7, <3>1 DEF IsPrefixChar
  <2>8. CASE c # Colon /\ c # Bang /\ c \notin DOMAIN TabClaim
    <3>1. b = [a EXCEPT !.claim = NoClaim]
      BY <2>2, <2>8
    <3>2. Edits(a, b) /\ b.mode = a.mode /\ b.tab = a.tab /\ b.vis = a.vis /\ b.target = a.target
      BY <3>1 DEF Edits, App, Window, Claims
    <3>. QED  BY <1>1, <1>3, <3>2 DEF Fits
  <2>. QED  BY <2>5, <2>6, <2>7, <2>8
<1>. QED  BY <1>2, <1>3

(* Setting the text keeps the modes fitting; emptying it changes neither    *)
(* the mode nor the target.                                                 *)
LEMMA SetTextFits ==
  ASSUME NEW a \in App, Fits(a), NEW t \in Text, NEW b, b = SetText(a, t)
  PROVE  /\ Edits(a, b) /\ Fits(b) /\ b.target = a.target
         /\ t = <<>> => b.text = <<>> /\ b.mode = a.mode
<1> DEFINE c == [a EXCEPT !.text = t]
<1>1. /\ Edits(a, c) /\ c.text = t /\ c.mode = a.mode /\ c.tab = a.tab /\ c.vis = a.vis
      /\ c.target = a.target
  BY DEF Edits, App, Window
<1>2. CASE a.text = t
  BY <1>2 DEF SetText, Edits
<1>3. CASE a.text # t
  <2>1. b = EntryChanged(c)
    BY <1>3 DEF SetText
  <2>. HIDE DEF c
  <2>2. c \in App /\ Fits(c)
    BY <1>1 DEF Edits, Fits
  <2>3. CASE a.mode = "normal"
    <3>1. b = ApplyPrefixClaim(c) /\ c.mode = "normal"
      BY <1>1, <2>1, <2>3 DEF EntryChanged
    <3>2. Edits(c, b) /\ Fits(b) /\ ~b.target /\ (c.text = <<>> => b.text = <<>> /\ b.mode = "normal")
      BY <2>2, <3>1, ApplyPrefixClaimFits
    <3>3. ~a.target /\ a.target \in BOOLEAN /\ b.target \in BOOLEAN
      BY <2>3, <3>2 DEF Edits, App, Fits
    <3>4. b.target = a.target
      BY <3>2, <3>3
    <3>. QED  BY <1>1, <2>3, <3>2, <3>4 DEF Edits
  <2>4. CASE a.mode # "normal"
    <3>1. b = c
      BY <1>1, <2>1, <2>4 DEF EntryChanged
    <3>. QED  BY <1>1, <2>2, <2>4, <3>1
  <2>. QED  BY <2>3, <2>4
<1>. QED  BY <1>2, <1>3

(* Another tab, outside of a modal.                                         *)
LEMMA SwitchTabFits ==
  ASSUME NEW a \in App, Fits(a), a.mode # "modal", NEW t \in Tab, NEW b, b = SwitchTab(a, t)
  PROVE  Edits(a, b) /\ Fits(b) /\ b.target = a.target /\ b.mode = a.mode
<1>1. CASE a.tab = t
  BY <1>1 DEF SwitchTab, Edits
<1>2. CASE a.tab # t
  <2> DEFINE c == LeaveTab(a)
             d == [c EXCEPT !.tab = t]
             e == SetText(d, <<>>)
  <2>1. Edits(a, c) /\ c.mode = a.mode /\ c.vis = a.vis /\ c.target = a.target
    BY DEF LeaveTab, App, Edits, Window
  <2>2. b = EnterTab(e, t)
    BY <1>2 DEF SwitchTab
  <2>. HIDE DEF c
  <2>3. Edits(c, d) /\ d.mode = c.mode /\ d.vis = c.vis /\ d.target = c.target
    BY <2>1 DEF App, Edits, Window
  <2>. HIDE DEF d
  <2>4. d \in App /\ Fits(d) /\ <<>> \in Text
    BY <2>1, <2>3, TextFacts DEF Edits, Fits
  <2>5. Edits(d, e) /\ Fits(e) /\ e.target = d.target /\ e.mode = d.mode
    BY <2>4, SetTextFits
  <2>. HIDE DEF e
  <2>6. /\ Edits(e, b) /\ b.mode = e.mode /\ b.vis = e.vis /\ b.target = e.target
        /\ b.tab = e.tab
    BY <2>2, <2>5 DEF EnterTab, App, Edits, Window, Ticking, Tab
  <2>. QED  BY <2>1, <2>3, <2>5, <2>6 DEF Edits, Fits
<1>. QED  BY <1>1, <1>2

(* A tab that a command surfaces.                                           *)
LEMMA SurfaceTabFits ==
  ASSUME NEW a \in App, Fits(a), a.mode # "modal", NEW t \in Tab, NEW b, b = SurfaceTab(a, t)
  PROVE  Edits(a, b) /\ Fits(b) /\ b.target = a.target
<1> DEFINE v == Surfaced(a.vis, t)
           c == [a EXCEPT !.vis = v]
<1>1. v \in [Tab -> Vis] /\ v["run"] # "pinned" /\ v["windows"] = "pinned"
  BY DEF Surfaced, App, Vis, Fits, Tab
<1>2. b = SwitchTab(c, t)
  BY DEF SurfaceTab
<1>. HIDE DEF v
<1>3. Edits(a, c) /\ c.mode = a.mode /\ c.target = a.target /\ c.vis = v
  BY <1>1 DEF App, Edits, Window
<1>. HIDE DEF c
<1>4. c \in App /\ Fits(c) /\ c.mode # "modal"
  BY <1>1, <1>3 DEF Edits, Fits
<1>5. Edits(c, b) /\ Fits(b) /\ b.target = c.target
  BY <1>2, <1>4, SwitchTabFits
<1>. QED  BY <1>3, <1>5 DEF Edits

(* exit_command_mode, from whichever mode, ends in normal mode without      *)
(* target.                                                                  *)
LEMMA ExitCommandModeFits ==
  ASSUME NEW a \in App, Fits(a), NEW b, b = ExitCommandMode(a)
  PROVE  /\ Edits(a, b) /\ Fits(b) /\ ~b.target /\ b.mode = "normal"
         /\ a.mode # "normal" \/ a.text = <<>> => b.text = <<>>
<1>1. CASE a.mode = "normal"
  BY <1>1 DEF ExitCommandMode, Edits, Fits
<1>2. CASE a.mode # "normal"
  <2> DEFINE c == [a EXCEPT !.mode = "normal", !.target = FALSE]
  <2>1. b = SetText(c, <<>>)
    BY <1>2 DEF ExitCommandMode
  <2>2. Edits(a, c) /\ c.mode = "normal" /\ ~c.target /\ c.vis = a.vis
    BY DEF App, Edits, Window
  <2>. HIDE DEF c
  <2>3. c \in App /\ Fits(c) /\ <<>> \in Text
    BY <2>2, TextFacts DEF Edits, Fits
  <2>4. Edits(c, b) /\ Fits(b) /\ b.target = c.target /\ b.text = <<>> /\ b.mode = c.mode
    BY <2>1, <2>3, SetTextFits
  <2>. QED  BY <2>2, <2>4 DEF Edits
<1>. QED  BY <1>1, <1>2

(* So does leaving all modes.                                               *)
LEMMA ExitModesFits ==
  ASSUME NEW a \in App, Fits(a), NEW b, b = ExitModes(a)
  PROVE  /\ Edits(a, b) /\ Fits(b) /\ b.mode = "normal" /\ ~b.target
         /\ a.text = <<>> => b.text = <<>>
<1>1. CASE a.mode = "command"
  <2>1. b = ExitCommandMode(a)
    BY <1>1 DEF ExitModes
  <2>. QED  BY <2>1, ExitCommandModeFits
<1>2. CASE a.mode = "modal"
  <2>1. b = ExitModal(a)
    BY <1>2 DEF ExitModes
  <2>2. /\ Edits(a, b) /\ Fits(b) /\ b.text \in {a.text, <<>>}
        /\ b.mode = IF a.mode = "modal" THEN "normal" ELSE a.mode
    BY <2>1, ExitModalFits
  <2>. QED  BY <1>2, <2>2 DEF Fits
<1>3. CASE a.mode \notin {"command", "modal"}
  <2>1. b = a /\ a.mode = "normal"
    BY <1>3 DEF ExitModes, App
  <2>. QED  BY <2>1 DEF Edits, Fits
<1>. QED  BY <1>1, <1>2, <1>3

-----------------------------------------------------------------------------
(* The idle calls                                                           *)

(* The grab of the focus can be told from a hotkey.                         *)
LEMMA GrabIsNoHotkey == GrabFocus \notin Hotkey
  BY DEF GrabFocus, Hotkey

(* What RemoveAt leaves of a sequence.                                      *)
LEMMA RemoveAtElements ==
  ASSUME NEW S, NEW s \in Seq(S), NEW i \in 1 .. Len(s)
  PROVE  /\ RemoveAt(s, i) \in Seq(S)
         /\ Len(RemoveAt(s, i)) = Len(s) - 1
         /\ \A j \in 1 .. Len(s) - 1 :
               RemoveAt(s, i)[j] = IF j < i THEN s[j] ELSE s[j + 1]
<1> DEFINE l == SubSeq(s, 1, i - 1)
           r == SubSeq(s, i + 1, Len(s))
<1>1. Len(s) \in Nat /\ \A j \in 1 .. Len(s) : s[j] \in S
  BY LenProperties, ElementOfSeq
<1>2. /\ l \in Seq(S) /\ Len(l) = i - 1
      /\ \A j \in 1 .. i - 1 : l[j] = s[j]
  <2>1. \A j \in 1 .. i - 1 : s[j] \in S
    BY <1>1
  <2>2. /\ l \in Seq(S) /\ Len(l) = IF 1 <= i - 1 THEN i - 1 - 1 + 1 ELSE 0
        /\ \A j \in 1 .. i - 1 - 1 + 1 : l[j] = s[1 + j - 1]
    BY <1>1, <2>1, SubSeqProperties, 1 \in Int, i - 1 \in Int
  <2>. HIDE DEF l
  <2>. QED  BY <2>2
<1>3. /\ r \in Seq(S) /\ Len(r) = Len(s) - i
      /\ \A j \in 1 .. Len(s) - i : r[j] = s[i + j]
  <2>1. \A j \in i + 1 .. Len(s) : s[j] \in S
    BY <1>1
  <2>2. /\ r \in Seq(S) /\ Len(r) = IF i + 1 <= Len(s) THEN Len(s) - (i + 1) + 1 ELSE 0
        /\ \A j \in 1 .. Len(s) - (i + 1) + 1 : r[j] = s[i + 1 + j - 1]
    BY <1>1, <2>1, SubSeqProperties, i + 1 \in Int, Len(s) \in Int
  <2>. HIDE DEF r
  <2>. QED  BY <1>1, <2>2
<1>. HIDE DEF l, r
<1>4. RemoveAt(s, i) = l \o r
  BY DEF RemoveAt, l, r
<1>5. /\ l \o r \in Seq(S) /\ Len(l \o r) = Len(l) + Len(r)
      /\ \A j \in 1 .. Len(l) + Len(r) :
            (l \o r)[j] = IF j <= Len(l) THEN l[j] ELSE r[j - Len(l)]
  BY <1>2, <1>3, ConcatProperties
<1>6. ASSUME NEW j \in 1 .. Len(s) - 1
      PROVE  (l \o r)[j] = IF j < i THEN s[j] ELSE s[j + 1]
  <2>1. j \in 1 .. Len(l) + Len(r)
    BY <1>1, <1>2, <1>3
  <2>2. (l \o r)[j] = IF j <= Len(l) THEN l[j] ELSE r[j - Len(l)]
    BY <1>5, <2>1
  <2>3. CASE j < i
    BY <1>2, <2>2, <2>3
  <2>4. CASE ~(j < i)
    <3>1. j - Len(l) \in 1 .. Len(s) - i /\ i + (j - Len(l)) = j + 1
      BY <1>1, <1>2, <2>4
    <3>. QED  BY <1>2, <1>3, <2>2, <2>4, <3>1
  <2>. QED  BY <2>3, <2>4
<1>. QED  BY <1>1, <1>2, <1>3, <1>4, <1>5, <1>6

(* Taking the one grab away leaves the hotkeys.                             *)
LEMMA UngrabbedIsIdles ==
  ASSUME NEW s \in Idles, \A i, j \in Grabs(s) : i = j, NEW u, u = Ungrabbed(s)
  PROVE  /\ u \in Idles /\ Grabs(u) = {} /\ (Waits(u) <=> Waits(s))
         /\ s = <<>> => u = <<>>
<1>1. s \in Seq(Hotkey \cup {GrabFocus}) /\ DOMAIN s = 1 .. Len(s) /\ Len(s) \in Nat
  BY LenProperties DEF Idles
<1>2. CASE Grabs(s) = {}
  BY <1>2 DEF Ungrabbed
<1>3. CASE Grabs(s) # {}
  <2>1. PICK i \in Grabs(s) : u = RemoveAt(s, i)
    BY <1>3 DEF Ungrabbed
  <2>2. i \in 1 .. Len(s) /\ s[i] = GrabFocus
    BY <1>1, <2>1 DEF Grabs
  <2>3. /\ u \in Idles /\ Len(u) = Len(s) - 1
        /\ \A j \in 1 .. Len(s) - 1 : u[j] = IF j < i THEN s[j] ELSE s[j + 1]
    <3>1. i \in 1 .. Len(s)
      BY <2>2
    <3>2. /\ RemoveAt(s, i) \in Seq(Hotkey \cup {GrabFocus})
          /\ Len(RemoveAt(s, i)) = Len(s) - 1
          /\ \A j \in 1 .. Len(s) - 1 :
                RemoveAt(s, i)[j] = IF j < i THEN s[j] ELSE s[j + 1]
      BY <1>1, <3>1, RemoveAtElements
    <3>. QED  BY Zenon, <2>1, <3>2 DEF Idles
  <2>4. DOMAIN u = 1 .. Len(s) - 1
    BY <2>3, LenProperties DEF Idles
  <2>5. \A j \in 1 .. Len(s) : j # i => s[j] # GrabFocus
    BY <1>1, <2>1 DEF Grabs
  <2>6. \A j \in DOMAIN u : u[j] # GrabFocus
    <3>1. SUFFICES ASSUME NEW j \in 1 .. Len(s) - 1 PROVE u[j] # GrabFocus
      BY <2>4
    <3>2. CASE j < i
      BY <1>1, <2>2, <2>3, <2>5, <3>2
    <3>3. CASE ~(j < i)
      <4>1. u[j] = s[j + 1] /\ j + 1 \in 1 .. Len(s) /\ j + 1 # i
        BY <1>1, <2>2, <2>3, <3>3
      <4>. QED  BY <2>5, <4>1
    <3>. QED  BY <3>2, <3>3
  <2>7. Grabs(u) = {}
    BY <2>6 DEF Grabs
  <2>8. ASSUME Waits(u)
        PROVE  Waits(s)
    <3>1. PICK j \in 1 .. Len(s) - 1 : u[j] # GrabFocus
      BY <2>4, <2>8 DEF Waits, IsHotkey
    <3>2. u[j] = s[j] \/ u[j] = s[j + 1]
      BY <2>3
    <3>3. j \in DOMAIN s /\ j + 1 \in DOMAIN s
      BY <1>1
    <3>. QED  BY <3>1, <3>2, <3>3 DEF Waits, IsHotkey
  <2>9. ASSUME Waits(s)
        PROVE  Waits(u)
    <3>1. PICK j \in 1 .. Len(s) : s[j] # GrabFocus
      BY <1>1, <2>9 DEF Waits, IsHotkey
    <3>2. CASE j < i
      <4>1. j \in 1 .. Len(s) - 1
        BY <1>1, <2>2, <3>2
      <4>. QED  BY <2>3, <2>4, <3>1, <3>2, <4>1 DEF Waits, IsHotkey
    <3>3. CASE j > i
      <4>1. j - 1 \in 1 .. Len(s) - 1 /\ ~(j - 1 < i) /\ j - 1 + 1 = j
        BY <1>1, <2>2, <3>3
      <4>2. u[j - 1] = s[j]
        BY <2>3, <4>1
      <4>. QED  BY <2>4, <3>1, <4>1, <4>2 DEF Waits, IsHotkey
    <3>. QED  BY <1>1, <2>2, <3>1, <3>2, <3>3
  <2>10. s # <<>>
    BY <1>3, EmptySeq DEF Grabs
  <2>. QED  BY <2>3, <2>7, <2>8, <2>9, <2>10
<1>. QED  BY <1>2, <1>3

(* Another idle call, behind those that wait.                               *)
LEMMA AppendIdle ==
  ASSUME NEW s \in Idles, NEW h \in Hotkey \cup {GrabFocus}, NEW u, u = Append(s, h)
  PROVE  /\ u \in Idles /\ u # <<>>
         /\ Grabs(u) = Grabs(s) \cup (IF h = GrabFocus THEN {Len(s) + 1} ELSE {})
         /\ Waits(u) <=> Waits(s) \/ h # GrabFocus
<1>1. /\ u \in Idles /\ u # <<>> /\ Len(u) = Len(s) + 1 /\ Len(s) \in Nat
      /\ \A i \in 1 .. Len(s) : u[i] = s[i]
      /\ u[Len(s) + 1] = h
  BY AppendProperties, LenProperties DEF Idles
<1>2. DOMAIN u = 1 .. Len(s) + 1 /\ DOMAIN s = 1 .. Len(s)
  BY <1>1, LenProperties DEF Idles
<1>3. \A i \in DOMAIN u : i \in DOMAIN s \/ i = Len(s) + 1
  BY <1>1, <1>2
<1>4. Len(s) + 1 \in DOMAIN u /\ \A i \in DOMAIN s : i \in DOMAIN u
  BY <1>1, <1>2
<1>5. Grabs(u) = Grabs(s) \cup (IF h = GrabFocus THEN {Len(s) + 1} ELSE {})
  BY <1>1, <1>2, <1>3, <1>4 DEF Grabs
<1>6. Waits(u) <=> Waits(s) \/ h # GrabFocus
  BY <1>1, <1>2, <1>3, <1>4 DEF Waits, IsHotkey
<1>. QED  BY <1>1, <1>5, <1>6

(* A hotkey behind those that wait.                                         *)
LEMMA AppendHotkey ==
  ASSUME NEW s \in Idles, NEW h \in Hotkey
  PROVE  LET u == Append(s, h)
         IN  u \in Idles /\ u # <<>> /\ Grabs(u) = Grabs(s) /\ Waits(u)
<1> DEFINE u == Append(s, h)
<1>1. /\ u \in Idles /\ u # <<>>
      /\ Grabs(u) = Grabs(s) \cup (IF h = GrabFocus THEN {Len(s) + 1} ELSE {})
      /\ Waits(u) <=> Waits(s) \/ h # GrabFocus
  BY Zenon, AppendIdle
<1>2. h # GrabFocus
  BY GrabIsNoHotkey
<1>. HIDE DEF u
<1>. QED  BY <1>1, <1>2 DEF u

(* The grab of the focus behind hotkeys.                                    *)
LEMMA AppendGrab ==
  ASSUME NEW s \in Idles, Grabs(s) = {}
  PROVE  LET u == Append(s, GrabFocus)
         IN  /\ u \in Idles /\ u # <<>> /\ \A j, k \in Grabs(u) : j = k
             /\ Waits(u) <=> Waits(s)
<1> DEFINE u == Append(s, GrabFocus)
<1>1. /\ u \in Idles /\ u # <<>>
      /\ Grabs(u) = Grabs(s) \cup (IF GrabFocus = GrabFocus THEN {Len(s) + 1} ELSE {})
      /\ Waits(u) <=> Waits(s) \/ GrabFocus # GrabFocus
  BY Zenon, AppendIdle
<1>. HIDE DEF u
<1>2. Grabs(u) = {Len(s) + 1}
  BY <1>1
<1>. QED  BY <1>1, <1>2 DEF u

(* The rest of a round, behind the call at its head.                        *)
LEMMA TailOfIdles ==
  ASSUME NEW s \in Idles, s # <<>>, \A i, j \in Grabs(s) : i = j, NEW u, u = Tail(s)
  PROVE  /\ u \in Idles /\ Head(s) \in Hotkey \cup {GrabFocus}
         /\ \A i, j \in Grabs(u) : i = j
         /\ Grabs(u) # {} => Grabs(s) # {}
         /\ Head(s) = GrabFocus => Grabs(u) = {} /\ Grabs(s) # {}
         /\ Head(s) = GrabFocus => (Waits(u) <=> Waits(s))
<1>1. /\ u \in Idles /\ Len(u) = Len(s) - 1 /\ Len(s) \in Nat /\ Len(s) >= 1
      /\ \A i \in 1 .. Len(u) : u[i] = s[i + 1]
      /\ Head(s) = s[1] /\ Head(s) \in Hotkey \cup {GrabFocus}
  <2>1. s \in Seq(Hotkey \cup {GrabFocus})
    BY DEF Idles
  <2>2. Len(s) \in Nat \ {0}
    BY <2>1, EmptySeq
  <2>3. /\ u \in Seq(Hotkey \cup {GrabFocus}) /\ Len(u) = Len(s) - 1
        /\ \A i \in 1 .. Len(u) : u[i] = s[i + 1]
        /\ Head(s) \in Hotkey \cup {GrabFocus}
    BY <2>1, HeadTailProperties
  <2>4. Head(s) = s[1]
    BY <2>1
  <2>. QED  BY <2>2, <2>3, <2>4 DEF Idles
<1>2. DOMAIN u = 1 .. Len(s) - 1 /\ DOMAIN s = 1 .. Len(s)
  BY <1>1, LenProperties DEF Idles
<1>3. \A i \in DOMAIN u : i \in Nat /\ i + 1 \in DOMAIN s /\ i + 1 # 1 /\ u[i] = s[i + 1]
  BY <1>1, <1>2
<1>4. 1 \in DOMAIN s /\ \A i \in DOMAIN s : i = 1 \/ (i - 1 \in DOMAIN u /\ s[i] = u[i - 1])
  BY <1>1, <1>2
<1>5. \A i \in Grabs(u) : i \in Nat /\ i + 1 \in Grabs(s) /\ i + 1 # 1
  BY <1>3 DEF Grabs
<1>6. \A i, j \in Grabs(u) : i = j
  <2>1. SUFFICES ASSUME NEW i \in Grabs(u), NEW j \in Grabs(u) PROVE i = j
    OBVIOUS
  <2>2. i \in Nat /\ j \in Nat /\ i + 1 = j + 1
    BY <1>5
  <2>. QED  BY <2>2
<1>7. Head(s) = GrabFocus => 1 \in Grabs(s)
  BY <1>1, <1>4 DEF Grabs
<1>8. Head(s) = GrabFocus => Grabs(u) = {} /\ Grabs(s) # {}
  BY <1>5, <1>7
<1>9. Head(s) = GrabFocus => (Waits(u) <=> Waits(s))
  BY <1>1, <1>3, <1>4 DEF Waits, IsHotkey
<1>. QED  BY <1>1, <1>5, <1>6, <1>8, <1>9

-----------------------------------------------------------------------------
(* Showing and hiding                                                       *)

(* Settling after having been shown.                                        *)
LEMMA SettledFromShown ==
  ASSUME NEW z, NEW a, NEW b, Shown(z, a), Settled(a, b)
  PROVE  Settled(z, b)
  BY DEF Shown, Settled, Kept

(* Settling after an edit.                                                  *)
LEMMA SettledFromEdits ==
  ASSUME NEW z, NEW a, NEW b, Edits(z, a), Settled(a, b)
  PROVE  Settled(z, b)
  BY WindowFields DEF Edits, Settled, Kept

(* show_window, of a hidden window or of one without the focus.             *)
LEMMA ShowWindowShows ==
  ASSUME NEW a \in App, OneGrab(a), NEW b, b = ShowWindow(a)
  PROVE  /\ Shown(a, b)
         /\ b.tab = a.tab /\ b.mode = a.mode /\ b.vis = a.vis /\ b.text = a.text
         /\ b.target = a.target /\ b.origin = a.origin
<1>1. CASE a.visible
  <2>1. b = [a EXCEPT !.asked = @ \/ ~a.focused]
    BY <1>1 DEF ShowWindow
  <2>2. /\ b \in App
        /\ b.visible = a.visible /\ b.focused = a.focused /\ b.asked = (a.asked \/ ~a.focused)
        /\ b.regrab = a.regrab /\ b.pending = a.pending /\ b.idle = a.idle /\ b.round = a.round
        /\ b.tab = a.tab /\ b.mode = a.mode /\ b.vis = a.vis /\ b.text = a.text
        /\ b.target = a.target /\ b.origin = a.origin
    BY <2>1 DEF App
  <2>. QED  BY <1>1, <2>2 DEF Shown, OneGrab, Kept, Attended
<1>2. CASE ~a.visible
  <2> DEFINE i == Append(Ungrabbed(a.idle), GrabFocus)
             r == Ungrabbed(a.round)
  <2>1. b = [a EXCEPT !.visible = TRUE, !.regrab = FALSE, !.idle = i, !.round = r]
    BY <1>2 DEF ShowWindow
  <2>2. /\ a.idle \in Idles /\ \A j, k \in Grabs(a.idle) : j = k
        /\ a.round \in Idles /\ \A j, k \in Grabs(a.round) : j = k
    BY DEF App, OneGrab
  <2>3. r \in Idles /\ Grabs(r) = {} /\ (a.round = <<>> => r = <<>>)
    BY <2>2, UngrabbedIsIdles
  <2>4. /\ Ungrabbed(a.idle) \in Idles /\ Grabs(Ungrabbed(a.idle)) = {}
        /\ Waits(Ungrabbed(a.idle)) <=> Waits(a.idle)
    BY <2>2, UngrabbedIsIdles
  <2>5. /\ i \in Idles /\ i # <<>> /\ \A j, k \in Grabs(i) : j = k
        /\ Waits(i) <=> Waits(a.idle)
    BY Zenon, <2>4, AppendGrab
  <2>. HIDE DEF i, r
  <2>6. /\ b \in App
        /\ b.visible = TRUE /\ b.regrab = FALSE /\ b.idle = i /\ b.round = r
        /\ b.pending = a.pending
        /\ b.tab = a.tab /\ b.mode = a.mode /\ b.vis = a.vis /\ b.text = a.text
        /\ b.target = a.target /\ b.origin = a.origin
    <3>1. b \in App
      BY <2>1, <2>3, <2>5 DEF App
    <3>2. b.visible = TRUE /\ b.regrab = FALSE /\ b.idle = i /\ b.round = r
      BY <2>1 DEF App
    <3>3. /\ b.pending = a.pending
          /\ b.tab = a.tab /\ b.mode = a.mode /\ b.vis = a.vis /\ b.text = a.text
          /\ b.target = a.target /\ b.origin = a.origin
      BY <2>1 DEF App
    <3>. QED  BY <3>1, <3>2, <3>3
  <2>7. OneGrab(b)
    BY <2>3, <2>5, <2>6 DEF OneGrab
  <2>. QED  BY <2>3, <2>5, <2>6, <2>7 DEF Shown, Kept, Attended
<1>. QED  BY <1>1, <1>2

(* hide_window resets all that HiddenIsReset and ModesFit are about.        *)
LEMMA HideWindowSettles ==
  ASSUME NEW a \in App, Fits(a), Reset(a), OneGrab(a), NEW b, b = HideWindow(a)
  PROVE  Settled(a, b) /\ ~b.visible
<1>1. CASE ~a.visible
  <2>1. b = a
    BY <1>1 DEF HideWindow
  <2>. QED  BY <1>1, <2>1 DEF Settled, Kept, Attended
<1>2. CASE a.visible
  <2> DEFINE c == SetText(a, <<>>)
             d == [c EXCEPT !.tick = "none"]
             e == ExitModes(d)
             v == ClearSurfaced(e.vis)
             i == Ungrabbed(e.idle)
             r == Ungrabbed(e.round)
  <2>1. b = [e EXCEPT !.vis = v, !.tab = "windows",
                      !.overlay = FALSE, !.loss = FALSE, !.regrab = FALSE, !.asked = FALSE,
                      !.idle = i, !.round = r, !.visible = FALSE]
    BY <1>2 DEF HideWindow
  <2>2. Edits(a, c) /\ Fits(c) /\ c.text = <<>>
    BY TextFacts, SetTextFits
  <2>. HIDE DEF c
  <2>3. /\ Edits(c, d) /\ d.tab = c.tab /\ d.mode = c.mode /\ d.vis = c.vis
        /\ d.target = c.target /\ d.text = <<>>
    BY <2>2 DEF Edits, App, Window
  <2>. HIDE DEF d
  <2>4. d \in App /\ Fits(d)
    BY <2>2, <2>3 DEF Edits, Fits
  <2>5. Edits(d, e) /\ Fits(e) /\ e.mode = "normal" /\ ~e.target /\ e.text = <<>>
    BY <2>3, <2>4, ExitModesFits
  <2>. HIDE DEF e
  <2>6. Edits(a, e)
    BY <2>2, <2>3, <2>5 DEF Edits
  <2>7. e \in App /\ e.idle = a.idle /\ e.round = a.round /\ e.pending = a.pending
    BY <2>6 DEF Edits, Window
  <2>8. /\ a.idle \in Idles /\ \A j, k \in Grabs(a.idle) : j = k
        /\ a.round \in Idles /\ \A j, k \in Grabs(a.round) : j = k
    BY DEF App, OneGrab
  <2>9. /\ i \in Idles /\ Grabs(i) = {} /\ (Waits(i) <=> Waits(a.idle))
    BY <2>7, <2>8, UngrabbedIsIdles
  <2>10. r \in Idles /\ Grabs(r) = {} /\ (a.round = <<>> => r = <<>>)
    BY <2>7, <2>8, UngrabbedIsIdles
  <2>11. /\ v \in [Tab -> Vis] /\ \A t \in Tab : v[t] # "surfaced"
         /\ v["run"] # "pinned" /\ v["windows"] = "pinned"
    BY <2>5, <2>7 DEF ClearSurfaced, App, Vis, Fits, Tab
  <2>. HIDE DEF v, i, r
  <2>12. /\ b \in App
         /\ b.visible = FALSE /\ b.tab = "windows" /\ b.overlay = FALSE /\ b.regrab = FALSE
         /\ b.vis = v /\ b.idle = i /\ b.round = r /\ b.pending = e.pending
         /\ b.mode = e.mode /\ b.text = e.text /\ b.target = e.target
    <3>1. "windows" \in Tab /\ e \in App
      BY <2>7 DEF Tab
    <3>2. b \in App
      <4> DEFINE g == [e EXCEPT !.vis = v, !.tab = "windows", !.overlay = FALSE, !.loss = FALSE]
      <4>1. g \in App
        BY <2>11, <3>1 DEF App
      <4> DEFINE h == [g EXCEPT !.regrab = FALSE, !.asked = FALSE]
      <4>2. b = [h EXCEPT !.idle = i, !.round = r, !.visible = FALSE]
        BY <2>1
      <4>. HIDE DEF g
      <4>3. h \in App
        BY <4>1 DEF App
      <4>. HIDE DEF h
      <4>. QED  BY <2>9, <2>10, <4>2, <4>3 DEF App
    <3>3. /\ b.visible = FALSE /\ b.tab = "windows" /\ b.overlay = FALSE /\ b.regrab = FALSE
          /\ b.vis = v /\ b.idle = i /\ b.round = r
      BY <2>1, <3>1 DEF App
    <3>4. b.pending = e.pending /\ b.mode = e.mode /\ b.text = e.text /\ b.target = e.target
      BY <2>1, <3>1 DEF App
    <3>. QED  BY <3>2, <3>3, <3>4
  <2>13. Fits(b) /\ Reset(b)
    BY <2>5, <2>11, <2>12 DEF Fits, Reset
  <2>14. OneGrab(b)
    BY <2>9, <2>10, <2>12 DEF OneGrab
  <2>15. Kept(a, b)
    BY <2>7, <2>9, <2>10, <2>12 DEF Kept
  <2>. QED  BY <2>12, <2>13, <2>14, <2>15 DEF Settled, Attended
<1>. QED  BY <1>1, <1>2

(* :show, which an open window runs.                                        *)
LEMMA DispatchModeShows ==
  ASSUME NEW z, NEW a, Shown(z, a), Fits(a), NEW m \in {"windows", "command", "showrun"},
         NEW b, b = DispatchMode(a, m)
  PROVE  Shown(z, b) /\ Fits(b)
<1> DEFINE c == [a EXCEPT !.loss = FALSE]
           d == ExitModes(c)
           e == [d EXCEPT !.tab = "windows"]
           f == [d EXCEPT !.tab = "windows", !.target = TRUE]
<1>1. a \in App /\ a.visible
  BY DEF Shown
<1>2. /\ m = "windows" => b = IF d.tab = "windows" THEN d ELSE SetText(e, <<>>)
      /\ m = "command" => b = EnterCommandMode(f)
      /\ m = "showrun" => b = EnterModal(e, "run")
  BY <1>1 DEF DispatchMode
<1>3. c \in App /\ Shown(z, c) /\ Fits(c)
  <2>1. /\ c \in App /\ c.visible = a.visible /\ c.focused = a.focused
        /\ c.regrab = a.regrab /\ c.asked = a.asked /\ c.pending = a.pending
        /\ c.idle = a.idle /\ c.round = a.round
        /\ c.tab = a.tab /\ c.mode = a.mode /\ c.vis = a.vis /\ c.target = a.target
    BY <1>1 DEF App
  <2>. HIDE DEF c
  <2>. QED  BY <2>1 DEF Shown, Fits, OneGrab, Kept, Attended
<1>. HIDE DEF c
<1>4. Edits(c, d) /\ Fits(d) /\ d.mode = "normal" /\ ~d.target
  BY <1>3, ExitModesFits
<1>. HIDE DEF d
<1>5. d \in App /\ Shown(z, d)
  BY <1>3, <1>4, ShownEdited DEF Edits
<1>6. CASE m = "windows"
  <2>1. Edits(d, e) /\ e.mode = d.mode /\ e.vis = d.vis /\ e.target = d.target
    BY <1>5 DEF Edits, App, Window, Tab
  <2>. HIDE DEF e
  <2>2. e \in App /\ Fits(e) /\ Shown(z, e) /\ <<>> \in Text
    BY <1>4, <1>5, <2>1, ShownEdited, TextFacts DEF Edits, Fits
  <2>3. CASE b = SetText(e, <<>>)
    <3>1. Edits(e, b) /\ Fits(b)
      BY <2>2, <2>3, SetTextFits
    <3>. QED  BY <2>2, <3>1, ShownEdited
  <2>. QED  BY <1>2, <1>4, <1>5, <1>6, <2>3
<1>7. CASE m = "command"
  <2>1. Edits(d, f) /\ f.vis = d.vis
    BY <1>5 DEF Edits, App, Window, Tab
  <2>. HIDE DEF f
  <2>2. f \in App /\ f.vis["run"] # "pinned" /\ f.vis["windows"] = "pinned"
    BY <1>4, <2>1 DEF Edits, Fits
  <2>3. Edits(f, b) /\ Fits(b)
    BY <1>2, <1>7, <2>2, EnterCommandModeFits
  <2>. QED  BY <1>5, <2>1, <2>3, ShownEdited
<1>8. CASE m = "showrun"
  <2>1. Edits(d, e) /\ e.vis = d.vis /\ e.target = d.target
    BY <1>5 DEF Edits, App, Window, Tab
  <2>. HIDE DEF e
  <2>2. e \in App /\ ~e.target /\ e.vis["run"] # "pinned" /\ e.vis["windows"] = "pinned"
    BY <1>4, <2>1 DEF Edits, Fits
  <2>3. Edits(e, b) /\ Fits(b)
    BY <1>2, <1>8, <2>2, EnterModalFits
  <2>. QED  BY <1>5, <2>1, <2>3, ShownEdited
<1>. QED  BY <1>6, <1>7, <1>8

(* A command that an open window runs leaves it open and its modes fitting. *)
LEMMA ExecuteShows ==
  ASSUME NEW z, NEW a, Shown(z, a), Fits(a), NEW c \in Command, NEW b, b = Execute(a, c)
  PROVE  Shown(z, b) /\ Fits(b)
<1> DEFINE d == ExitCommandMode(a)
           e == [d EXCEPT !.origin = d.tab]
           f == [d EXCEPT !.origin = d.tab, !.claim = Bang]
<1>1. a \in App /\ a.visible /\ OneGrab(a)
  BY DEF Shown
<1>2. Edits(a, d) /\ Fits(d) /\ ~d.target /\ d.mode = "normal"
  BY <1>1, ExitCommandModeFits
<1>3. /\ c \in {"act", "kill", "help"} => b = a
      /\ c = "tile" => b = ShowOverlay(a)
      /\ c = "launch" => b = d
      /\ c = "list" => b = SurfaceTab(e, "list")
      /\ c = "run" => b = EnterModal(f, "run")
      /\ c \in {"windows", "command", "showrun"} => b = DispatchMode(d, c)
  BY DEF Execute
<1>. HIDE DEF d
<1>4. d \in App /\ Shown(z, d)
  BY <1>2, ShownEdited DEF Edits
<1>5. CASE c \in {"act", "kill", "help"}
  BY <1>3, <1>5
<1>6. CASE c = "tile"
  <2> DEFINE g == ShowWindow(a)
  <2>1. b = [g EXCEPT !.overlay = TRUE]
    BY <1>3, <1>6 DEF ShowOverlay
  <2>2. /\ Shown(a, g) /\ g.tab = a.tab /\ g.mode = a.mode /\ g.vis = a.vis
        /\ g.target = a.target
    BY <1>1, ShowWindowShows
  <2>. HIDE DEF g
  <2>3. /\ b \in App /\ b.visible = g.visible /\ b.focused = g.focused
        /\ b.regrab = g.regrab /\ b.asked = g.asked /\ b.pending = g.pending
        /\ b.idle = g.idle /\ b.round = g.round
        /\ b.tab = g.tab /\ b.mode = g.mode /\ b.vis = g.vis /\ b.target = g.target
    <3>1. g \in App
      BY <2>2 DEF Shown
    <3>2. b \in App
      BY <2>1, <3>1 DEF App
    <3>3. /\ b.visible = g.visible /\ b.focused = g.focused
          /\ b.regrab = g.regrab /\ b.asked = g.asked /\ b.pending = g.pending
          /\ b.idle = g.idle /\ b.round = g.round
      BY <2>1, <3>1 DEF App
    <3>4. b.tab = g.tab /\ b.mode = g.mode /\ b.vis = g.vis /\ b.target = g.target
      BY <2>1, <3>1 DEF App
    <3>. QED  BY <3>2, <3>3, <3>4
  <2>4. Fits(b)
    BY <2>2, <2>3 DEF Fits
  <2>. QED  BY <2>2, <2>3, <2>4 DEF Shown, OneGrab, Kept, Attended
<1>7. CASE c = "launch"
  BY <1>2, <1>3, <1>4, <1>7
<1>8. CASE c = "list"
  <2>1. Edits(d, e) /\ e.tab = d.tab /\ e.mode = d.mode /\ e.vis = d.vis /\ e.target = d.target
    BY <1>4 DEF Edits, App, Window
  <2>. HIDE DEF e
  <2>2. e \in App /\ Fits(e) /\ e.mode # "modal" /\ "list" \in Tab
    BY <1>2, <2>1 DEF Edits, Fits, Tab
  <2>3. Edits(e, b) /\ Fits(b)
    BY <1>3, <1>8, <2>2, SurfaceTabFits
  <2>. QED  BY <1>4, <2>1, <2>3, ShownEdited
<1>9. CASE c = "run"
  <2>1. Edits(d, f) /\ f.vis = d.vis /\ f.target = d.target
    BY <1>4 DEF Edits, App, Window, Claims
  <2>. HIDE DEF f
  <2>2. f \in App /\ ~f.target /\ f.vis["run"] # "pinned" /\ f.vis["windows"] = "pinned"
    BY <1>2, <2>1 DEF Edits, Fits
  <2>3. Edits(f, b) /\ Fits(b)
    BY <1>3, <1>9, <2>2, EnterModalFits
  <2>. QED  BY <1>4, <2>1, <2>3, ShownEdited
<1>10. CASE c \in {"windows", "command", "showrun"}
  BY <1>2, <1>3, <1>4, <1>10, DispatchModeShows
<1>. QED  BY <1>5, <1>6, <1>7, <1>8, <1>9, <1>10 DEF Command

-----------------------------------------------------------------------------
(* Keys                                                                     *)

(* The order of the tabs, as cycling reads it.                              *)
LEMMA TabOrderFacts ==
  /\ Len(TabOrder) = 4 /\ DOMAIN TabOrder = 1 .. 4 /\ TabOrder[1] = "windows"
  /\ \A i \in 1 .. 4 : TabOrder[i] \in Tab
  /\ \A t \in Tab : TabIndex(t) \in 1 .. 4
<1>1. Len(TabOrder) = 4 /\ DOMAIN TabOrder = 1 .. 4
  BY DEF TabOrder
<1>2. TabOrder[1] = "windows" /\ TabOrder[2] = "path" /\ TabOrder[3] = "list" /\ TabOrder[4] = "run"
  BY DEF TabOrder
<1>3. \A i \in 1 .. 4 : i = 1 \/ i = 2 \/ i = 3 \/ i = 4
  OBVIOUS
<1>4. \A i \in 1 .. 4 : TabOrder[i] \in Tab
  BY <1>2, <1>3 DEF Tab
<1>5. \A t \in Tab : \E i \in 1 .. 4 : TabOrder[i] = t
  BY <1>2 DEF Tab
<1>6. \A t \in Tab : TabIndex(t) \in 1 .. 4
  BY <1>1, <1>5 DEF TabIndex
<1>. QED  BY <1>1, <1>2, <1>4, <1>6

(* The search for the nearest tab ends at one.                              *)
LEMMA LeastOfFour ==
  ASSUME NEW S, S \subseteq 1 .. 4, S # {}
  PROVE  \E i \in S : \A j \in S : i <= j
<1>1. \A j \in S : j = 1 \/ j = 2 \/ j = 3 \/ j = 4
  OBVIOUS
<1>2. CASE 1 \in S
  <2>1. \A j \in S : 1 <= j
    BY <1>1
  <2>. QED  BY <1>2, <2>1
<1>3. CASE 1 \notin S /\ 2 \in S
  <2>1. \A j \in S : 2 <= j
    BY <1>1, <1>3
  <2>. QED  BY <1>3, <2>1
<1>4. CASE 1 \notin S /\ 2 \notin S /\ 3 \in S
  <2>1. \A j \in S : 3 <= j
    BY <1>1, <1>4
  <2>. QED  BY <1>4, <2>1
<1>5. CASE 1 \notin S /\ 2 \notin S /\ 3 \notin S
  <2>1. \A j \in S : j = 4
    BY <1>1, <1>5
  <2>2. PICK i \in S : i = 4
    BY <2>1
  <2>3. \A j \in S : i <= j
    BY <2>1, <2>2
  <2>. QED  BY <2>3
<1>. QED  BY <1>2, <1>3, <1>4, <1>5

(* The windows tab is always in reach, so the search ends at a tab.         *)
LEMMA NextTabIsTab ==
  ASSUME NEW a \in App, a.vis["windows"] = "pinned", NEW forward \in BOOLEAN
  PROVE  NextTab(a, forward) \in Tab
<1> DEFINE n == Len(TabOrder)
           k == TabIndex(a.tab)
           At(i) == TabOrder[((k - 1 + (IF forward THEN i ELSE n - i)) % n) + 1]
           steps == {i \in 1 .. n : Reachable(a, At(i))}
           best == CHOOSE i \in steps : \A j \in steps : i <= j
<1>1. n = 4 /\ k \in 1 .. 4
  BY TabOrderFacts DEF App
<1>2. NextTab(a, forward) = At(best)
  BY DEF NextTab
<1>3. PICK i \in 1 .. 4 : ((k - 1 + (IF forward THEN i ELSE 4 - i)) % 4) + 1 = 1
  <2>1. k = 1 \/ k = 2 \/ k = 3 \/ k = 4
    BY <1>1
  <2>. HIDE DEF k
  <2>2. CASE forward
    <3>1. 5 - k \in 1 .. 4 /\ ((k - 1 + (5 - k)) % 4) + 1 = 1
      BY <2>1
    <3>. QED  BY <2>2, <3>1
  <2>3. CASE ~forward
    <3>1. CASE k = 1
      BY <2>3, <3>1
    <3>2. CASE k # 1
      <4>1. k - 1 \in 1 .. 4 /\ ((k - 1 + (4 - (k - 1))) % 4) + 1 = 1
        BY <2>1, <3>2
      <4>. QED  BY <2>3, <4>1
    <3>. QED  BY <3>1, <3>2
  <2>. QED  BY <2>2, <2>3
<1>4. At(i) = "windows"
  BY <1>1, <1>3, TabOrderFacts
<1>5. i \in steps
  BY <1>1, <1>4 DEF Reachable
<1>6. steps \subseteq 1 .. 4
  BY <1>1
<1>7. best \in 1 .. 4
  <2>. HIDE DEF steps
  <2>1. \E l \in steps : \A j \in steps : l <= j
    BY <1>5, <1>6, LeastOfFour
  <2>. QED  BY <1>6, <2>1
<1>8. At(best) \in Tab
  <2>. HIDE DEF best
  <2>1. (k - 1 + (IF forward THEN best ELSE 4 - best)) \in Int
    BY <1>1, <1>7
  <2>2. ((k - 1 + (IF forward THEN best ELSE 4 - best)) % 4) + 1 \in 1 .. 4
    BY <2>1
  <2>. QED  BY <1>1, <2>2, TabOrderFacts
<1>. QED  BY <1>2, <1>8

(* Tab and Shift-Tab, in each mode.                                         *)
LEMMA PressTabFits ==
  ASSUME NEW a \in App, Fits(a), NEW forward \in BOOLEAN, NEW b, b = PressTab(a, forward)
  PROVE  Edits(a, b) /\ Fits(b)
<1> DEFINE c == IF a.mode = "modal" THEN ExitModal(a) ELSE a
           d == [c EXCEPT !.claim = NoClaim]
           t == NextTab(d, forward)
           e == [d EXCEPT !.vis = ClearSurfaced(@)]
<1>1. b = SwitchTab(IF d.vis[d.tab] = "surfaced" /\ d.vis[t] = "pinned" THEN e ELSE d, t)
  <2>1. d = [IF a.mode = "modal" THEN ExitModal(a) ELSE a EXCEPT !.claim = NoClaim]
    OBVIOUS
  <2>. QED  BY <2>1 DEF PressTab
<1>2. Edits(a, c) /\ Fits(c) /\ c.mode # "modal"
  <2>1. CASE a.mode = "modal"
    BY <2>1, ExitModalFits
  <2>2. CASE a.mode # "modal"
    BY <2>2 DEF Edits
  <2>. QED  BY <2>1, <2>2
<1>. HIDE DEF c
<1>3. /\ Edits(c, d) /\ d.tab = c.tab /\ d.mode = c.mode /\ d.vis = c.vis
      /\ d.target = c.target
  BY <1>2 DEF Edits, App, Window, Claims
<1>. HIDE DEF d
<1>4. d \in App /\ Fits(d) /\ d.mode # "modal"
  BY <1>2, <1>3 DEF Edits, Fits
<1>5. t \in Tab
  BY <1>4, NextTabIsTab DEF Fits
<1>. HIDE DEF t
<1>6. Edits(d, e) /\ Fits(e) /\ e.mode # "modal"
  <2> DEFINE v == ClearSurfaced(d.vis)
  <2>1. v \in [Tab -> Vis] /\ v["run"] # "pinned" /\ v["windows"] = "pinned"
    BY <1>4 DEF ClearSurfaced, App, Vis, Fits, Tab
  <2>2. e = [d EXCEPT !.vis = v]
    OBVIOUS
  <2>. HIDE DEF v, e
  <2>3. Edits(d, e) /\ e.tab = d.tab /\ e.mode = d.mode /\ e.vis = v /\ e.target = d.target
    BY <1>4, <2>1, <2>2 DEF Edits, App, Window
  <2>. QED  BY <1>4, <2>1, <2>3 DEF Fits
<1>. HIDE DEF e
<1>7. CASE b = SwitchTab(e, t)
  <2>1. Edits(e, b) /\ Fits(b)
    BY <1>5, <1>6, <1>7, SwitchTabFits DEF Edits
  <2>. QED  BY <1>2, <1>3, <1>6, <2>1 DEF Edits
<1>8. CASE b = SwitchTab(d, t)
  <2>1. Edits(d, b) /\ Fits(b)
    BY <1>4, <1>5, <1>8, SwitchTabFits
  <2>. QED  BY <1>2, <1>3, <2>1 DEF Edits
<1>. QED  BY <1>1, <1>7, <1>8

(* A key, which may be a prefix, the end of a mode or text.                 *)
LEMMA TypeKeyFits ==
  ASSUME NEW a \in App, Fits(a), NEW u \in Keys, Len(a.text) < MaxText,
         NEW b, b = TypeKey(a, u)
  PROVE  Edits(a, b) /\ Fits(b)
<1> DEFINE c == Narrow(u)
           dispatched == /\ a.text = <<>> \/ (u = Colon /\ a.mode = "normal")
                         /\ IsPrefixChar(c)
                         /\ a.claim # c
           d == ExitModes(a)
           e == ExitCommandMode(a)
           f == [e EXCEPT !.origin = e.tab, !.claim = Bang]
           t == IF a.text = <<>> THEN <<u>> ELSE Append(a.text, Later)
<1>1. /\ dispatched => b = DispatchPrefix(d, c)
      /\ ~dispatched => b \in {a, EnterModal(f, "run"), SetText(a, t)}
  BY DEF TypeKey, InsertKey
<1>2. CASE dispatched
  <2>1. b = DispatchPrefix(d, c) /\ IsPrefixChar(c)
    BY <1>1, <1>2
  <2>. HIDE DEF c, d
  <2>2. Edits(a, d) /\ Fits(d) /\ d.mode = "normal"
    BY ExitModesFits DEF d
  <2>3. Edits(d, b) /\ Fits(b)
    BY <2>1, <2>2, DispatchPrefixFits DEF Edits
  <2>. QED  BY <2>2, <2>3 DEF Edits
<1>3. CASE b = a
  BY <1>3 DEF Edits
<1>4. CASE b = EnterModal(f, "run")
  <2>1. Edits(a, e) /\ Fits(e) /\ ~e.target
    BY ExitCommandModeFits
  <2>. HIDE DEF e
  <2>2. Edits(e, f) /\ f.vis = e.vis /\ f.target = e.target
    BY <2>1 DEF Edits, App, Window, Claims
  <2>. HIDE DEF f
  <2>3. f \in App /\ ~f.target /\ f.vis["run"] # "pinned" /\ f.vis["windows"] = "pinned"
    BY <2>1, <2>2 DEF Edits, Fits
  <2>4. Edits(f, b) /\ Fits(b)
    BY <1>4, <2>3, EnterModalFits
  <2>. QED  BY <2>1, <2>2, <2>4 DEF Edits
<1>5. CASE b = SetText(a, t)
  <2>1. u \in Nat /\ Later \in Nat /\ a.text \in Text
    BY LifecycleConstants DEF App
  <2>2. t \in Text
    BY <2>1, TextFacts
  <2>. HIDE DEF t
  <2>. QED  BY <1>5, <2>2, SetTextFits
<1>. QED  BY <1>1, <1>2, <1>3, <1>4, <1>5

(* What GTK leaves behind a colon that was deleted or pasted in.            *)
LEMMA ReplacedFits ==
  ASSUME NEW t \in Text, t # <<>>, NEW kept \in BOOLEAN,
         app \in App, Fits(app), NEW b, b = Replaced(t, kept)
  PROVE  Edits(app, b) /\ Fits(b)
<1> DEFINE c == SetText(app, t)
<1>1. Edits(app, c) /\ Fits(c)
  BY SetTextFits
<1>2. b = c \/ b = [c EXCEPT !.text = Tail(t)]
  BY DEF Replaced
<1>. HIDE DEF c
<1>3. CASE b = [c EXCEPT !.text = Tail(t)]
  <2>1. Tail(t) \in Text
    BY TextFacts
  <2>2. Edits(c, b) /\ b.tab = c.tab /\ b.mode = c.mode /\ b.vis = c.vis /\ b.target = c.target
    BY <1>1, <1>3, <2>1 DEF Edits, App, Window
  <2>. QED  BY <1>1, <2>2 DEF Edits, Fits
<1>. QED  BY <1>1, <1>2, <1>3

-----------------------------------------------------------------------------
(* Handlers that may end with the window hidden                             *)

(* An open window that nothing happened to.                                 *)
LEMMA ShownSelf ==
  ASSUME NEW a \in App, a.visible, OneGrab(a), Attended(a)
  PROVE  Shown(a, a)
  BY DEF Shown, Kept

(* Escape, in each mode.                                                    *)
LEMMA EscapeFits ==
  ASSUME NEW a \in App, Fits(a), a.visible, Reset(a), OneGrab(a), NEW b, b = Escape(a)
  PROVE  (Edits(a, b) /\ Fits(b)) \/ Settled(a, b)
<1>1. CASE a.mode = "command"
  <2>1. b = ExitCommandMode(a)
    BY <1>1 DEF Escape
  <2>. QED  BY <2>1, ExitCommandModeFits
<1>2. CASE a.mode = "modal" /\ a.text # <<>>
  <2>1. b = [a EXCEPT !.text = <<>>]
    BY <1>2 DEF Escape
  <2>2. Edits(a, b) /\ b.tab = a.tab /\ b.mode = a.mode /\ b.vis = a.vis /\ b.target = a.target
    BY <2>1, TextFacts DEF Edits, App, Window
  <2>. QED  BY <2>2 DEF Fits
<1>3. CASE a.mode = "modal" /\ a.text = <<>>
  <2>1. b = ExitModal(a)
    BY <1>3 DEF Escape
  <2>. QED  BY <2>1, ExitModalFits
<1>4. CASE a.mode \notin {"command", "modal"}
  <2>1. b = HideWindow(a)
    BY <1>4 DEF Escape
  <2>. QED  BY <2>1, HideWindowSettles
<1>. QED  BY <1>1, <1>2, <1>3, <1>4

(* Enter, where the window is focused and so needs no one to see to it.     *)
LEMMA EnterOnCommandSettles ==
  ASSUME NEW a \in App, Fits(a), a.visible, a.focused, OneGrab(a), NEW c \in Command,
         NEW b, b = EnterOnCommand(a, c)
  PROVE  Settled(a, b)
<1> DEFINE d == Execute(a, c)
           e == ExitCommandMode(d)
<1>1. Shown(a, a)
  BY ShownSelf DEF Attended
<1>2. Shown(a, d) /\ Fits(d)
  BY <1>1, ExecuteShows
<1>3. b \in {ExitCommandMode(a), SetText(d, <<>>), HideWindow(e), e}
  BY DEF EnterOnCommand
<1>. HIDE DEF d
<1>4. Shown(a, e) /\ Fits(e)
  <2>1. d \in App
    BY <1>2 DEF Shown
  <2>2. Edits(d, e) /\ Fits(e)
    BY <1>2, <2>1, ExitCommandModeFits
  <2>. QED  BY <1>2, <2>2, ShownEdited
<1>. HIDE DEF e
<1>5. CASE b = ExitCommandMode(a)
  <2>1. Edits(a, b) /\ Fits(b)
    BY <1>5, ExitCommandModeFits
  <2>. QED  BY <1>1, <2>1, ShownEdited, ShownSettles
<1>6. CASE b = SetText(d, <<>>)
  <2>1. d \in App /\ <<>> \in Text
    BY <1>2, TextFacts DEF Shown
  <2>2. Edits(d, b) /\ Fits(b)
    BY <1>2, <1>6, <2>1, SetTextFits
  <2>. QED  BY <1>2, <2>2, ShownEdited, ShownSettles
<1>7. CASE b = HideWindow(e)
  <2>1. e \in App /\ Reset(e) /\ OneGrab(e)
    BY <1>4 DEF Shown, Reset
  <2>2. Settled(e, b)
    BY <1>4, <1>7, <2>1, HideWindowSettles
  <2>. QED  BY <1>4, <2>2, SettledFromShown
<1>8. CASE b = e
  BY <1>4, <1>8, ShownSettles
<1>. QED  BY <1>3, <1>5, <1>6, <1>7, <1>8

(* A hotkey, whose dispatch clears the flag of the pending ones first.      *)
LEMMA DispatchHotkeySettles ==
  ASSUME NEW a \in App, Fits(a), Reset(a), OneGrab(a), NEW h \in Hotkey,
         NEW b, b = DispatchHotkey(a, h)
  PROVE  Settled([a EXCEPT !.pending = FALSE], b)
<1> DEFINE z == [a EXCEPT !.pending = FALSE]
           s == ShowWindow(z)
           c == Execute(IF KeepsOpen(h.cmd) THEN s ELSE z, h.cmd)
<1>1. z \in App /\ Fits(z) /\ Reset(z) /\ OneGrab(z)
  <2>1. /\ z \in App /\ z.visible = a.visible /\ z.tab = a.tab /\ z.mode = a.mode
        /\ z.vis = a.vis /\ z.text = a.text /\ z.overlay = a.overlay /\ z.target = a.target
        /\ z.regrab = a.regrab /\ z.idle = a.idle /\ z.round = a.round
    BY DEF App
  <2>. HIDE DEF z
  <2>. QED  BY <2>1 DEF Fits, Reset, OneGrab
<1>2. h.cmd \in Command
  BY LifecycleConstants DEF Hotkey, Command
<1>3. b \in {PrefillCommandMode(z), HideWindow(c), c}
      /\ (h.auto /\ ~KeepsOpen(h.cmd) => b = HideWindow(c))
  <2>1. b = IF ~h.auto THEN PrefillCommandMode(z)
            ELSE IF ClosesAfter(h.cmd) \/ ~KeepsOpen(h.cmd) THEN HideWindow(c) ELSE c
    BY DEF DispatchHotkey
  <2>. HIDE DEF c
  <2>. QED  BY <2>1
<1>4. b = PrefillCommandMode(z) \/ h.auto
  <2>1. b = IF ~h.auto THEN PrefillCommandMode(z)
            ELSE IF ClosesAfter(h.cmd) \/ ~KeepsOpen(h.cmd) THEN HideWindow(c) ELSE c
    BY DEF DispatchHotkey
  <2>. HIDE DEF c
  <2>. QED  BY <2>1
<1>. HIDE DEF z
<1>5. Shown(z, s) /\ (Fits(z) => Fits(s))
  <2>1. /\ Shown(z, s) /\ s.tab = z.tab /\ s.mode = z.mode /\ s.vis = z.vis
        /\ s.target = z.target
    BY <1>1, ShowWindowShows
  <2>. QED  BY <2>1 DEF Fits
<1>6. CASE b = PrefillCommandMode(z)
  <2> DEFINE d == [z EXCEPT !.target = TRUE]
             e == ShowWindow(d)
             f == IF e.mode = "command" THEN e ELSE EnterCommandMode(e)
  <2>1. b = [f EXCEPT !.text = <<Later>>]
    BY <1>6 DEF PrefillCommandMode
  <2>2. Edits(z, d) /\ d.vis = z.vis
    BY <1>1 DEF Edits, App, Window
  <2>. HIDE DEF d
  <2>3. d \in App /\ OneGrab(d)
    BY <1>1, <2>2 DEF Edits, Window, OneGrab
  <2>4. Shown(d, e) /\ e.vis = d.vis
    BY <2>3, ShowWindowShows
  <2>. HIDE DEF e
  <2>5. e \in App /\ e.vis["run"] # "pinned" /\ e.vis["windows"] = "pinned"
    BY <1>1, <2>2, <2>4 DEF Shown, Fits
  <2>6. Edits(e, f) /\ Fits(f) /\ f.mode = "command"
    <3>1. CASE e.mode = "command"
      <4>1. f = e
        BY <3>1
      <4>. QED  BY <2>5, <3>1, <4>1 DEF Edits, Fits
    <3>2. CASE e.mode # "command"
      <4>1. f = EnterCommandMode(e)
        BY <3>2
      <4>. QED  BY <2>5, <4>1, EnterCommandModeFits
    <3>. QED  BY <3>1, <3>2
  <2>. HIDE DEF f
  <2>7. <<Later>> \in Text
    BY LifecycleConstants, TextFacts
  <2>8. Edits(f, b) /\ b.tab = f.tab /\ b.mode = f.mode /\ b.vis = f.vis /\ b.target = f.target
    BY <2>1, <2>6, <2>7 DEF Edits, App, Window
  <2>9. Fits(b)
    BY <2>6, <2>8 DEF Fits
  <2>10. Shown(z, b)
    BY <2>2, <2>4, <2>6, <2>8, EditedShown, ShownEdited
  <2>. QED  BY <2>9, <2>10, ShownSettles DEF z
<1>7. CASE h.auto /\ KeepsOpen(h.cmd)
  <2>1. c = Execute(s, h.cmd)
    BY <1>7
  <2>. HIDE DEF s, c
  <2>2. Shown(z, c) /\ Fits(c)
    BY <1>1, <1>2, <1>5, <2>1, ExecuteShows
  <2>3. CASE b = HideWindow(c)
    <3>1. c \in App /\ Reset(c) /\ OneGrab(c)
      BY <2>2 DEF Shown, Reset
    <3>2. Settled(c, b)
      BY <2>2, <2>3, <3>1, HideWindowSettles
    <3>. QED  BY <2>2, <3>2, SettledFromShown DEF z
  <2>4. CASE b = c
    BY <2>2, <2>4, ShownSettles DEF z
  <2>. QED  BY <1>3, <1>6, <2>3, <2>4
<1>8. CASE h.auto /\ ~KeepsOpen(h.cmd)
  <2>1. c = z
    BY <1>8 DEF KeepsOpen, Execute
  <2>2. b = HideWindow(z)
    BY <1>3, <1>8, <2>1
  <2>. QED  BY <1>1, <2>2, HideWindowSettles DEF z
<1>. QED  BY <1>4, <1>6, <1>7, <1>8

-----------------------------------------------------------------------------
(* The invariant                                                            *)

(* A callback that leaves the queue as it is and the focus attended to.     *)
LEMMA CallbackStep ==
  ASSUME LInv, app.round = <<>>, Settled(app, app')
  PROVE  LInv'
<1>1. app' \in App /\ Fits(app') /\ Reset(app') /\ OneGrab(app') /\ Attended(app')
  BY DEF Settled
<1>2. /\ app'.pending = app.pending /\ (Waits(app'.idle) <=> Waits(app.idle))
      /\ app'.round = <<>>
  BY DEF Settled, Kept
<1>3. Covered(app')
  BY <1>2 DEF LInv, Covered
<1>4. Seen(app')
  BY <1>1 DEF Attended, Seen
<1>. QED  BY <1>1, <1>3, <1>4 DEF LInv

(* A callback of the open window that only edits the entry and the modes.   *)
LEMMA EditStep ==
  ASSUME LInv, app.visible, Edits(app, app'), Fits(app')
  PROVE  LInv'
<1>1. app' \in App
  BY DEF Edits
<1>2. /\ app'.visible = app.visible /\ app'.focused = app.focused /\ app'.loss = app.loss
      /\ app'.regrab = app.regrab /\ app'.asked = app.asked
      /\ app'.pending = app.pending /\ app'.idle = app.idle /\ app'.round = app.round
  BY DEF Edits, Window
<1>3. Reset(app')
  BY <1>2 DEF Reset
<1>4. OneGrab(app') /\ Covered(app') /\ Seen(app')
  BY <1>2 DEF LInv, OneGrab, Covered, Seen
<1>. QED  BY <1>1, <1>3, <1>4 DEF LInv

(* Keys, pastes and Enter.                                                  *)
LEMMA KeyStep ==
  ASSUME LInv, app.round = <<>>, Keyed
  PROVE  LInv'
<1>1. app \in App /\ Fits(app) /\ Reset(app) /\ OneGrab(app) /\ app.text \in Text
  BY DEF LInv, App
<1>2. ASSUME NEW u \in Keys, OnKey(u)
      PROVE  LInv'
  <2>1. app.visible /\ Len(app.text) < MaxText /\ app' = TypeKey(app, u)
    BY <1>2 DEF OnKey, Keyboard
  <2>2. Edits(app, app') /\ Fits(app')
    BY <1>1, <2>1, TypeKeyFits
  <2>. QED  BY <2>1, <2>2, EditStep
<1>3. ASSUME NEW u \in Keys, OnDeleteFirst(u)
      PROVE  LInv'
  <2> DEFINE t == <<u>> \o Tail(Tail(app.text))
  <2>1. app.visible /\ Len(app.text) >= 2 /\ \E kept \in BOOLEAN : app' = Replaced(t, kept)
    BY <1>3 DEF OnDeleteFirst, Keyboard
  <2>2. u \in Nat /\ app.text # <<>>
    BY <2>1, LifecycleConstants
  <2>3. t \in Text /\ t # <<>>
    BY <1>1, <2>1, <2>2, TextFacts
  <2>. HIDE DEF t
  <2>4. Edits(app, app') /\ Fits(app')
    BY <1>1, <2>1, <2>3, ReplacedFits
  <2>. QED  BY <2>1, <2>4, EditStep
<1>4. ASSUME NEW u \in Keys, OnPaste(u)
      PROVE  LInv'
  <2> DEFINE t == <<u, Later>>
  <2>1. app.visible /\ MaxText >= 2 /\ \E kept \in BOOLEAN : app' = Replaced(t, kept)
    BY <1>4 DEF OnPaste, Keyboard
  <2>2. t \in Text /\ t # <<>>
    BY <2>1, LifecycleConstants, TextFacts
  <2>. HIDE DEF t
  <2>3. Edits(app, app') /\ Fits(app')
    BY <1>1, <2>1, <2>2, ReplacedFits
  <2>. QED  BY <2>1, <2>3, EditStep
<1>5. ASSUME OnBackspace
      PROVE  LInv'
  <2>1. app.visible /\ app.text # <<>> /\ app' = SetText(app, Front(app.text))
    BY <1>5 DEF OnBackspace, Keyboard
  <2>2. Front(app.text) \in Text
    BY <1>1, <2>1, TextFacts
  <2>3. Edits(app, app') /\ Fits(app')
    BY <1>1, <2>1, <2>2, SetTextFits
  <2>. QED  BY <2>1, <2>3, EditStep
<1>6. ASSUME OnEscape
      PROVE  LInv'
  <2>1. app.visible /\ app.focused
    BY <1>6 DEF OnEscape, Keyboard
  <2>2. CASE app.overlay
    <3>1. app' = [app EXCEPT !.overlay = FALSE]
      BY <1>6, <2>2 DEF OnEscape
    <3>2. /\ app' \in App /\ app'.visible = app.visible /\ app'.focused = app.focused
          /\ app'.regrab = app.regrab /\ app'.pending = app.pending
          /\ app'.idle = app.idle /\ app'.round = app.round
          /\ app'.tab = app.tab /\ app'.mode = app.mode /\ app'.vis = app.vis
          /\ app'.target = app.target
      BY <1>1, <3>1 DEF App
    <3>3. Settled(app, app')
      BY <1>1, <2>1, <3>2 DEF Settled, Fits, Reset, OneGrab, Kept, Attended
    <3>. QED  BY <3>3, CallbackStep
  <2>3. CASE ~app.overlay
    <3>1. app' = Escape(app)
      BY <1>6, <2>3 DEF OnEscape
    <3>2. (Edits(app, app') /\ Fits(app')) \/ Settled(app, app')
      BY <1>1, <2>1, <3>1, EscapeFits
    <3>. QED  BY <2>1, <3>2, EditStep, CallbackStep
  <2>. QED  BY <2>2, <2>3
<1>7. ASSUME NEW forward \in BOOLEAN, OnTab(forward)
      PROVE  LInv'
  <2>1. app.visible /\ app' = PressTab(app, forward)
    BY <1>7 DEF OnTab, Keyboard
  <2>2. Edits(app, app') /\ Fits(app')
    BY <1>1, <2>1, PressTabFits
  <2>. QED  BY <2>1, <2>2, EditStep
<1>8. ASSUME NEW c \in Command, OnEnterCommand(c)
      PROVE  LInv'
  <2>1. app.visible /\ app.focused /\ app' = EnterOnCommand(app, c)
    BY <1>8 DEF OnEnterCommand, Keyboard
  <2>2. Settled(app, app')
    BY <1>1, <2>1, EnterOnCommandSettles
  <2>. QED  BY <2>2, CallbackStep
<1>9. ASSUME NEW hide \in BOOLEAN, OnEnterRow(hide)
      PROVE  LInv'
  <2>1. /\ app.visible
        /\ app' \in {HideWindow(ExitModal(app)), HideWindow(app), [app EXCEPT !.text = <<>>], app}
    BY <1>9 DEF OnEnterRow, Keyboard
  <2>2. CASE app' = HideWindow(ExitModal(app))
    <3> DEFINE a == ExitModal(app)
    <3>1. Edits(app, a) /\ Fits(a)
      BY <1>1, ExitModalFits
    <3>. HIDE DEF a
    <3>2. a \in App /\ a.visible /\ OneGrab(a)
      BY <1>1, <2>1, <3>1, WindowFields DEF Edits, OneGrab
    <3>3. Reset(a)
      BY <3>2 DEF Reset
    <3>4. Settled(a, app')
      BY <2>2, <3>1, <3>2, <3>3, HideWindowSettles DEF a
    <3>. QED  BY <3>1, <3>4, SettledFromEdits, CallbackStep
  <2>3. CASE app' = HideWindow(app)
    <3>1. Settled(app, app')
      BY <1>1, <2>3, HideWindowSettles
    <3>. QED  BY <3>1, CallbackStep
  <2>4. CASE app' = [app EXCEPT !.text = <<>>]
    <3>1. /\ Edits(app, app') /\ app'.tab = app.tab /\ app'.mode = app.mode
          /\ app'.vis = app.vis /\ app'.target = app.target
      BY <1>1, <2>4, TextFacts DEF Edits, App, Window
    <3>2. Fits(app')
      BY <1>1, <3>1 DEF Fits
    <3>. QED  BY <2>1, <3>1, <3>2, EditStep
  <2>5. CASE app' = app
    BY <1>1, <2>1, <2>5, EditStep DEF Edits
  <2>. QED  BY <2>1, <2>2, <2>3, <2>4, <2>5
<1>10. ASSUME OnOverlayDone
       PROVE  LInv'
  <2>1. Settled(app, app')
    BY <1>1, <1>10, HideWindowSettles DEF OnOverlayDone
  <2>. QED  BY <2>1, CallbackStep
<1>. QED
  BY <1>2, <1>3, <1>4, <1>5, <1>6, <1>7, <1>8, <1>9, <1>10 DEF Keyed

(* The requests of other invocations: each shows the window, whatever it    *)
(* was doing, and leaves it in a state of its own.                          *)
LEMMA RequestStep ==
  ASSUME LInv, app.round = <<>>, Requested
  PROVE  LInv'
<1> DEFINE m == ExitModes(app)
           w == [m EXCEPT !.tab = "windows"]
           a == ShowWindow(w)
<1>1. app \in App /\ Fits(app) /\ OneGrab(app) /\ <<>> \in Text /\ "windows" \in Tab
  BY TextFacts DEF LInv, Tab
<1>2. Edits(app, m) /\ Fits(m) /\ m.mode = "normal"
  BY <1>1, ExitModesFits
<1>3. Edits(app, w) /\ Fits(w) /\ w.mode = "normal"
  <2>. HIDE DEF m
  <2>1. /\ Edits(m, w) /\ w.tab = "windows" /\ w.mode = m.mode /\ w.vis = m.vis
        /\ w.target = m.target
    BY <1>1, <1>2 DEF Edits, App, Window
  <2>. QED  BY <1>2, <2>1 DEF Edits, Fits
<1>4. Shown(app, a) /\ Fits(a) /\ a.mode = "normal" /\ a \in App
  <2>. HIDE DEF w
  <2>1. w \in App /\ OneGrab(w)
    BY <1>1, <1>3, WindowFields DEF Edits, OneGrab
  <2>2. /\ Shown(w, a) /\ a.tab = w.tab /\ a.mode = w.mode /\ a.vis = w.vis
        /\ a.target = w.target
    BY <2>1, ShowWindowShows
  <2>. QED  BY <1>3, <2>2, EditedShown DEF Fits, Shown
<1>5. ASSUME Shown(app, app'), Fits(app')
      PROVE  LInv'
  BY <1>5, ShownSettles, CallbackStep
<1>6. ASSUME RequestWindows
      PROVE  LInv'
  <2>1. app' = SetText(a, <<>>)
    BY <1>6 DEF RequestWindows
  <2>. HIDE DEF a
  <2>2. Edits(a, app') /\ Fits(app')
    BY <1>1, <1>4, <2>1, SetTextFits
  <2>. QED  BY <1>4, <1>5, <2>2, ShownEdited
<1>7. ASSUME RequestTab("path")
      PROVE  LInv'
  <2>1. app' = SurfaceTab(a, "path")
    BY <1>7 DEF RequestTab
  <2>. HIDE DEF a
  <2>2. Edits(a, app') /\ Fits(app')
    BY <1>1, <1>4, <2>1, SurfaceTabFits DEF Tab
  <2>. QED  BY <1>4, <1>5, <2>2, ShownEdited
<1>8. ASSUME NEW known \in BOOLEAN, RequestShowTab(known)
      PROVE  LInv'
  <2>1. app' = IF known THEN Execute(a, "list") ELSE a
    BY <1>8 DEF RequestShowTab
  <2>. HIDE DEF a
  <2>2. "list" \in Command
    BY DEF Command
  <2>3. Shown(app, app') /\ Fits(app')
    BY <1>4, <2>1, <2>2, ExecuteShows
  <2>. QED  BY <1>5, <2>3
<1>9. ASSUME RequestCommand
      PROVE  LInv'
  <2> DEFINE c == [app EXCEPT !.tab = "windows", !.target = TRUE]
             d == ShowWindow(c)
  <2>1. app' = EnterCommandMode(d)
    BY <1>9 DEF RequestCommand
  <2>2. Edits(app, c) /\ c.vis = app.vis
    BY <1>1 DEF Edits, App, Window
  <2>. HIDE DEF c
  <2>3. c \in App /\ OneGrab(c)
    BY <1>1, <2>2, WindowFields DEF Edits, OneGrab
  <2>4. Shown(c, d) /\ d.vis = c.vis
    BY <2>3, ShowWindowShows
  <2>. HIDE DEF d
  <2>5. d \in App /\ d.vis["run"] # "pinned" /\ d.vis["windows"] = "pinned"
    BY <1>1, <2>2, <2>4 DEF Shown, Fits
  <2>6. Edits(d, app') /\ Fits(app')
    BY <2>1, <2>5, EnterCommandModeFits
  <2>. QED  BY <1>5, <2>2, <2>4, <2>6, EditedShown, ShownEdited
<1>10. ASSUME RequestRun
       PROVE  LInv'
  <2> DEFINE c == [app EXCEPT !.tab = "windows"]
             d == ShowWindow(c)
             e == IF d.mode = "command" THEN ExitCommandMode(d) ELSE d
             f == [e EXCEPT !.origin = e.tab, !.claim = Bang]
  <2>1. app' = EnterModal(f, "run")
    BY <1>10 DEF RequestRun
  <2>2. /\ Edits(app, c) /\ c.vis = app.vis /\ c.mode = app.mode /\ c.target = app.target
    BY <1>1 DEF Edits, App, Window
  <2>. HIDE DEF c
  <2>3. c \in App /\ OneGrab(c)
    BY <1>1, <2>2, WindowFields DEF Edits, OneGrab
  <2>4. Shown(c, d) /\ d.vis = c.vis /\ d.mode = c.mode /\ d.target = c.target
    BY <2>3, ShowWindowShows
  <2>. HIDE DEF d
  <2>5. d \in App
    BY <2>4 DEF Shown
  <2>6. /\ Edits(d, e) /\ ~e.target
        /\ e.vis["run"] # "pinned" /\ e.vis["windows"] = "pinned"
    <3>1. CASE d.mode = "command"
      <4>1. e = ExitCommandMode(d) /\ Fits(d)
        BY <1>1, <2>2, <2>4, <3>1 DEF Fits
      <4>. QED  BY <2>5, <4>1, ExitCommandModeFits DEF Fits
    <3>2. CASE d.mode # "command"
      <4>1. e = d
        BY <3>2
      <4>. QED  BY <1>1, <2>2, <2>4, <2>5, <3>2, <4>1 DEF Fits, Edits
    <3>. QED  BY <3>1, <3>2
  <2>. HIDE DEF e
  <2>7. Edits(e, f) /\ f.vis = e.vis /\ f.target = e.target
    BY <2>6 DEF Edits, App, Window, Claims
  <2>. HIDE DEF f
  <2>8. f \in App /\ ~f.target /\ f.vis["run"] # "pinned" /\ f.vis["windows"] = "pinned"
    BY <2>6, <2>7 DEF Edits
  <2>9. Edits(f, app') /\ Fits(app')
    BY <2>1, <2>8, EnterModalFits
  <2>. QED  BY <1>5, <2>2, <2>4, <2>6, <2>7, <2>9, EditedShown, ShownEdited
<1>. QED  BY <1>6, <1>7, <1>8, <1>9, <1>10 DEF Requested

(* The focus, taken or to be asked for again, of an open window.            *)
Refocused(a, ok, b) ==
    /\ b \in App /\ b.visible = a.visible
    /\ (b.focused <=> a.focused \/ ok) /\ (b.regrab <=> ~ok)
    /\ b.pending = a.pending /\ b.idle = a.idle /\ b.round = a.round
    /\ b.tab = a.tab /\ b.mode = a.mode /\ b.vis = a.vis /\ b.target = a.target

(* grab_focus_delayed, at the first try or a later one.                     *)
LEMMA GrabFocusRefocuses ==
  ASSUME NEW a \in App, a.visible, NEW ok \in BOOLEAN, NEW b, b = GrabFocusDelayed(a, ok)
  PROVE  Refocused(a, ok, b)
<1> DEFINE f == a.focused \/ ok
           g == a.asked /\ ~ok
           n == ~ok
<1>1. b = [a EXCEPT !.regrab = n, !.focused = f, !.asked = g]
  BY DEF GrabFocusDelayed
<1>2. f \in BOOLEAN /\ g \in BOOLEAN /\ n \in BOOLEAN
  OBVIOUS
<1>3. (f <=> a.focused \/ ok) /\ (n <=> ~ok)
  OBVIOUS
<1>. HIDE DEF f, g, n
<1>4. b \in App
  <2> DEFINE c == [a EXCEPT !.regrab = n]
             d == [c EXCEPT !.focused = f]
  <2>1. b = [d EXCEPT !.asked = g]
    BY <1>1
  <2>2. c \in App
    BY <1>2 DEF App
  <2>. HIDE DEF c
  <2>3. d \in App
    BY <1>2, <2>2 DEF App
  <2>. HIDE DEF d
  <2>. QED  BY <1>2, <2>1, <2>3 DEF App
<1>4a. b.visible = a.visible /\ b.focused = f /\ b.regrab = n
  BY <1>1 DEF App
<1>5. /\ b.pending = a.pending /\ b.idle = a.idle /\ b.round = a.round
      /\ b.tab = a.tab /\ b.mode = a.mode /\ b.vis = a.vis /\ b.target = a.target
  BY <1>1 DEF App
<1>. QED  BY <1>3, <1>4, <1>4a, <1>5 DEF Refocused

(* The window manager, the timers and the hotkeys.                          *)
LEMMA SignalStep ==
  ASSUME LInv, app.round = <<>>,
         \/ OnDelete \/ OnFocusIn \/ OnFocusOut \/ OnLossTimer \/ OnTick
         \/ \E h \in Hotkey : OnHotkey(h)
         \/ \E ok \in BOOLEAN : OnRegrabTimer(ok)
         \/ OnIdle
  PROVE  LInv'
<1>1. /\ app \in App /\ Fits(app) /\ Reset(app) /\ OneGrab(app) /\ Covered(app) /\ Seen(app)
  BY DEF LInv
<1>2. ASSUME OnDelete
      PROVE  LInv'
  <2>1. Settled(app, app')
    BY <1>1, <1>2, HideWindowSettles DEF OnDelete
  <2>. QED  BY <2>1, CallbackStep
<1>3. ASSUME OnFocusIn
      PROVE  LInv'
  <2>1. app.visible /\ app' = [app EXCEPT !.focused = TRUE, !.asked = FALSE]
    BY <1>3 DEF OnFocusIn
  <2>2. /\ app' \in App /\ app'.visible = app.visible /\ app'.focused = TRUE
        /\ app'.regrab = app.regrab /\ app'.pending = app.pending
        /\ app'.idle = app.idle /\ app'.round = app.round
        /\ app'.tab = app.tab /\ app'.mode = app.mode /\ app'.vis = app.vis
        /\ app'.target = app.target
    BY <1>1, <2>1 DEF App
  <2>3. Settled(app, app')
    BY <1>1, <2>1, <2>2 DEF Settled, Fits, Reset, OneGrab, Kept, Attended
  <2>. QED  BY <2>3, CallbackStep
<1>4. ASSUME OnFocusOut
      PROVE  LInv'
  <2> DEFINE a == [app EXCEPT !.focused = FALSE]
             b == IF app.pending THEN a ELSE ExitModes(a)
  <2>1. app' = [b EXCEPT !.loss = AutoClose \/ @]
    BY <1>4 DEF OnFocusOut
  <2>2. /\ a \in App /\ a.visible = app.visible /\ a.overlay = app.overlay
        /\ a.regrab = app.regrab /\ a.asked = app.asked /\ a.pending = app.pending
        /\ a.idle = app.idle /\ a.round = app.round
        /\ a.tab = app.tab /\ a.mode = app.mode /\ a.vis = app.vis /\ a.text = app.text
        /\ a.target = app.target
    BY <1>1 DEF App
  <2>. HIDE DEF a
  <2>3. Fits(a) /\ Reset(a)
    BY <1>1, <2>2 DEF Fits, Reset
  <2>4. Edits(a, b) /\ Fits(b) /\ Reset(b)
    <3>1. CASE b = a
      BY <2>2, <2>3, <3>1 DEF Edits
    <3>2. CASE b = ExitModes(a)
      <4>1. Edits(a, b) /\ Fits(b)
        BY <2>2, <2>3, <3>2, ExitModesFits
      <4>2. CASE a.visible
        BY <4>1, <4>2, WindowFields DEF Edits, Reset
      <4>3. CASE ~a.visible
        <5>1. b = a
          BY <2>3, <3>2, <4>3 DEF Reset, ExitModes
        <5>. QED  BY <2>3, <4>1, <5>1
      <4>. QED  BY <4>1, <4>2, <4>3
    <3>. QED  BY <3>1, <3>2
  <2>. HIDE DEF b
  <2>5. /\ b \in App /\ b.regrab = a.regrab /\ b.pending = a.pending
        /\ b.idle = a.idle /\ b.round = a.round
    BY <2>4, WindowFields DEF Edits
  <2>6. /\ app' \in App /\ app'.loss = (AutoClose \/ b.loss)
        /\ app'.visible = b.visible /\ app'.overlay = b.overlay
        /\ app'.regrab = b.regrab /\ app'.pending = b.pending
        /\ app'.idle = b.idle /\ app'.round = b.round
        /\ app'.tab = b.tab /\ app'.mode = b.mode /\ app'.vis = b.vis /\ app'.text = b.text
        /\ app'.target = b.target
    BY <2>1, <2>5, LifecycleConstants DEF App
  <2>7. Fits(app') /\ Reset(app')
    BY <2>4, <2>6 DEF Fits, Reset
  <2>8. OneGrab(app') /\ Covered(app')
    BY <1>1, <2>2, <2>5, <2>6 DEF OneGrab, Covered
  <2>9. Seen(app')
    BY <2>6 DEF Seen
  <2>. QED  BY <2>6, <2>7, <2>8, <2>9 DEF LInv
<1>5. ASSUME OnLossTimer
      PROVE  LInv'
  <2> DEFINE a == [app EXCEPT !.loss = FALSE]
  <2>1. app' = IF a.visible /\ ~a.focused THEN HideWindow(a) ELSE a
    BY <1>5 DEF OnLossTimer
  <2>2. /\ a \in App /\ a.visible = app.visible /\ a.focused = app.focused
        /\ a.overlay = app.overlay
        /\ a.regrab = app.regrab /\ a.asked = app.asked /\ a.pending = app.pending
        /\ a.idle = app.idle /\ a.round = app.round
        /\ a.tab = app.tab /\ a.mode = app.mode /\ a.vis = app.vis /\ a.text = app.text
        /\ a.target = app.target
    BY <1>1 DEF App
  <2>. HIDE DEF a
  <2>3. Fits(a) /\ Reset(a) /\ OneGrab(a)
    BY <1>1, <2>2 DEF Fits, Reset, OneGrab
  <2>4. Settled(a, app')
    <3>1. CASE app' = HideWindow(a)
      BY <2>2, <2>3, <3>1, HideWindowSettles
    <3>2. CASE app' = a /\ ~(a.visible /\ ~a.focused)
      BY <2>2, <2>3, <3>2 DEF Settled, Kept, Attended
    <3>. QED  BY <2>1, <3>1, <3>2
  <2>5. Settled(app, app')
    BY <2>2, <2>4 DEF Settled, Kept
  <2>. QED  BY <2>5, CallbackStep
<1>6. ASSUME OnTick
      PROVE  LInv'
  <2>1. app' = app \/ app' = [app EXCEPT !.tick = "none"]
    BY <1>6 DEF OnTick
  <2>2. Edits(app, app') /\ app'.tab = app.tab /\ app'.mode = app.mode /\ app'.vis = app.vis
        /\ app'.text = app.text /\ app'.target = app.target
    BY <1>1, <2>1 DEF Edits, App, Window
  <2>3. app' \in App /\ Fits(app')
    BY <1>1, <2>2 DEF Edits, Fits
  <2>4. Reset(app') /\ OneGrab(app') /\ Covered(app') /\ Seen(app')
    BY <1>1, <2>2, WindowFields DEF Edits, Reset, OneGrab, Covered, Seen
  <2>. QED  BY <2>3, <2>4 DEF LInv
<1>7. ASSUME NEW h \in Hotkey, OnHotkey(h)
      PROVE  LInv'
  <2> DEFINE i == Append(app.idle, h)
             l == IF app.visible THEN FALSE ELSE app.loss
  <2>1. app' = [app EXCEPT !.loss = l, !.pending = TRUE, !.idle = i]
    BY <1>7 DEF OnHotkey
  <2>2. app.idle \in Idles /\ l \in BOOLEAN
    BY <1>1 DEF App
  <2>3. i \in Idles /\ i # <<>> /\ Grabs(i) = Grabs(app.idle) /\ Waits(i)
    BY Zenon, <2>2, AppendHotkey
  <2>. HIDE DEF i, l
  <2>4. /\ app' \in App /\ app'.visible = app.visible /\ app'.focused = app.focused
        /\ app'.overlay = app.overlay /\ app'.regrab = app.regrab
        /\ app'.pending = TRUE /\ app'.idle = i /\ app'.round = app.round
        /\ app'.tab = app.tab /\ app'.mode = app.mode /\ app'.vis = app.vis
        /\ app'.text = app.text /\ app'.target = app.target
    BY <1>1, <2>1, <2>2, <2>3 DEF App
  <2>5. Fits(app') /\ Reset(app') /\ OneGrab(app')
    BY <1>1, <2>3, <2>4 DEF Fits, Reset, OneGrab
  <2>6. Covered(app') /\ Seen(app')
    BY <2>3, <2>4 DEF Covered, Seen
  <2>. QED  BY <2>4, <2>5, <2>6 DEF LInv
<1>8. ASSUME NEW ok \in BOOLEAN, OnRegrabTimer(ok)
      PROVE  LInv'
  <2>1. app.regrab /\ app' = GrabFocusDelayed([app EXCEPT !.regrab = FALSE], ok)
    BY <1>8 DEF OnRegrabTimer
  <2> DEFINE a == [app EXCEPT !.regrab = FALSE]
  <2>2. app.visible /\ Grabs(app.idle) = {} /\ Grabs(app.round) = {}
    BY <1>1, <2>1 DEF Reset, OneGrab
  <2>3. /\ a \in App /\ a.visible = app.visible /\ a.pending = app.pending
        /\ a.idle = app.idle /\ a.round = app.round
        /\ a.tab = app.tab /\ a.mode = app.mode /\ a.vis = app.vis
        /\ a.target = app.target
    BY <1>1 DEF App
  <2>. HIDE DEF a
  <2>4. app' = GrabFocusDelayed(a, ok) /\ a.visible
    BY <2>1, <2>2, <2>3 DEF a
  <2>5. Refocused(a, ok, app')
    BY <2>3, <2>4, GrabFocusRefocuses
  <2>6. Settled(app, app')
    BY <1>1, <2>2, <2>3, <2>5 DEF Settled, Fits, Reset, OneGrab, Kept, Attended, Refocused
  <2>. QED  BY <2>6, CallbackStep
<1>9. ASSUME OnIdle
      PROVE  LInv'
  <2>1. app.idle # <<>> /\ app' = [app EXCEPT !.round = app.idle, !.idle = <<>>]
    BY <1>9 DEF OnIdle, RoundOfAll
  <2>2. <<>> \in Idles /\ Grabs(<<>>) = {} /\ ~Waits(<<>>)
    BY DEF Idles, Grabs, Waits
  <2>3. /\ app' \in App /\ app'.visible = app.visible /\ app'.focused = app.focused
        /\ app'.overlay = app.overlay /\ app'.regrab = app.regrab
        /\ app'.pending = app.pending /\ app'.idle = <<>> /\ app'.round = app.idle
        /\ app'.tab = app.tab /\ app'.mode = app.mode /\ app'.vis = app.vis
        /\ app'.text = app.text /\ app'.target = app.target
    BY <1>1, <2>1, <2>2 DEF App
  <2>4. Fits(app') /\ Reset(app')
    BY <1>1, <2>3 DEF Fits, Reset
  <2>5. OneGrab(app')
    BY <1>1, <2>2, <2>3 DEF OneGrab
  <2>6. Covered(app') /\ Seen(app')
    BY <1>1, <2>1, <2>2, <2>3 DEF Covered, Seen
  <2>. QED  BY <2>3, <2>4, <2>5, <2>6 DEF LInv
<1>. QED  BY <1>2, <1>3, <1>4, <1>5, <1>6, <1>7, <1>8, <1>9

(* A call of the running round.                                             *)
LEMMA RoundStep ==
  ASSUME LInv, NEW ok \in BOOLEAN, RunIdle(ok)
  PROVE  LInv'
<1> DEFINE r == Tail(app.round)
           h == Head(app.round)
           a == [app EXCEPT !.round = r]
<1>1. /\ app \in App /\ Fits(app) /\ Reset(app) /\ OneGrab(app) /\ Covered(app) /\ Seen(app)
  BY DEF LInv
<1>2. /\ app.round # <<>>
      /\ app' = IF h = GrabFocus THEN GrabFocusDelayed(a, ok) ELSE DispatchHotkey(a, h)
  BY DEF RunIdle
<1>3. app.round \in Idles /\ \A i, j \in Grabs(app.round) : i = j
  BY <1>1 DEF App, OneGrab
<1>4. /\ r \in Idles /\ h \in Hotkey \cup {GrabFocus}
      /\ \A i, j \in Grabs(r) : i = j
      /\ Grabs(r) # {} => Grabs(app.round) # {}
      /\ h = GrabFocus => Grabs(r) = {} /\ Grabs(app.round) # {}
      /\ h = GrabFocus => (Waits(r) <=> Waits(app.round))
  BY <1>2, <1>3, TailOfIdles
<1>5. ~Waits(app.idle) /\ (app.pending => Waits(app.round))
  BY <1>1, <1>2 DEF Covered
<1>. HIDE DEF r, h
<1>6. /\ a \in App /\ a.visible = app.visible /\ a.focused = app.focused
      /\ a.overlay = app.overlay /\ a.asked = app.asked
      /\ a.regrab = app.regrab /\ a.pending = app.pending
      /\ a.idle = app.idle /\ a.round = r
      /\ a.tab = app.tab /\ a.mode = app.mode /\ a.vis = app.vis
      /\ a.text = app.text /\ a.target = app.target
  BY <1>1, <1>4 DEF App
<1>. HIDE DEF a
<1>7. Fits(a) /\ Reset(a) /\ OneGrab(a)
  BY <1>1, <1>4, <1>6 DEF Fits, Reset, OneGrab
<1>8. CASE h = GrabFocus
  <2>1. app' = GrabFocusDelayed(a, ok)
    BY <1>2, <1>8
  <2>2. Grabs(r) = {} /\ Grabs(app.idle) = {} /\ (app.pending => Waits(r))
    BY <1>1, <1>4, <1>5, <1>8 DEF OneGrab
  <2>3. CASE a.visible
    <3>1. Refocused(a, ok, app')
      BY <1>6, <2>1, <2>3, GrabFocusRefocuses
    <3>2. /\ app' \in App /\ app'.visible = a.visible
          /\ (app'.focused \/ app'.regrab) /\ app'.pending = a.pending
          /\ app'.idle = a.idle /\ app'.round = a.round
          /\ app'.tab = a.tab /\ app'.mode = a.mode /\ app'.vis = a.vis
          /\ app'.target = a.target
      BY <3>1 DEF Refocused
    <3>3. Fits(app') /\ Reset(app') /\ Seen(app')
      BY <1>7, <2>3, <3>2 DEF Fits, Reset, Seen
    <3>4. OneGrab(app')
      BY <1>6, <2>2, <3>2 DEF OneGrab
    <3>5. Covered(app')
      <4>1. r = <<>> => ~Waits(r)
        BY DEF Waits
      <4>. QED  BY <1>5, <1>6, <2>2, <3>2, <4>1 DEF Covered
    <3>. QED  BY <3>2, <3>3, <3>4, <3>5 DEF LInv
  <2>4. CASE ~a.visible
    <3>1. app' = [a EXCEPT !.regrab = FALSE]
      BY <2>1, <2>4 DEF GrabFocusDelayed
    <3>2. /\ app' \in App /\ app'.visible = a.visible /\ app'.overlay = a.overlay
          /\ app'.regrab = FALSE /\ app'.pending = a.pending
          /\ app'.idle = a.idle /\ app'.round = a.round
          /\ app'.tab = a.tab /\ app'.mode = a.mode /\ app'.vis = a.vis
          /\ app'.text = a.text /\ app'.target = a.target
      BY <1>6, <3>1 DEF App
    <3>3. Fits(app') /\ Reset(app') /\ Seen(app')
      BY <1>7, <2>4, <3>2 DEF Fits, Reset, Seen
    <3>4. OneGrab(app')
      BY <1>6, <2>2, <3>2 DEF OneGrab
    <3>5. Covered(app')
      <4>1. r = <<>> => ~Waits(r)
        BY DEF Waits
      <4>. QED  BY <1>5, <1>6, <2>2, <3>2, <4>1 DEF Covered
    <3>. QED  BY <3>2, <3>3, <3>4, <3>5 DEF LInv
  <2>. QED  BY <2>3, <2>4
<1>9. CASE h \in Hotkey /\ h # GrabFocus
  <2> DEFINE z == [a EXCEPT !.pending = FALSE]
  <2>1. app' = DispatchHotkey(a, h)
    BY <1>2, <1>9
  <2>2. Settled(z, app')
    BY <1>6, <1>7, <1>9, <2>1, DispatchHotkeySettles
  <2>3. z.pending = FALSE /\ z.idle = app.idle /\ z.round = r
    BY <1>6 DEF App
  <2>. HIDE DEF z
  <2>4. /\ app' \in App /\ Fits(app') /\ Reset(app') /\ OneGrab(app') /\ Attended(app')
        /\ app'.pending = FALSE /\ (Waits(app'.idle) <=> Waits(app.idle))
    BY <2>2, <2>3 DEF Settled, Kept
  <2>5. Covered(app')
    BY <1>5, <2>4 DEF Covered
  <2>6. Seen(app')
    BY <2>4 DEF Attended, Seen
  <2>. QED  BY <2>4, <2>5, <2>6 DEF LInv
<1>. QED  BY <1>4, <1>8, <1>9

(* The invariant holds at the start.                                        *)
LEMMA InitLInv == Init => LInv
<1>. SUFFICES ASSUME Init PROVE LInv
  OBVIOUS
<1> DEFINE v == [t \in Tab |-> IF t = "windows" THEN "pinned" ELSE "hidden"]
<1>1. /\ v \in [Tab -> Vis] /\ v["run"] = "hidden" /\ v["windows"] = "pinned"
      /\ \A t \in Tab : v[t] # "surfaced"
  BY DEF Vis, Tab
<1>2. <<>> \in Text /\ <<>> \in Idles /\ Grabs(<<>>) = {} /\ ~Waits(<<>>)
  BY TextFacts DEF Idles, Grabs, Waits
<1>3. app = [visible |-> FALSE, focused |-> FALSE, tab |-> "windows", mode |-> "normal",
             vis |-> v, text |-> <<>>, claim |-> NoClaim, origin |-> "windows",
             overlay |-> FALSE, target |-> FALSE, loss |-> FALSE, regrab |-> FALSE,
             asked |-> FALSE, tick |-> "none", pending |-> FALSE,
             idle |-> <<>>, round |-> <<>>]
  BY DEF Init, InitApp
<1>. HIDE DEF v
<1>4. app \in App
  BY <1>1, <1>2, <1>3 DEF App, Tab, Claims
<1>5. Fits(app) /\ Reset(app) /\ Seen(app)
  BY <1>1, <1>3 DEF Fits, Reset, Seen
<1>6. OneGrab(app) /\ Covered(app)
  BY <1>2, <1>3 DEF OneGrab, Covered
<1>. QED  BY <1>4, <1>5, <1>6 DEF LInv

(* Every step keeps it.                                                     *)
LEMMA NextLInv == LInv /\ [Next]_app => LInv'
<1>. SUFFICES ASSUME LInv, [Next]_app PROVE LInv'
  OBVIOUS
<1>1. CASE UNCHANGED app
  BY <1>1 DEF LInv
<1>2. ASSUME app.round = <<>>, Dispatched
      PROVE  LInv'
  BY <1>2, KeyStep, RequestStep, SignalStep DEF Dispatched
<1>3. ASSUME NEW ok \in BOOLEAN, RunIdle(ok)
      PROVE  LInv'
  BY <1>3, RoundStep
<1>. QED  BY <1>1, <1>2, <1>3 DEF Next

-----------------------------------------------------------------------------
(* Theorems                                                                 *)

(* The state of the window is one that its handlers account for, after      *)
(* any sequence of keys, hotkeys, requests, focus changes, timers and idle  *)
(* calls.                                                                   *)
THEOREM LifecycleInvariant == Spec => []LInv
  BY InitLInv, NextLInv, PTL DEF Spec

(* The fields keep their types, the text its bound, and one request for     *)
(* the focus at most is outstanding, of the timer and the idle calls.       *)
THEOREM LifecycleTypes == Spec => []TypeOK
<1>1. LInv => TypeOK
  BY DEF LInv, App, OneGrab, TypeOK, Text, Vis
<1>. QED  BY <1>1, LifecycleInvariant, PTL

(* Whatever was going on when hide_window ran, the next one to show the     *)
(* window finds it reset.                                                   *)
THEOREM HiddenWindowIsReset == Spec => []HiddenIsReset
<1>1. LInv => HiddenIsReset
  BY DEF LInv, Reset, HiddenIsReset
<1>. QED  BY <1>1, LifecycleInvariant, PTL

(* A target belongs to a command line, and a modal has its surfaced tab in  *)
(* front, whatever sequence of prefixes, hotkeys and requests led there.    *)
THEOREM ModesAlwaysFit == Spec => []ModesFit
<1>1. LInv => ModesFit
  BY DEF LInv, Fits, ModesFit
<1>. QED  BY <1>1, LifecycleInvariant, PTL

(* pending_hotkey_mode is set as long as a hotkey waits, whenever the focus *)
(* can be lost.                                                             *)
THEOREM PendingAlwaysCoversQueue == Spec => []PendingCoversQueue
<1>1. LInv => PendingCoversQueue
  BY DEF LInv, Covered, Waits, PendingCoversQueue
<1>. QED  BY <1>1, LifecycleInvariant, PTL

(* A window shown without the focus is about to be hidden or about to be    *)
(* focused.                                                                 *)
THEOREM ShownWindowIsNeverStranded == Spec => []NeverStranded
<1>1. LInv => NeverStranded
  <2>. SUFFICES ASSUME LInv, app.idle # <<>> \/ app.round # <<>>
                PROVE  app.idle \o app.round # <<>>
    BY DEF LInv, Seen, NeverStranded
  <2>1. app.idle \in Seq(Hotkey \cup {GrabFocus}) /\ app.round \in Seq(Hotkey \cup {GrabFocus})
    BY DEF LInv, App, Idles
  <2>. QED  BY <2>1
<1>. QED  BY <1>1, LifecycleInvariant, PTL
=============================================================================
