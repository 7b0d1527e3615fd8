---------------------------- MODULE PartsProofs ----------------------------
(* What Parts says of the parts of cofi, for every size: a behaviour of     *)
(* Spec is one of the part it is about, of which the proofs of that part    *)
(* speak.                                                                   *)
EXTENDS Parts, TabPartsProofs, LatePartsProofs

-----------------------------------------------------------------------------
OnHotkeys == part = "hotkeys"

(* No text is bound twice; unless a shortcut is being captured the grabs    *)
(* are those of the bindings, held all or none; and no capture outlives its *)
(* overlay: whichever way an overlay ends, a save or a grab fails           *)
(* (hotkeys.c, hotkey_config.c, overlay_hotkey_add.c).                      *)
THEOREM HotkeysStayInStep == ASSUME HotkeysFit PROVE Spec => []HotkeysInStep
<1>1. Init /\ OnHotkeys => HK!Init
  BY DEF Init, OnHotkeys
<1>2. OnHotkeys /\ [Next]_vars => [HK!Next]_st /\ OnHotkeys'
  BY DEF Next, vars, OnHotkeys
<1>3. ~OnHotkeys /\ [Next]_vars => ~OnHotkeys'
  BY DEF Next, vars, OnHotkeys
<1>4. HK!Spec => []HK!HotkeysInStep
  BY HotkeysHold
<1>5. (OnHotkeys => HK!HotkeysInStep) => HotkeysInStep
  BY DEF HotkeysInStep, OnHotkeys
<1> QED
  BY <1>1, <1>2, <1>3, <1>4, <1>5, PTL DEF Spec, HK!Spec

OnSettings == part = "settings"

(* The providers that are on are those the list of the option leaves on,    *)
(* what was saved is read again as it was, nobody is on the tab of one that *)
(* is off, and the rows of the Config tab show what is in force (config.c,  *)
(* config_provider.c, cofi_tab_provider.c).                                 *)
THEOREM SettingsAlwaysAgree == ASSUME OptionsFit PROVE Spec => []SettingsAgree
<1>1. Init /\ OnSettings => CF!Init
  BY DEF Init, OnSettings
<1>2. OnSettings /\ [Next]_vars => [CF!Next]_st /\ OnSettings'
  BY DEF Next, vars, OnSettings
<1>3. ~OnSettings /\ [Next]_vars => ~OnSettings'
  BY DEF Next, vars, OnSettings
<1>4. CF!Spec => []CF!SettingsAgree
  BY SettingsHold
<1>5. (OnSettings => CF!SettingsAgree) => SettingsAgree
  BY DEF SettingsAgree, OnSettings
<1> QED
  BY <1>1, <1>2, <1>3, <1>4, <1>5, PTL DEF Spec, CF!Spec

OnBluetooth == part = "bluetooth"
LEMMA AnswersComeLate == ASSUME DevicesFit PROVE Spec => [](OnBluetooth => BT!AnswersCount)
<1>1. Init /\ OnBluetooth => BT!Init
  BY DEF Init, OnBluetooth
<1>2. OnBluetooth /\ [Next]_vars => [BT!Next]_st /\ OnBluetooth'
  BY DEF Next, vars, OnBluetooth
<1>3. ~OnBluetooth /\ [Next]_vars => ~OnBluetooth'
  BY DEF Next, vars, OnBluetooth
<1>4. BT!Spec => []BT!AnswersCount
  BY AnswersHold
<1> QED
  BY <1>1, <1>2, <1>3, <1>4, PTL DEF Spec, BT!Spec

OnSinks == part = "sinks"
LEMMA ListsComeLate == Spec => [](OnSinks => SK!DrawnIsMeant)
<1>1. Init /\ OnSinks => SK!Init
  BY DEF Init, OnSinks
<1>2. OnSinks /\ [Next]_vars => [SK!Next]_st /\ OnSinks'
  BY DEF Next, vars, OnSinks
<1>3. ~OnSinks /\ [Next]_vars => ~OnSinks'
  BY DEF Next, vars, OnSinks
<1>4. SK!Spec => []SK!DrawnIsMeant
  BY SinksHold
<1> QED
  BY <1>1, <1>2, <1>3, <1>4, PTL DEF Spec, SK!Spec

OnProcesses == part = "processes"
LEMMA ProcessesComeLate == Spec => [](OnProcesses => PR!ActsOnWhatIsShown)
<1>1. Init /\ OnProcesses => PR!Init
  BY DEF Init, OnProcesses
<1>2. OnProcesses /\ [Next]_vars => [PR!Next]_st /\ OnProcesses'
  BY DEF Next, vars, OnProcesses
<1>3. ~OnProcesses /\ [Next]_vars => ~OnProcesses'
  BY DEF Next, vars, OnProcesses
<1>4. PR!Spec => []PR!ActsOnWhatIsShown
  BY ProcessesHold
<1> QED
  BY <1>1, <1>2, <1>3, <1>4, PTL DEF Spec, PR!Spec

OnRipple == part = "ripple"
LEMMA RingsComeLate == Spec => [](OnRipple => RP!SwitchIsShown)
<1>1. Init /\ OnRipple => RP!Init
  BY DEF Init, OnRipple
<1>2. OnRipple /\ [Next]_vars => [RP!Next]_st /\ OnRipple'
  BY DEF Next, vars, OnRipple
<1>3. ~OnRipple /\ [Next]_vars => ~OnRipple'
  BY DEF Next, vars, OnRipple
<1>4. RP!Spec => []RP!SwitchIsShown
  BY SwitchesAreShown
<1> QED
  BY <1>1, <1>2, <1>3, <1>4, PTL DEF Spec, RP!Spec

OnRestore == part = "restore"
LEMMA RestoresComeLate == ASSUME TimersFit PROVE Spec => [](OnRestore => FR!RestoresLast)
<1>1. Init /\ OnRestore => FR!Init
  BY DEF Init, OnRestore
<1>2. OnRestore /\ [Next]_vars => [FR!Next]_st /\ OnRestore'
  BY DEF Next, vars, OnRestore
<1>3. ~OnRestore /\ [Next]_vars => ~OnRestore'
  BY DEF Next, vars, OnRestore
<1>4. FR!Spec => []FR!RestoresLast
  BY RestoresHold
<1> QED
  BY <1>1, <1>2, <1>3, <1>4, PTL DEF Spec, FR!Spec

OnBreaker == part = "breaker"
LEMMA CallsComeLate == ASSUME LimitsFit PROVE Spec => [](OnBreaker => BR!BreakerHolds)
<1>1. Init /\ OnBreaker => BR!Init
  BY DEF Init, OnBreaker
<1>2. OnBreaker /\ [Next]_vars => [BR!Next]_st /\ OnBreaker'
  BY DEF Next, vars, OnBreaker
<1>3. ~OnBreaker /\ [Next]_vars => ~OnBreaker'
  BY DEF Next, vars, OnBreaker
<1>4. BR!Spec => []BR!BreakerHolds
  BY BreakersHold
<1> QED
  BY <1>1, <1>2, <1>3, <1>4, PTL DEF Spec, BR!Spec

(* What comes late does no harm: answers of BlueZ and lists of pactl and    *)
(* /proc that come when the tab, the filter or the call is another, the     *)
(* rings, the restored layouts and the rules whose timers run on            *)
(* (bluetooth_model.c, sinks.c, proc.c, x11_events.c,                       *)
(* frame_extents_restore.c, rules.c).                                       *)
THEOREM LateStaysHarmless ==
    ASSUME DevicesFit, TimersFit, LimitsFit PROVE Spec => []LateIsHarmless
<1>1. Spec => [](OnBluetooth => BT!AnswersCount)
  BY AnswersComeLate
<1>2. Spec => [](OnSinks => SK!DrawnIsMeant)
  BY ListsComeLate
<1>3. Spec => [](OnProcesses => PR!ActsOnWhatIsShown)
  BY ProcessesComeLate
<1>4. Spec => [](OnRipple => RP!SwitchIsShown)
  BY RingsComeLate
<1>5. Spec => [](OnRestore => FR!RestoresLast)
  BY RestoresComeLate
<1>6. Spec => [](OnBreaker => BR!BreakerHolds)
  BY CallsComeLate
<1>7. (OnBluetooth => BT!AnswersCount) /\ (OnSinks => SK!DrawnIsMeant) /\ (OnProcesses => PR!ActsOnWhatIsShown)
      /\ (OnRipple => RP!SwitchIsShown) /\ (OnRestore => FR!RestoresLast) /\ (OnBreaker => BR!BreakerHolds)
      => LateIsHarmless
  BY DEF LateIsHarmless, OnBluetooth, OnSinks, OnProcesses, OnRipple, OnRestore, OnBreaker
<1> QED
  BY <1>1, <1>2, <1>3, <1>4, <1>5, <1>6, <1>7, PTL

OnSlots == part = "slots"
LEMMA SlotsAgrees == ASSUME SlotsFit PROVE Spec => [](OnSlots => SL!SlotsAgree)
<1>1. Init /\ OnSlots => SL!Init
  BY DEF Init, OnSlots
<1>2. OnSlots /\ [Next]_vars => [SL!Next]_st /\ OnSlots'
  BY DEF Next, vars, OnSlots
<1>3. ~OnSlots /\ [Next]_vars => ~OnSlots'
  BY DEF Next, vars, OnSlots
<1>4. SL!Spec => []SL!SlotsAgree
  BY SlotsHold
<1> QED
  BY <1>1, <1>2, <1>3, <1>4, PTL DEF Spec, SL!Spec

OnPath == part = "path"
LEMMA PathAgrees == ASSUME PathFit PROVE Spec => [](OnPath => PB!PathRowsAgree)
<1>1. Init /\ OnPath => PB!Init
  BY DEF Init, OnPath
<1>2. OnPath /\ [Next]_vars => [PB!Next]_st /\ OnPath'
  BY DEF Next, vars, OnPath
<1>3. ~OnPath /\ [Next]_vars => ~OnPath'
  BY DEF Next, vars, OnPath
<1>4. PB!Spec => []PB!PathRowsAgree
  BY PathHolds
<1> QED
  BY <1>1, <1>2, <1>3, <1>4, PTL DEF Spec, PB!Spec

OnSessions == part = "sessions"
LEMMA SessionsAgrees == ASSUME SessionsFit PROVE Spec => [](OnSessions => SN!SessionsAgree)
<1>1. Init /\ OnSessions => SN!Init
  BY DEF Init, OnSessions
<1>2. OnSessions /\ [Next]_vars => [SN!Next]_st /\ OnSessions'
  BY DEF Next, vars, OnSessions
<1>3. ~OnSessions /\ [Next]_vars => ~OnSessions'
  BY DEF Next, vars, OnSessions
<1>4. SN!Spec => []SN!SessionsAgree
  BY SessionsHold
<1> QED
  BY <1>1, <1>2, <1>3, <1>4, PTL DEF Spec, SN!Spec

(* A key of a tab stands for one payload and a payload has one key, and     *)
(* what was saved is what the next start finds; the executables are those   *)
(* of PATH as far as the scan and the monitors have come, and the rows      *)
(* those that the text finds; the results are of the search that is on,     *)
(* one for a session and none of what was deleted, and the rows are in      *)
(* their order (slot_store.c, path_binaries.c, sessions.c).                 *)
THEOREM ListsAlwaysAgree ==
    ASSUME SlotsFit, PathFit, SessionsFit PROVE Spec => []ListsAgree
<1>1. (OnSlots => SL!SlotsAgree) /\ (OnPath => PB!PathRowsAgree) /\ (OnSessions => SN!SessionsAgree)
      => ListsAgree
  BY DEF ListsAgree, OnSlots, OnPath, OnSessions
<1> QED
  BY <1>1, SlotsAgrees, PathAgrees, SessionsAgrees, PTL

-----------------------------------------------------------------------------
(* The selection: the marker of a list keeps the identity it was on. *)

SEFields == {"open", "active", "told", "wins", "history", "filtered", "known", "text", "command",
             "native", "tab", "rows", "win", "prov"}
SEMark == {"index", "id", "offset"}
SEShape(s) == DOMAIN s = SEFields /\ DOMAIN s.win = SEMark /\ DOMAIN s.prov = SEMark

(* A command line is no query; the rows are some of those there are.        *)
SEGood(s) ==
    /\ SEShape(s)
    /\ s.command \in BOOLEAN /\ (s.text = "" \/ s.command = FALSE)
    /\ s.rows \in SE!RowLists
SEInv == SEGood(st)

LEMMA SESeqs ==
    ASSUME NEW S, IsFiniteSet(S), NEW f \in SE!SetToSeqs(S)
    PROVE  f \in Seq(S) /\ SE!Range(f) \subseteq S
<1>1. SE!Cardinality(S) = Cardinality(S)
  BY Zenon DEF SE!Cardinality, Cardinality
<1>2. Cardinality(S) \in Nat
  BY FS_CardinalityType
<1>3. f \in [1..Cardinality(S) -> S]
  BY Zenon, <1>1 DEF SE!SetToSeqs
<1>4. f \in Seq(S)
  BY <1>2, <1>3
<1> QED
  BY <1>4 DEF SE!Range

LEMMA SERowsAreSeqs == ASSUME RowsFit, NEW f \in SE!RowLists PROVE f \in Seq(ProviderRows)
<1>1. CASE f = <<>>
  <2>1. <<>> \in Seq(ProviderRows)
    OBVIOUS
  <2> QED
    BY <1>1, <2>1
<1>2. CASE f \in SE!SetToSeqs(ProviderRows)
  BY <1>2, SESeqs DEF RowsFit
<1> QED
  BY <1>1, <1>2 DEF SE!RowLists

SEAt(list, id) == SE!SelectInSeq(list, LAMBDA i : i = id)
LEMMA SEFinds ==
    ASSUME NEW f, Len(f) \in Nat, DOMAIN f = 1..Len(f), NEW id \in SE!Range(f)
    PROVE  SEAt(f, id) \in 1..Len(f) /\ f[SEAt(f, id)] = id
<1>. DEFINE I == {i \in 1..Len(f) : f[i] = id}
<1>1. SEAt(f, id) = IF I # {} THEN SE!Min(I) ELSE 0
  BY Zenon DEF SEAt, SE!SelectInSeq
<1>2. I \subseteq Nat /\ I # {}
  BY DEF SE!Range
<1>3. SE!Min(I) \in I
  BY Zenon, <1>2, NatMin DEF SE!Min
<1> QED
  BY <1>1, <1>2, <1>3

(* The identity of the marked row. *)
SEOn(c, list) == IF c.index < Len(list) THEN list[c.index + 1] ELSE SE!Cofi

LEMMA SEScrolls ==
    ASSUME NEW c, DOMAIN c = SEMark, NEW n
    PROVE  /\ DOMAIN SE!Scrolled(c, n) = SEMark
           /\ SE!Scrolled(c, n).index = c.index /\ SE!Scrolled(c, n).id = c.id
<1>1. PICK o : SE!Scrolled(c, n) = [c EXCEPT !.offset = o]
  BY DEF SE!Scrolled
<1> QED
  BY <1>1 DEF SEMark

LEMMA SEMarks ==
    ASSUME NEW c, DOMAIN c = SEMark, NEW list
    PROVE  DOMAIN SE!Preserve(c, list) = SEMark /\ DOMAIN SE!Restore(c, list) = SEMark
<1>1. DOMAIN SE!Preserve(c, list) = SEMark
  BY DEF SE!Preserve
<1>2. PICK i, d : SE!Restore(c, list) = SE!Scrolled([c EXCEPT !.index = i], Len(list))
                  \/ SE!Restore(c, list) = SE!Scrolled([c EXCEPT !.index = i, !.id = d], Len(list))
  BY DEF SE!Restore
<1>. DEFINE a == [c EXCEPT !.index = i]  b == [c EXCEPT !.index = i, !.id = d]
<1>3. DOMAIN a = SEMark /\ DOMAIN b = SEMark
  OBVIOUS
<1>. HIDE DEF a, b
<1>4. DOMAIN SE!Restore(c, list) = SEMark
  BY <1>2, <1>3, SEScrolls DEF a, b
<1> QED
  BY <1>1, <1>4

SEMarkAt(c, list, at) ==
    SE!Scrolled(IF at > 0 THEN [c EXCEPT !.index = at - 1]
                ELSE [c EXCEPT !.index = 0, !.id = SE!FirstId(list)], Len(list))

(* preserve_selection and restore_selection. *)
LEMMA SERestores ==
    ASSUME NEW c, DOMAIN c = SEMark, NEW list, NEW f, Len(f) \in Nat, DOMAIN f = 1..Len(f),
           SE!Cofi \notin SE!Range(f), SEOn(c, list) \in SE!Range(f)
    PROVE  SEOn(SE!Restore(SE!Preserve(c, list), f), f) = SEOn(c, list)
<1>. DEFINE id == SEOn(c, list)
            p == [c EXCEPT !.id = id]
            at == SEAt(f, id)
            m == [p EXCEPT !.index = at - 1]
            r == SE!Scrolled(m, Len(f))
<1>1. c.index < Len(list) /\ id = list[c.index + 1]
  BY DEF SEOn
<1>2. SE!Preserve(c, list) = p
  BY <1>1 DEF SE!Preserve
<1>3. at \in 1..Len(f) /\ f[at] = id
  BY SEFinds
<1>4. p.id = id /\ DOMAIN p = SEMark
  BY DEF SEMark
<1>. HIDE DEF id, p
<1>5. SE!Restore(p, f) = r
  <2>1. SE!Restore(p, f) = SEMarkAt(p, f, SEAt(f, p.id))
    BY Zenon DEF SE!Restore, SEAt, SEMarkAt
  <2>2. at > 0
    BY <1>3
  <2>3. SEAt(f, p.id) = at
    BY Zenon, <1>4
  <2>. HIDE DEF at
  <2>4. SEMarkAt(p, f, at) = r
    BY <2>2 DEF SEMarkAt
  <2> QED
    BY Zenon, <2>1, <2>3, <2>4
<1>. HIDE DEF at
<1>6. DOMAIN m = SEMark /\ m.index = at - 1
  BY <1>4 DEF SEMark
<1>. HIDE DEF m
<1>7. r.index = at - 1
  BY <1>6, SEScrolls
<1>. HIDE DEF r
<1>8. r.index < Len(f) /\ r.index + 1 = at
  BY <1>3, <1>7
<1>9. SEOn(r, f) = id
  BY <1>3, <1>8 DEF SEOn
<1> QED
  BY Zenon, <1>2, <1>5, <1>9 DEF id

-----------------------------------------------------------------------------
(* What filter_windows leaves alone.                                        *)
SEFrame(s, t) ==
    /\ SEShape(t)
    /\ t.told = s.told /\ t.text = s.text /\ t.command = s.command /\ t.tab = s.tab /\ t.rows = s.rows
SEKept(s) ==
    IF s.tab = "windows" THEN [s EXCEPT !.win = SE!Preserve(@, s.filtered)]
    ELSE [s EXCEPT !.prov = SE!Preserve(@, s.rows)]
SERestored(t) ==
    IF t.tab = "windows" THEN [t EXCEPT !.win = SE!Restore(@, t.filtered)]
    ELSE [t EXCEPT !.prov = SE!Restore(@, t.rows)]

LEMMA SEKeeps ==
    ASSUME NEW s, SEShape(s)
    PROVE  /\ SEFrame(s, SEKept(s))
           /\ s.tab = "windows" => SEKept(s).win = SE!Preserve(s.win, s.filtered)
           /\ s.tab # "windows" => SEKept(s).prov = SE!Preserve(s.prov, s.rows)
<1>. DEFINE w == SE!Preserve(s.win, s.filtered)  p == SE!Preserve(s.prov, s.rows)
<1>1. DOMAIN w = SEMark /\ DOMAIN p = SEMark
  BY SEMarks DEF SEShape
<1>2. SEKept(s) = IF s.tab = "windows" THEN [s EXCEPT !.win = w] ELSE [s EXCEPT !.prov = p]
  BY DEF SEKept
<1>. HIDE DEF w, p
<1>3. SEFrame(s, SEKept(s)) /\ (s.tab = "windows" => SEKept(s).win = w)
      /\ (s.tab # "windows" => SEKept(s).prov = p)
  BY <1>1, <1>2 DEF SEFrame, SEShape, SEFields
<1> QED
  BY Zenon, <1>3 DEF w, p

LEMMA SEOrders ==
    ASSUME NEW s, SEShape(s), NEW u \in SE!Ordered(SE!UpdateHistory(s))
    PROVE  SEFrame(s, u) /\ u.filtered = s.filtered /\ u.win = s.win /\ u.prov = s.prov
<1>1. PICK k, h : SE!UpdateHistory(s) = [s EXCEPT !.known = k, !.history = h]
  BY Zenon DEF SE!UpdateHistory
<1>. DEFINE v == [s EXCEPT !.known = k, !.history = h]
<1>2. SEFrame(s, v) /\ v.filtered = s.filtered /\ v.win = s.win /\ v.prov = s.prov
  BY DEF SEFrame, SEShape, SEFields
<1>. HIDE DEF v
<1>3. u \in SE!Ordered(v)
  BY Zenon, <1>1 DEF v
<1>4. PICK o : u = [v EXCEPT !.history = o]
  BY Zenon, <1>3 DEF SE!Ordered
<1> QED
  BY <1>2, <1>4 DEF SEFrame, SEShape, SEFields

LEMMA SEReturns ==
    ASSUME NEW t, SEShape(t)
    PROVE  /\ SEFrame(t, SERestored(t)) /\ SERestored(t).filtered = t.filtered
           /\ t.tab = "windows" => SERestored(t).win = SE!Restore(t.win, t.filtered)
           /\ t.tab # "windows" => SERestored(t).prov = SE!Restore(t.prov, t.rows)
<1>. DEFINE w == SE!Restore(t.win, t.filtered)  p == SE!Restore(t.prov, t.rows)
<1>1. DOMAIN w = SEMark /\ DOMAIN p = SEMark
  BY SEMarks DEF SEShape
<1>2. SERestored(t) = IF t.tab = "windows" THEN [t EXCEPT !.win = w] ELSE [t EXCEPT !.prov = p]
  BY DEF SERestored
<1>. HIDE DEF w, p
<1>3. /\ SEFrame(t, SERestored(t)) /\ SERestored(t).filtered = t.filtered
      /\ t.tab = "windows" => SERestored(t).win = w
      /\ t.tab # "windows" => SERestored(t).prov = p
  BY <1>1, <1>2 DEF SEFrame, SEShape, SEFields
<1> QED
  BY Zenon, <1>3 DEF w, p

LEMMA SEAlts ==
    ASSUME NEW t, SEShape(t), NEW query
    PROVE  /\ SEFrame(t, SE!AltTab(t, query)) /\ SE!AltTab(t, query).filtered = t.filtered
           /\ SE!AltTab(t, query).prov = t.prov
           /\ query # "" => SE!AltTab(t, query) = t
<1>1. SE!AltTab(t, query) = t \/ (query = "" /\ SE!AltTab(t, query) = [t EXCEPT !.win.index = 1, !.win.id = t.filtered[2]])
  BY Zenon DEF SE!AltTab
<1>2. CASE SE!AltTab(t, query) = t
  BY <1>2 DEF SEFrame
<1>3. CASE query = "" /\ SE!AltTab(t, query) = [t EXCEPT !.win.index = 1, !.win.id = t.filtered[2]]
  <2>1. PICK d : SE!AltTab(t, query) = [t EXCEPT !.win.index = 1, !.win.id = d]
    BY <1>3
  <2> QED
    BY <1>3, <2>1 DEF SEFrame, SEShape, SEFields, SEMark
<1> QED
  BY <1>1, <1>2, <1>3

(* filter_windows *)
LEMMA SEFilters ==
    ASSUME RowsFit, NEW s, SEShape(s), NEW query, NEW t \in SE!FilterWindows(s, query)
    PROVE  /\ SEFrame(s, t)
           /\ s.tab # "windows" => t.prov = SE!Restore(SE!Preserve(s.prov, s.rows), s.rows)
           /\ s.tab = "windows" /\ query # "" =>
                  /\ t.filtered \in Seq(Matching)
                  /\ t.win = SE!Restore(SE!Preserve(s.win, s.filtered), t.filtered)
<1>. DEFINE k == SEKept(s)
<1>1. SE!FilterWindows(s, query)
      = UNION {{SE!AltTab(SERestored([u EXCEPT !.filtered = f]), query) : f \in SE!Filtered(u, query)} :
               u \in SE!Ordered(SE!UpdateHistory(SEKept(s)))}
  BY Zenon DEF SE!FilterWindows, SEKept, SERestored
<1>2. PICK u \in SE!Ordered(SE!UpdateHistory(k)) : \E f \in SE!Filtered(u, query) :
          t = SE!AltTab(SERestored([u EXCEPT !.filtered = f]), query)
  BY Zenon, <1>1
<1>3. PICK f \in SE!Filtered(u, query) : t = SE!AltTab(SERestored([u EXCEPT !.filtered = f]), query)
  BY <1>2
<1>. DEFINE v == [u EXCEPT !.filtered = f]  r == SERestored(v)
<1>4. /\ SEFrame(s, k)
      /\ s.tab = "windows" => k.win = SE!Preserve(s.win, s.filtered)
      /\ s.tab # "windows" => k.prov = SE!Preserve(s.prov, s.rows)
  BY Zenon, SEKeeps
<1>. HIDE DEF k
<1>5. SEFrame(k, u) /\ u.win = k.win /\ u.prov = k.prov
  BY Zenon, <1>4, SEOrders DEF SEFrame
<1>6. SEFrame(u, v) /\ v.win = u.win /\ v.prov = u.prov /\ v.filtered = f
  BY <1>5 DEF SEFrame, SEShape, SEFields
<1>. HIDE DEF v
<1>7. /\ SEFrame(v, r) /\ r.filtered = v.filtered
      /\ v.tab = "windows" => r.win = SE!Restore(v.win, v.filtered)
      /\ v.tab # "windows" => r.prov = SE!Restore(v.prov, v.rows)
  BY Zenon, <1>6, SEReturns DEF SEFrame
<1>8. t = SE!AltTab(r, query)
  BY Zenon, <1>3 DEF v
<1>. HIDE DEF r
<1>9. SEFrame(r, t) /\ t.filtered = r.filtered /\ t.prov = r.prov /\ (query # "" => t = r)
  BY Zenon, <1>7, <1>8, SEAlts DEF SEFrame
<1>10. SEFrame(s, t)
  BY Zenon, <1>4, <1>5, <1>6, <1>7, <1>9 DEF SEFrame
<1>11. v.tab = s.tab /\ v.rows = s.rows
  BY Zenon, <1>4, <1>5, <1>6 DEF SEFrame
<1>12. ASSUME s.tab # "windows" PROVE t.prov = SE!Restore(SE!Preserve(s.prov, s.rows), s.rows)
  BY Zenon, <1>4, <1>5, <1>6, <1>7, <1>9, <1>11, <1>12
<1>13. ASSUME s.tab = "windows", query # ""
       PROVE  t.filtered \in Seq(Matching) /\ t.win = SE!Restore(SE!Preserve(s.win, s.filtered), t.filtered)
  <2>1. t.filtered = f /\ t.win = SE!Restore(SE!Preserve(s.win, s.filtered), f)
    BY Zenon, <1>4, <1>5, <1>6, <1>7, <1>9, <1>11, <1>13
  <2>2. f \in SE!SetToSeqs(SE!Range(u.history) \cap Matching)
    BY Zenon, <1>13 DEF SE!Filtered
  <2>3. IsFiniteSet(SE!Range(u.history) \cap Matching)
    BY FS_Subset DEF RowsFit
  <2>4. f \in Seq(SE!Range(u.history) \cap Matching)
    BY Zenon, <2>2, <2>3, SESeqs
  <2>5. f \in Seq(Matching)
    BY <2>4
  <2> QED
    BY Zenon, <2>1, <2>5
<1> QED
  BY Zenon, <1>10, <1>12, <1>13

-----------------------------------------------------------------------------
(* No new list while a query stands, and no new rows.                       *)
SEQuiet(s, t) ==
    /\ "list" \in s.told => "list" \in t.told
    /\ s.tab # "windows" /\ t.tab = s.tab /\ t.text = s.text => t.rows = s.rows

LEMMA SEQuietKeeps == ASSUME SEQuiet(st, st') PROVE SE!KeepsSelected
BY DEF SEQuiet, SE!KeepsSelected

LEMMA SESelects ==
    ASSUME NEW s
    PROVE  SE!Selected(s) = IF s.tab = "windows" THEN SEOn(s.win, s.filtered) ELSE SEOn(s.prov, s.rows)
BY DEF SE!Selected, SEOn

LEMMA SEFrames ==
    ASSUME NEW s, SEGood(s), NEW t, SEFrame(s, t)
    PROVE  SEGood(t) /\ SEQuiet(s, t)
BY DEF SEGood, SEFrame, SEQuiet

LEMMA SENoRows == <<>> \in SE!RowLists
BY DEF SE!RowLists

LEMMA SETops == DOMAIN SE!AtTop = SEMark
BY DEF SE!AtTop, SEMark

(* The notifications of the X server. *)
LEMMA SETold ==
    ASSUME NEW s, SEGood(s), NEW t, DOMAIN t = SEFields, NEW b, b = {"active"} \/ b = {"list"},
           t.told = s.told \cup b \/ t.told = s.told \ {"active"},
           t.text = s.text, t.command = s.command, t.tab = s.tab, t.rows = s.rows,
           t.win = s.win, t.prov = s.prov
    PROVE  SEGood(t) /\ SEQuiet(s, t)
BY DEF SEGood, SEShape, SEQuiet

LEMMA SEServer ==
    ASSUME SEInv,
           \/ \E w \in Coming : SE!Map(w) \/ SE!Unmap(w)
           \/ \E w \in SE!Range(st.open) \cup {SE!Cofi} : SE!Activate(w)
           \/ SE!OnActiveWindow
    PROVE  SEInv' /\ SEQuiet(st, st')
<1>1. \/ \E o : st' = [st EXCEPT !.open = o, !.told = @ \cup {"list"}]
      \/ \E w : st' = [st EXCEPT !.active = w, !.told = @ \cup {"active"}]
      \/ st' = [st EXCEPT !.known = st.active, !.told = @ \ {"active"}]
  BY DEF SE!Map, SE!Unmap, SE!Activate, SE!OnActiveWindow
<1>2. CASE \E o : st' = [st EXCEPT !.open = o, !.told = @ \cup {"list"}]
  <2>1. /\ DOMAIN st' = SEFields /\ st'.told = st.told \cup {"list"}
        /\ st'.text = st.text /\ st'.command = st.command /\ st'.tab = st.tab
        /\ st'.rows = st.rows /\ st'.win = st.win /\ st'.prov = st.prov
    BY <1>2 DEF SEInv, SEGood, SEShape, SEFields
  <2> QED
    BY <2>1, SETold DEF SEInv
<1>3. CASE \E w : st' = [st EXCEPT !.active = w, !.told = @ \cup {"active"}]
  <2>1. /\ DOMAIN st' = SEFields /\ st'.told = st.told \cup {"active"}
        /\ st'.text = st.text /\ st'.command = st.command /\ st'.tab = st.tab
        /\ st'.rows = st.rows /\ st'.win = st.win /\ st'.prov = st.prov
    BY <1>3 DEF SEInv, SEGood, SEShape, SEFields
  <2> QED
    BY <2>1, SETold DEF SEInv
<1>4. CASE st' = [st EXCEPT !.known = st.active, !.told = @ \ {"active"}]
  <2>1. /\ DOMAIN st' = SEFields /\ st'.told = st.told \ {"active"}
        /\ st'.text = st.text /\ st'.command = st.command /\ st'.tab = st.tab
        /\ st'.rows = st.rows /\ st'.win = st.win /\ st'.prov = st.prov
    BY <1>4 DEF SEInv, SEGood, SEShape, SEFields
  <2> QED
    BY <2>1, SETold DEF SEInv
<1> QED
  BY <1>1, <1>2, <1>3, <1>4

(* A new window list: the marker follows the window, or the row. *)
LEMMA SELists == ASSUME RowsFit, SEInv, SE!OnClientList PROVE SEInv' /\ SE!KeepsSelected
<1>. DEFINE s == [st EXCEPT !.wins = st.open, !.told = @ \ {"list"}]
            q == SE!Query(st)
<1>1. st' \in SE!FilterWindows(s, q)
  BY Zenon DEF SE!OnClientList
<1>2. /\ SEGood(s) /\ s.text = st.text /\ s.tab = st.tab /\ s.rows = st.rows
      /\ s.win = st.win /\ s.prov = st.prov /\ s.filtered = st.filtered
  BY DEF SEInv, SEGood, SEShape, SEFields
<1>3. st.text # "" => q = st.text
  BY DEF SE!Query, SEInv, SEGood
<1>. HIDE DEF s, q
<1>4. /\ SEFrame(s, st')
      /\ s.tab # "windows" => st'.prov = SE!Restore(SE!Preserve(s.prov, s.rows), s.rows)
      /\ s.tab = "windows" /\ q # "" =>
             /\ st'.filtered \in Seq(Matching)
             /\ st'.win = SE!Restore(SE!Preserve(s.win, s.filtered), st'.filtered)
  BY Zenon, <1>1, <1>2, SEFilters DEF SEGood
<1>5. SEInv'
  BY Zenon, <1>2, <1>4, SEFrames DEF SEInv
<1>6. st'.rows = st.rows /\ st'.tab = st.tab /\ st'.text = st.text
  BY Zenon, <1>2, <1>4 DEF SEFrame
<1>7. DOMAIN st.win = SEMark /\ DOMAIN st.prov = SEMark
  BY Zenon DEF SEInv, SEGood, SEShape
<1>8. ASSUME st.text # "", st.tab = "windows", SE!Selected(st) \in SE!Range(st'.filtered)
      PROVE  SE!Selected(st') = SE!Selected(st)
  <2>. DEFINE f == st'.filtered
  <2>1. f \in Seq(Matching) /\ st'.win = SE!Restore(SE!Preserve(st.win, st.filtered), f)
    BY Zenon, <1>2, <1>3, <1>4, <1>8
  <2>. HIDE DEF f
  <2>2. Len(f) \in Nat /\ DOMAIN f = 1..Len(f) /\ SE!Cofi \notin SE!Range(f)
    BY <2>1 DEF RowsFit, SE!Range
  <2>3. SEOn(st.win, st.filtered) \in SE!Range(f)
    BY Zenon, <1>8, SESelects DEF f
  <2>4. SEOn(SE!Restore(SE!Preserve(st.win, st.filtered), f), f) = SEOn(st.win, st.filtered)
    BY <1>7, <2>2, <2>3, SERestores
  <2>5. SEOn(st'.win, f) = SEOn(st.win, st.filtered)
    BY Zenon, <2>1, <2>4
  <2> QED
    BY Zenon, <1>6, <1>8, <2>5, SESelects DEF f
<1>9. ASSUME st.tab # "windows", SE!Selected(st) \in SE!Range(st'.rows)
      PROVE  SE!Selected(st') = SE!Selected(st)
  <2>. DEFINE f == st.rows
  <2>1. f \in Seq(ProviderRows)
    BY Zenon, SERowsAreSeqs DEF SEInv, SEGood
  <2>2. st'.prov = SE!Restore(SE!Preserve(st.prov, st.rows), f)
    BY Zenon, <1>2, <1>4, <1>9
  <2>. HIDE DEF f
  <2>3. Len(f) \in Nat /\ DOMAIN f = 1..Len(f) /\ SE!Cofi \notin SE!Range(f)
    BY <2>1 DEF RowsFit, SE!Range
  <2>4. SEOn(st.prov, st.rows) \in SE!Range(f)
    BY Zenon, <1>6, <1>9, SESelects DEF f
  <2>5. SEOn(SE!Restore(SE!Preserve(st.prov, st.rows), f), f) = SEOn(st.prov, st.rows)
    BY <1>7, <2>3, <2>4, SERestores
  <2>6. SEOn(st'.prov, f) = SEOn(st.prov, st.rows)
    BY Zenon, <2>2, <2>5
  <2> QED
    BY Zenon, <1>6, <1>9, <2>6, SESelects DEF f
<1>10. SE!KeepsSelected
  BY Zenon, <1>6, <1>8, <1>9 DEF SE!KeepsSelected
<1> QED
  BY <1>5, <1>10

(* New rows of a provider. *)
LEMMA SERefreshes == ASSUME RowsFit, SEInv, SE!Refresh PROVE SEInv' /\ SE!KeepsSelected
<1>1. PICK rows \in SE!RowLists :
          /\ st.tab = "provider"
          /\ st' = [st EXCEPT !.rows = rows, !.prov = SE!Restore(SE!Preserve(@, st.rows), rows)]
  BY DEF SE!Refresh
<1>. DEFINE p == SE!Restore(SE!Preserve(st.prov, st.rows), rows)
<1>2. DOMAIN st.prov = SEMark /\ DOMAIN SE!Preserve(st.prov, st.rows) = SEMark
  BY Zenon, SEMarks DEF SEInv, SEGood, SEShape
<1>3. DOMAIN p = SEMark
  BY Zenon, <1>2, SEMarks
<1>4. st' = [st EXCEPT !.rows = rows, !.prov = p]
  BY <1>1
<1>. HIDE DEF p
<1>5. /\ DOMAIN st' = SEFields /\ st'.prov = p /\ st'.rows = rows /\ st'.win = st.win
      /\ st'.told = st.told /\ st'.text = st.text /\ st'.command = st.command /\ st'.tab = st.tab
  BY <1>4 DEF SEInv, SEGood, SEShape, SEFields
<1>6. SEInv'
  BY <1>1, <1>3, <1>5 DEF SEInv, SEGood, SEShape
<1>7. rows \in Seq(ProviderRows)
  BY Zenon, SERowsAreSeqs
<1>8. Len(rows) \in Nat /\ DOMAIN rows = 1..Len(rows) /\ SE!Cofi \notin SE!Range(rows)
  BY <1>7 DEF RowsFit, SE!Range
<1>9. ASSUME SE!Selected(st) \in SE!Range(rows) PROVE SE!Selected(st') = SE!Selected(st)
  <2>1. SE!Selected(st) = SEOn(st.prov, st.rows)
    BY Zenon, <1>1, SESelects
  <2>2. SE!Selected(st') = SEOn(p, rows)
    BY Zenon, <1>1, <1>5, SESelects
  <2>3. SEOn(SE!Restore(SE!Preserve(st.prov, st.rows), rows), rows) = SEOn(st.prov, st.rows)
    BY <1>2, <1>8, <1>9, <2>1, SERestores
  <2> QED
    BY Zenon, <2>1, <2>2, <2>3 DEF p
<1>10. SE!KeepsSelected
  BY Zenon, <1>1, <1>5, <1>9 DEF SE!KeepsSelected
<1> QED
  BY <1>6, <1>10

(* The keys. *)
LEMMA SEResets == ASSUME NEW s, SEShape(s) PROVE SEFrame(s, SE!ResetSelection(s))
<1>1. PICK d : SE!ResetSelection(s) = [s EXCEPT !.win = [SE!AtTop EXCEPT !.id = d]]
               \/ SE!ResetSelection(s) = [s EXCEPT !.prov = SE!AtTop]
  BY DEF SE!ResetSelection
<1>. DEFINE w == [SE!AtTop EXCEPT !.id = d]
<1>2. DOMAIN w = SEMark /\ DOMAIN SE!AtTop = SEMark
  BY SETops
<1>. HIDE DEF w
<1> QED
  BY <1>1, <1>2 DEF SEFrame, SEShape, SEFields, w

LEMMA SEMoves ==
    ASSUME NEW c, DOMAIN c = SEMark, NEW list, NEW up
    PROVE  DOMAIN SE!Moved(c, list, up) = SEMark
<1>1. PICK i, d, n : SE!Moved(c, list, up) = c
                     \/ SE!Moved(c, list, up) = SE!Scrolled([c EXCEPT !.index = i, !.id = d], n)
  BY DEF SE!Moved
<1>. DEFINE m == [c EXCEPT !.index = i, !.id = d]
<1>2. DOMAIN m = SEMark
  OBVIOUS
<1>. HIDE DEF m
<1> QED
  BY <1>1, <1>2, SEScrolls DEF m

LEMMA SETypes ==
    ASSUME RowsFit, SEInv, NEW text, SE!Type(text)
    PROVE  SEInv' /\ SEQuiet(st, st')
<1>. DEFINE s == [st EXCEPT !.text = text]
<1>1. ~st.command /\ text # st.text
  BY DEF SE!Type
<1>2. /\ SEGood(s) /\ s.text = text /\ s.told = st.told /\ s.tab = st.tab /\ s.prov = st.prov
      /\ s.command = FALSE
  <2>1. st.command = FALSE
    BY Zenon, <1>1 DEF SEInv, SEGood
  <2> QED
    BY <2>1 DEF SEInv, SEGood, SEShape, SEFields
<1>3. \/ st' \in SE!FilterWindows(s, text)
      \/ \E rows \in SE!RowLists, c \in {SE!AtTop, SE!Preserve(s.prov, s.rows)} :
            st' = [s EXCEPT !.rows = rows, !.prov = SE!Restore(c, rows)]
  BY Zenon DEF SE!Type
<1>. HIDE DEF s
<1>4. CASE st' \in SE!FilterWindows(s, text)
  <2>1. SEFrame(s, st')
    BY Zenon, <1>2, <1>4, SEFilters DEF SEGood
  <2>2. SEGood(st')
    BY Zenon, <1>2, <2>1, SEFrames
  <2>3. st'.told = st.told /\ st'.text = text
    BY Zenon, <1>2, <2>1 DEF SEFrame
  <2> QED
    BY Zenon, <1>1, <2>2, <2>3 DEF SEInv, SEQuiet
<1>5. ASSUME NEW rows \in SE!RowLists, NEW c \in {SE!AtTop, SE!Preserve(s.prov, s.rows)},
             st' = [s EXCEPT !.rows = rows, !.prov = SE!Restore(c, rows)]
      PROVE  SEInv' /\ SEQuiet(st, st')
  <2>. DEFINE p == SE!Restore(c, rows)
  <2>1. DOMAIN SE!Preserve(s.prov, s.rows) = SEMark
    BY Zenon, <1>2, SEMarks DEF SEGood, SEShape
  <2>2. DOMAIN c = SEMark
    BY Zenon, <2>1, SETops, <1>5
  <2>3. DOMAIN p = SEMark
    BY Zenon, <2>2, SEMarks
  <2>. HIDE DEF p
  <2>4. st' = [s EXCEPT !.rows = rows, !.prov = p]
    BY Zenon, <1>5 DEF p
  <2>5. /\ DOMAIN st' = SEFields /\ st'.prov = p /\ st'.rows = rows /\ st'.win = s.win
        /\ st'.told = s.told /\ st'.text = s.text /\ st'.command = s.command
    BY <1>2, <2>4 DEF SEGood, SEShape, SEFields
  <2>6. SEGood(st')
    BY <1>2, <2>3, <2>5 DEF SEGood, SEShape
  <2> QED
    BY Zenon, <1>1, <1>2, <2>5, <2>6 DEF SEInv, SEQuiet
<1> QED
  BY Zenon, <1>3, <1>4, <1>5

LEMMA SEWalks == ASSUME SEInv, SE!MoveSelection PROVE SEInv' /\ SEQuiet(st, st')
<1>1. \E w : DOMAIN w = SEMark /\ (st' = [st EXCEPT !.win = w] \/ st' = [st EXCEPT !.prov = w])
  <2>1. PICK up \in BOOLEAN :
            \/ st' = [st EXCEPT !.win = SE!Moved(st.win, st.filtered, up)]
            \/ st' = [st EXCEPT !.prov = SE!Moved(st.prov, st.rows, up)]
    BY DEF SE!MoveSelection
  <2>2. /\ DOMAIN SE!Moved(st.win, st.filtered, up) = SEMark
        /\ DOMAIN SE!Moved(st.prov, st.rows, up) = SEMark
    BY Zenon, SEMoves DEF SEInv, SEGood, SEShape
  <2> QED
    BY Zenon, <2>1, <2>2
<1>2. SEFrame(st, st')
  BY <1>1 DEF SEInv, SEGood, SEFrame, SEShape, SEFields
<1> QED
  BY Zenon, <1>2, SEFrames DEF SEInv

(* What a switch, the window and a hotkey start from: no query, no rows. *)
LEMMA SEBlanks ==
    ASSUME NEW s, SEGood(s), NEW t, DOMAIN t = SEFields, t.text = "",
           t.command = s.command \/ t.command = FALSE, t.rows = <<>> \/ t.rows = s.rows,
           DOMAIN t.win = SEMark, DOMAIN t.prov = SEMark
    PROVE  SEGood(t)
BY SENoRows DEF SEGood, SEShape

LEMMA SESwitches == ASSUME RowsFit, SEInv, SE!SwitchTab PROVE SEInv' /\ SEQuiet(st, st')
<1>. DEFINE s == [st EXCEPT !.text = "", !.win = SE!AtTop, !.prov = SE!AtTop, !.rows = <<>>]
            w == [s EXCEPT !.tab = "windows"]
<1>1. /\ DOMAIN s = SEFields /\ s.text = "" /\ s.win = SE!AtTop /\ s.prov = SE!AtTop /\ s.rows = <<>>
      /\ s.command = st.command /\ s.told = st.told /\ s.tab = st.tab
  BY DEF SEInv, SEGood, SEShape, SEFields
<1>2. SEGood(s)
  BY Zenon, <1>1, SEBlanks, SETops DEF SEInv
<1>3. \/ s.tab = "windows" /\ st' = [s EXCEPT !.tab = "provider"]
      \/ s.tab # "windows" /\ \E t \in SE!FilterWindows(w, "") : st' = SE!ResetSelection(t)
  BY Zenon DEF SE!SwitchTab
<1>4. SEGood(w) /\ w.told = s.told /\ w.tab = "windows"
  BY <1>2 DEF SEGood, SEShape, SEFields
<1>. HIDE DEF s, w
<1>5. CASE s.tab = "windows" /\ st' = [s EXCEPT !.tab = "provider"]
  <2>1. SEGood(st') /\ st'.told = s.told /\ st'.tab = "provider"
    BY <1>2, <1>5 DEF SEGood, SEShape, SEFields
  <2> QED
    BY <1>1, <1>5, <2>1 DEF SEInv, SEQuiet
<1>6. ASSUME s.tab # "windows", NEW t \in SE!FilterWindows(w, ""), st' = SE!ResetSelection(t)
      PROVE  SEInv' /\ SEQuiet(st, st')
  <2>1. SEFrame(w, t)
    BY Zenon, <1>4, <1>6, SEFilters DEF SEGood
  <2>2. SEFrame(t, st')
    BY Zenon, <1>6, <2>1, SEResets DEF SEFrame
  <2>3. SEGood(st')
    BY Zenon, <1>4, <2>1, <2>2, SEFrames
  <2>4. st'.told = st.told /\ st'.tab = "windows" /\ st.tab # "windows"
    BY Zenon, <1>1, <1>4, <1>6, <2>1, <2>2 DEF SEFrame
  <2> QED
    BY Zenon, <2>3, <2>4 DEF SEInv, SEQuiet
<1> QED
  BY Zenon, <1>3, <1>5, <1>6

LEMMA SEShows == ASSUME RowsFit, SEInv, SE!Show PROVE SEInv' /\ SEQuiet(st, st')
<1>1. PICK wins : \E s : /\ s = [st EXCEPT !.tab = "windows", !.text = "", !.command = FALSE,
                                          !.rows = <<>>, !.wins = wins]
                         /\ st' \in SE!FilterWindows(SE!ResetSelection(s), "")
  BY DEF SE!Show
<1>2. PICK s : /\ s = [st EXCEPT !.tab = "windows", !.text = "", !.command = FALSE,
                               !.rows = <<>>, !.wins = wins]
               /\ st' \in SE!FilterWindows(SE!ResetSelection(s), "")
  BY <1>1
<1>3. /\ DOMAIN s = SEFields /\ s.text = "" /\ s.rows = <<>> /\ s.command = FALSE
      /\ s.told = st.told /\ s.tab = "windows" /\ s.win = st.win /\ s.prov = st.prov
  BY <1>2 DEF SEInv, SEGood, SEShape, SEFields
<1>4. SEGood(s)
  BY Zenon, <1>3, SEBlanks DEF SEInv, SEGood, SEShape
<1>. DEFINE r == SE!ResetSelection(s)
<1>5. SEFrame(s, r)
  BY Zenon, <1>4, SEResets DEF SEGood
<1>6. SEGood(r)
  BY Zenon, <1>4, <1>5, SEFrames
<1>7. SEFrame(r, st')
  BY Zenon, <1>2, <1>6, SEFilters DEF SEGood
<1>8. SEGood(st')
  BY Zenon, <1>6, <1>7, SEFrames
<1>. HIDE DEF r
<1>9. st'.told = st.told /\ st'.tab = "windows"
  BY Zenon, <1>3, <1>5, <1>7 DEF SEFrame
<1> QED
  BY Zenon, <1>8, <1>9 DEF SEInv, SEQuiet

LEMMA SERepeats == ASSUME RowsFit, SEInv, SE!Repeat PROVE SEInv' /\ SEQuiet(st, st')
<1>1. PICK t \in SE!FilterWindows(st, "q") : st' = [SE!ResetSelection(t) EXCEPT !.text = ""]
  BY DEF SE!Repeat
<1>2. st.tab = "windows"
  BY DEF SE!Repeat
<1>. DEFINE r == SE!ResetSelection(t)
<1>3. SEFrame(st, t)
  BY Zenon, SEFilters DEF SEInv, SEGood
<1>4. SEFrame(t, r)
  BY Zenon, <1>3, SEResets DEF SEFrame
<1>5. SEFrame(st, r)
  BY Zenon, <1>3, <1>4 DEF SEFrame
<1>6. SEGood(r)
  BY Zenon, <1>5, SEFrames DEF SEInv
<1>. HIDE DEF r
<1>7. st' = [r EXCEPT !.text = ""]
  BY Zenon, <1>1 DEF r
<1>8. /\ DOMAIN st' = SEFields /\ st'.text = "" /\ st'.command = r.command /\ st'.rows = r.rows
      /\ st'.told = r.told /\ st'.win = r.win /\ st'.prov = r.prov
  BY <1>6, <1>7 DEF SEGood, SEShape, SEFields
<1>9. SEGood(st')
  BY Zenon, <1>6, <1>8, SEBlanks DEF SEGood, SEShape
<1>10. st'.told = st.told
  BY Zenon, <1>5, <1>8 DEF SEFrame
<1> QED
  BY Zenon, <1>2, <1>9, <1>10 DEF SEInv, SEQuiet

LEMMA SECommands == ASSUME SEInv, SE!Command PROVE SEInv' /\ SEQuiet(st, st')
<1>1. PICK l \in BOOLEAN : st' = [st EXCEPT !.command = l]
  BY DEF SE!Command, SEInv, SEGood
<1>2. st.text = ""
  BY DEF SE!Command
<1>3. /\ DOMAIN st' = SEFields /\ st'.text = st.text /\ st'.command = l /\ st'.rows = st.rows
      /\ st'.told = st.told /\ st'.win = st.win /\ st'.prov = st.prov
  BY <1>1 DEF SEInv, SEGood, SEShape, SEFields
<1>4. SEInv'
  BY Zenon, <1>2, <1>3 DEF SEInv, SEGood, SEShape
<1> QED
  BY Zenon, <1>3, <1>4 DEF SEQuiet

LEMMA SEInits == ASSUME RowsFit, SE!Init PROVE SEInv
<1>1. PICK native \in BOOLEAN, wins \in {SE!SetToSeq(Ids \ S) : S \in SUBSET Coming} :
          st \in SE!FilterWindows([SE!Start(native) EXCEPT !.open = wins, !.wins = wins,
                                                          !.history = wins], "")
  BY Zenon DEF SE!Init
<1>. DEFINE s == [SE!Start(native) EXCEPT !.open = wins, !.wins = wins, !.history = wins]
<1>2. /\ DOMAIN s = SEFields /\ s.text = "" /\ s.command = FALSE /\ s.rows = <<>>
      /\ s.win = SE!AtTop /\ s.prov = SE!AtTop
  BY DEF SE!Start, SEFields
<1>3. st \in SE!FilterWindows(s, "")
  BY Zenon, <1>1
<1>. HIDE DEF s
<1>4. SEGood(s)
  BY Zenon, <1>2, SENoRows, SETops DEF SEGood, SEShape
<1>5. SEFrame(s, st)
  BY Zenon, <1>3, <1>4, SEFilters DEF SEGood
<1> QED
  BY Zenon, <1>4, <1>5, SEFrames DEF SEInv

LEMMA SESteps == ASSUME RowsFit, SEInv, SE!Next PROVE SEInv' /\ SE!KeepsSelected
<1>1. CASE \/ \E w \in Coming : SE!Map(w) \/ SE!Unmap(w)
           \/ \E w \in SE!Range(st.open) \cup {SE!Cofi} : SE!Activate(w)
           \/ SE!OnActiveWindow
  BY Zenon, <1>1, SEServer, SEQuietKeeps
<1>2. CASE SE!OnClientList
  BY Zenon, <1>2, SELists
<1>3. CASE SE!Refresh
  BY Zenon, <1>3, SERefreshes
<1>4. CASE \E q \in {"", "q"} : SE!Type(q)
  BY Zenon, <1>4, SETypes, SEQuietKeeps
<1>5. CASE SE!MoveSelection
  BY Zenon, <1>5, SEWalks, SEQuietKeeps
<1>6. CASE SE!SwitchTab
  BY Zenon, <1>6, SESwitches, SEQuietKeeps
<1>7. CASE SE!Show
  BY Zenon, <1>7, SEShows, SEQuietKeeps
<1>8. CASE SE!Repeat
  BY Zenon, <1>8, SERepeats, SEQuietKeeps
<1>9. CASE SE!Command
  BY Zenon, <1>9, SECommands, SEQuietKeeps
<1> QED
  BY Zenon, <1>1, <1>2, <1>3, <1>4, <1>5, <1>6, <1>7, <1>8, <1>9 DEF SE!Next

OnSelection == part = "selection"

(* A change of the window list while a query stands, and new rows of a      *)
(* provider, leave the selection on the window or row it was on             *)
(* (selection.c: preserve_selection, restore_selection).                    *)
THEOREM SelectionIsKept == ASSUME RowsFit PROVE Spec => KeepsSelected
<1>1. Init => (OnSelection => SEInv)
  BY Zenon, SEInits DEF Init, OnSelection
<1>2. (OnSelection => SEInv) /\ [Next]_vars => (OnSelection => SEInv)'
  <2>1. ASSUME SEInv, OnSelection, Next PROVE SEInv'
    <3>1. SE!Next
      BY Zenon, <2>1 DEF Next, OnSelection
    <3> QED
      BY Zenon, <2>1, <3>1, SESteps
  <2>2. ASSUME ~OnSelection, Next PROVE ~OnSelection'
    BY Zenon, <2>2 DEF Next, OnSelection
  <2>3. ASSUME UNCHANGED vars PROVE (SEInv => SEInv') /\ (OnSelection' = OnSelection)
    BY Zenon, <2>3 DEF vars, SEInv, OnSelection
  <2> QED
    BY <2>1, <2>2, <2>3
<1>3. (OnSelection => SEInv) /\ [Next]_vars => [part = "selection" => SE!KeepsSelected]_vars
  <2>1. ASSUME SEInv, OnSelection, Next PROVE SE!KeepsSelected
    <3>1. SE!Next
      BY Zenon, <2>1 DEF Next, OnSelection
    <3> QED
      BY Zenon, <2>1, <3>1, SESteps
  <2> QED
    BY Zenon, <2>1 DEF OnSelection
<1> QED
  BY <1>1, <1>2, <1>3, PTL DEF Spec, KeepsSelected

-----------------------------------------------------------------------------
(* The selection: the history has each window of the list once. *)

LEMMA SEOps ==
    ASSUME NEW f, NEW S
    PROVE  /\ SE!Range(f) = Elements(f) /\ SE!Cardinality(S) = Cardinality(S)
           /\ SE!Picked(f, S) = Picked(f, S)
           /\ SE!Within(f, S) = Within(f, S) /\ SE!Without(f, S) = Without(f, S)
<1>1. SE!Range(f) = Elements(f)
  BY Zenon DEF SE!Range, Elements
<1>2. \A T : SE!Cardinality(T) = Cardinality(T)
  BY Zenon DEF SE!Cardinality, Cardinality
<1>3. \A T, n : SE!Nth(T, n) = Nth(T, n)
  BY Zenon, <1>2 DEF SE!Nth, Nth
<1>4. \A T : SE!Picked(f, T) = Picked(f, T)
  BY Zenon, <1>2, <1>3 DEF SE!Picked, Picked
<1>5. SE!Within(f, S) = Within(f, S) /\ SE!Without(f, S) = Without(f, S)
  BY Zenon, <1>4 DEF SE!Within, Within, SE!Without, Without
<1> QED
  BY Zenon, <1>1, <1>2, <1>4, <1>5

LEMMA SEArranged ==
    ASSUME NEW S, IsFiniteSet(S), NEW f \in SE!SetToSeqs(S)
    PROVE  Listed(f) /\ Elements(f) = S
<1>1. f \in [1..Cardinality(S) -> S] /\ \A m, n \in 1..Cardinality(S) : m # n => f[m] # f[n]
  BY Zenon, SEOps DEF SE!SetToSeqs
<1> QED
  BY <1>1, Arranged

LEMMA SEListed == ASSUME NEW f, Listed(f) PROVE f \in SE!SetToSeqs(SE!Range(f))
<1>1. Cardinality(Elements(f)) = Len(f)
  BY Counted
<1>2. f \in [1..Len(f) -> Elements(f)] /\ DOMAIN f = 1..Len(f)
  BY DEF Listed
<1>3. \A m, n \in 1..Len(f) : m # n => f[m] # f[n]
  BY <1>2 DEF Listed
<1> QED
  BY Zenon, <1>1, <1>2, <1>3, SEOps DEF SE!SetToSeqs

(* update_history *)
LEMMA SEUpdates ==
    ASSUME NEW s, Listed(s.wins), Listed(s.history)
    PROVE  \E k, h : /\ SE!UpdateHistory(s) = [s EXCEPT !.known = k, !.history = h]
                     /\ Listed(h) /\ Elements(h) = Elements(s.wins)
<1>. DEFINE kept == Within(s.history, Elements(s.wins))
            new == Without(s.wins, Elements(kept))
            all == kept \o new
            rest == Without(all, {s.active})
            front == <<s.active>> \o rest
            changed == s.active # s.known /\ s.active \in Elements(all)
            h == IF changed THEN front ELSE all
<1>1. SE!UpdateHistory(s) = [s EXCEPT !.known = s.active, !.history = h]
  BY Zenon, SEOps DEF SE!UpdateHistory
<1>2. Listed(kept) /\ Elements(kept) = Elements(s.history) \cap Elements(s.wins)
  BY Zenon, WithinListed
<1>. HIDE DEF kept
<1>3. Listed(new) /\ Elements(new) = Elements(s.wins) \ Elements(kept)
  BY Zenon, WithinListed
<1>. HIDE DEF new
<1>4. Elements(kept) \cap Elements(new) = {} /\ Elements(kept) \cup Elements(new) = Elements(s.wins)
  BY <1>2, <1>3
<1>5. Listed(all) /\ Elements(all) = Elements(s.wins)
  BY Zenon, <1>2, <1>3, <1>4, JoinsListed
<1>. HIDE DEF all
<1>6. Listed(rest) /\ Elements(rest) = Elements(all) \ {s.active}
  BY Zenon, <1>5, WithinListed
<1>. HIDE DEF rest
<1>7. Listed(<<s.active>>) /\ Elements(<<s.active>>) = {s.active}
  BY DEF Listed, Elements
<1>8. ASSUME changed PROVE Listed(front) /\ Elements(front) = Elements(s.wins)
  <2>1. {s.active} \cap Elements(rest) = {} /\ {s.active} \cup Elements(rest) = Elements(s.wins)
    BY <1>5, <1>6, <1>8
  <2> QED
    BY Zenon, <1>6, <1>7, <2>1, JoinsListed
<1>9. Listed(h) /\ Elements(h) = Elements(s.wins)
  BY Zenon, <1>5, <1>8
<1>. HIDE DEF h
<1> QED
  BY Zenon, <1>1, <1>9

(* partition_and_reorder *)
SEClass(w, current) ==
    IF Kind[w].desktop = SE!Sticky THEN 5
    ELSE (IF Kind[w].normal THEN 1 ELSE 3) + (IF Kind[w].desktop = current THEN 0 ELSE 1)
SELater(h, current, c) == Picked(h, {n \in 3..Len(h) : SEClass(h[n], current) = c})

LEMMA SEParts ==
    ASSUME NEW h, Listed(h), NEW d
    PROVE  /\ Listed(SE!PartitionAndReorder(h, d))
           /\ Elements(SE!PartitionAndReorder(h, d)) = Elements(h)
<1>. DEFINE late(c) == {n \in 3..Len(h) : SEClass(h[n], d) = c}
            E(c) == {h[n] : n \in late(c)}
            two == SubSeq(h, 1, 2)
            p == two \o SELater(h, d, 1) \o SELater(h, d, 2) \o SELater(h, d, 3)
                 \o SELater(h, d, 4) \o SELater(h, d, 5)
<1>1. SE!PartitionAndReorder(h, d) = IF Len(h) <= 2 THEN h ELSE p
  BY Zenon, SEOps DEF SE!PartitionAndReorder, SEClass, SELater
<1>2. SUFFICES ASSUME ~(Len(h) <= 2) PROVE Listed(p) /\ Elements(p) = Elements(h)
  BY Zenon, <1>1
<1>3. Len(h) \in Nat /\ DOMAIN h = 1..Len(h) /\ Len(h) >= 3
  BY <1>2 DEF Listed
<1>4. two \in Seq(Elements(h)) /\ Len(two) = 2 /\ two[1] = h[1] /\ two[2] = h[2]
  <2>1. \A n \in 1..2 : h[n] \in Elements(h)
    BY <1>3 DEF Elements
  <2> QED
    BY <1>3, <2>1, SubSeqProperties
<1>5. Listed(two) /\ Elements(two) = {h[1], h[2]}
  <2>. HIDE DEF two
  <2>1. DOMAIN two = 1..2 /\ \A n \in 1..2 : n = 1 \/ n = 2
    BY <1>4
  <2>2. Elements(two) = {h[1], h[2]}
    BY <1>4, <2>1 DEF Elements
  <2>3. two \in Seq(Elements(two))
    BY <1>4, <2>1, <2>2
  <2>4. h[1] # h[2]
    BY <1>3 DEF Listed
  <2> QED
    BY <1>4, <2>1, <2>2, <2>3, <2>4 DEF Listed
<1>6. \A c \in 1..5 : Listed(SELater(h, d, c)) /\ Elements(SELater(h, d, c)) = E(c)
  <2>1. ASSUME NEW c \in 1..5 PROVE late(c) \subseteq DOMAIN h
    BY <1>3
  <2> QED
    BY Zenon, <2>1, PicksListed DEF SELater
<1>7. \A w : SEClass(w, d) \in 1..5
  BY DEF SEClass
<1>8. \A b, c \in 1..5 : b # c => E(b) \cap E(c) = {}
  BY DEF SEClass
<1>9. \A c \in 1..5 : {h[1], h[2]} \cap E(c) = {}
  BY <1>3 DEF Listed
<1>10. Elements(h) = {h[1], h[2]} \cup E(1) \cup E(2) \cup E(3) \cup E(4) \cup E(5)
  <2>1. ASSUME NEW n \in 3..Len(h) PROVE \E c \in 1..5 : h[n] \in E(c)
    BY <1>7
  <2>2. ASSUME NEW c \in 1..5, NEW w \in E(c) PROVE \E n \in 1..Len(h) : h[n] = w
    BY <1>3
  <2>3. \A n \in 1..Len(h) : n = 1 \/ n = 2 \/ n \in 3..Len(h)
    BY <1>3
  <2>4. \A c \in 1..5 : c \in {1, 2, 3, 4, 5}
    OBVIOUS
  <2>5. Elements(h) = {h[n] : n \in 1..Len(h)} /\ h[1] \in Elements(h) /\ h[2] \in Elements(h)
    BY <1>3 DEF Elements
  <2>. HIDE DEF E
  <2>6. ASSUME NEW w \in Elements(h) PROVE w \in {h[1], h[2]} \cup E(1) \cup E(2) \cup E(3) \cup E(4) \cup E(5)
    <3>1. PICK n \in 1..Len(h) : h[n] = w
      BY <2>5
    <3>2. CASE n \in 3..Len(h)
      <4>1. PICK c \in 1..5 : h[n] \in E(c)
        BY <2>1, <3>2
      <4>2. c \in {1, 2, 3, 4, 5}
        BY <2>4
      <4> QED
        BY Zenon, <3>1, <4>1, <4>2
    <3> QED
      BY Zenon, <2>3, <3>1, <3>2
  <2>7. ASSUME NEW c \in {1, 2, 3, 4, 5} PROVE E(c) \subseteq Elements(h)
    BY <2>2, <2>5
  <2>8. E(1) \cup E(2) \cup E(3) \cup E(4) \cup E(5) \subseteq Elements(h)
    BY Zenon, <2>7
  <2> QED
    BY Zenon, <2>5, <2>6, <2>8
<1>. HIDE DEF E, late, two
<1>. DEFINE p1 == two \o SELater(h, d, 1)  p2 == p1 \o SELater(h, d, 2)
            p3 == p2 \o SELater(h, d, 3)  p4 == p3 \o SELater(h, d, 4)
<1>11. Listed(p1) /\ Elements(p1) = {h[1], h[2]} \cup E(1)
  <2>1. Listed(SELater(h, d, 1)) /\ Elements(SELater(h, d, 1)) = E(1) /\ {h[1], h[2]} \cap E(1) = {}
    BY <1>6, <1>9
  <2> QED
    BY Zenon, <1>5, <2>1, JoinsListed
<1>. HIDE DEF p1
<1>12. Listed(p2) /\ Elements(p2) = {h[1], h[2]} \cup E(1) \cup E(2)
  <2>1. Listed(SELater(h, d, 2)) /\ Elements(SELater(h, d, 2)) = E(2)
        /\ ({h[1], h[2]} \cup E(1)) \cap E(2) = {}
    BY <1>6, <1>8, <1>9
  <2> QED
    BY Zenon, <1>11, <2>1, JoinsListed
<1>. HIDE DEF p2
<1>13. Listed(p3) /\ Elements(p3) = {h[1], h[2]} \cup E(1) \cup E(2) \cup E(3)
  <2>1. Listed(SELater(h, d, 3)) /\ Elements(SELater(h, d, 3)) = E(3)
        /\ ({h[1], h[2]} \cup E(1) \cup E(2)) \cap E(3) = {}
    BY <1>6, <1>8, <1>9
  <2> QED
    BY Zenon, <1>12, <2>1, JoinsListed
<1>. HIDE DEF p3
<1>14. Listed(p4) /\ Elements(p4) = {h[1], h[2]} \cup E(1) \cup E(2) \cup E(3) \cup E(4)
  <2>1. Listed(SELater(h, d, 4)) /\ Elements(SELater(h, d, 4)) = E(4)
        /\ ({h[1], h[2]} \cup E(1) \cup E(2) \cup E(3)) \cap E(4) = {}
    BY <1>6, <1>8, <1>9
  <2> QED
    BY Zenon, <1>13, <2>1, JoinsListed
<1>. HIDE DEF p4
<1>15. Listed(p4 \o SELater(h, d, 5)) /\ Elements(p4 \o SELater(h, d, 5)) = Elements(h)
  <2>1. Listed(SELater(h, d, 5)) /\ Elements(SELater(h, d, 5)) = E(5)
        /\ ({h[1], h[2]} \cup E(1) \cup E(2) \cup E(3) \cup E(4)) \cap E(5) = {}
    BY <1>6, <1>8, <1>9
  <2> QED
    BY Zenon, <1>10, <1>14, <2>1, JoinsListed
<1> QED
  BY Zenon, <1>15 DEF p1, p2, p3, p4

(* Where the marker may be: on a row, on the identity the row has, and the  *)
(* offset on a full screen.                                                 *)
SEMarked(c, list) ==
    /\ c.index \in Nat /\ c.offset \in Nat
    /\ list # <<>> => c.index < Len(list)
    /\ c.offset <= SE!Upper(0, Len(list) - ScreenLines)
SENamed(c, list) == list # <<>> => c.id = list[c.index + 1]

LEMMA SEScrollsTo ==
    ASSUME RowsFit, NEW c, DOMAIN c = SEMark, c.index \in Nat, c.offset \in Nat, NEW n \in Nat
    PROVE  SE!Scrolled(c, n).offset \in Nat /\ SE!Scrolled(c, n).offset <= SE!Upper(0, n - ScreenLines)
<1>1. ScreenLines \in Nat
  BY DEF RowsFit
<1>2. PICK o \in Nat : SE!Scrolled(c, n) = [c EXCEPT !.offset = o] /\ o <= SE!Upper(0, n - ScreenLines)
  <2>. DEFINE seen == IF c.index < c.offset THEN c.index
                      ELSE IF c.index >= c.offset + ScreenLines THEN c.index - ScreenLines + 1 ELSE c.offset
              o == IF n <= ScreenLines THEN 0 ELSE SE!Lower(SE!Upper(seen, 0), n - ScreenLines)
  <2>1. SE!Scrolled(c, n) = [c EXCEPT !.offset = o]
    BY DEF SE!Scrolled
  <2>2. seen \in Int
    BY <1>1
  <2>. HIDE DEF seen
  <2>3. o \in Nat /\ o <= SE!Upper(0, n - ScreenLines)
    BY <1>1, <2>2 DEF SE!Lower, SE!Upper
  <2> QED
    BY <2>1, <2>3
<1> QED
  BY <1>2 DEF SEMark

LEMMA SEFindsOrNot ==
    ASSUME NEW B, NEW f \in Seq(B), NEW id
    PROVE  SEAt(f, id) \in 0..Len(f) /\ (SEAt(f, id) > 0 => f[SEAt(f, id)] = id)
<1>1. Len(f) \in Nat /\ DOMAIN f = 1..Len(f)
  OBVIOUS
<1>2. CASE id \in SE!Range(f)
  BY <1>1, <1>2, SEFinds
<1>3. CASE id \notin SE!Range(f)
  <2>1. {i \in 1..Len(f) : f[i] = id} = {}
    BY <1>1, <1>3, SEOps DEF Elements
  <2>2. SEAt(f, id) = 0
    BY Zenon, <2>1 DEF SEAt, SE!SelectInSeq
  <2> QED
    BY <1>1, <2>2
<1> QED
  BY <1>2, <1>3

LEMMA SERestoresTo ==
    ASSUME RowsFit, NEW B, NEW f \in Seq(B), NEW c, DOMAIN c = SEMark, c.offset \in Nat
    PROVE  SEMarked(SE!Restore(c, f), f) /\ SENamed(SE!Restore(c, f), f)
<1>. DEFINE at == SEAt(f, c.id)
            m == IF at > 0 THEN [c EXCEPT !.index = at - 1]
                 ELSE [c EXCEPT !.index = 0, !.id = SE!FirstId(f)]
            r == SE!Scrolled(m, Len(f))
<1>1. SE!Restore(c, f) = r
  <2>1. SE!Restore(c, f) = SEMarkAt(c, f, at)
    BY Zenon DEF SE!Restore, SEAt, SEMarkAt
  <2> QED
    BY Zenon, <2>1 DEF SEMarkAt
<1>2. at \in 0..Len(f) /\ (at > 0 => f[at] = c.id) /\ Len(f) \in Nat
  BY SEFindsOrNot
<1>. HIDE DEF at
<1>3. /\ DOMAIN m = SEMark /\ m.index \in Nat /\ m.offset \in Nat
      /\ f # <<>> => m.index < Len(f) /\ m.id = f[m.index + 1]
  <2>1. CASE at > 0
    <3>1. DOMAIN m = SEMark /\ m.index = at - 1 /\ m.offset = c.offset /\ m.id = c.id
      BY <2>1 DEF SEMark
    <3>2. at - 1 \in Nat /\ at - 1 < Len(f) /\ (at - 1) + 1 = at
      BY <1>2, <2>1
    <3>. HIDE DEF m
    <3> QED
      BY <1>2, <2>1, <3>1, <3>2
  <2>2. CASE ~(at > 0)
    <3>1. DOMAIN m = SEMark /\ m.index = 0 /\ m.offset = c.offset /\ m.id = SE!FirstId(f)
      BY <2>2 DEF SEMark
    <3>2. f # <<>> => 0 < Len(f) /\ SE!FirstId(f) = f[1]
      BY DEF SE!FirstId
    <3>. HIDE DEF m
    <3> QED
      BY <3>1, <3>2
  <2> QED
    BY <2>1, <2>2
<1>. HIDE DEF m
<1>4. r.index = m.index /\ r.id = m.id
  BY <1>3, SEScrolls
<1>5. r.offset \in Nat /\ r.offset <= SE!Upper(0, Len(f) - ScreenLines)
  BY <1>2, <1>3, SEScrollsTo
<1>. HIDE DEF r
<1> QED
  BY <1>1, <1>3, <1>4, <1>5 DEF SEMarked, SENamed

(* apply_native_stacking_order, partition_and_reorder *)
LEMMA SEOrdersAll ==
    ASSUME NEW u, SEShape(u), Listed(u.history), NEW t \in SE!Ordered(u)
    PROVE  \E h : t = [u EXCEPT !.history = h] /\ Listed(h) /\ Elements(h) = Elements(u.history)
<1>1. \/ \E h \in SE!SetToSeqs(SE!Range(u.history)) : t = [u EXCEPT !.history = h]
      \/ \E d \in SE!Desktops : t = [u EXCEPT !.history = SE!PartitionAndReorder(u.history, d)]
  BY Zenon DEF SE!Ordered
<1>2. ASSUME NEW h \in SE!SetToSeqs(SE!Range(u.history)) PROVE Listed(h) /\ Elements(h) = Elements(u.history)
  <2>1. IsFiniteSet(Elements(u.history)) /\ h \in SE!SetToSeqs(Elements(u.history))
    BY Zenon, Counted, SEOps
  <2> QED
    BY Zenon, <2>1, SEArranged
<1> QED
  BY Zenon, <1>1, <1>2, SEParts

(* score_and_filter_windows *)
LEMMA SEFiltersAll ==
    ASSUME NEW u, Listed(u.history), NEW query, NEW f \in SE!Filtered(u, query)
    PROVE  Listed(f) /\ Elements(f) \subseteq Elements(u.history)
<1>1. CASE query # ""
  <2>. DEFINE S == Elements(u.history) \cap Matching
  <2>1. f \in SE!SetToSeqs(S)
    BY Zenon, <1>1, SEOps DEF SE!Filtered
  <2>2. IsFiniteSet(S)
    BY Counted, FS_Intersection
  <2>3. Listed(f) /\ Elements(f) = S
    BY Zenon, <2>1, <2>2, SEArranged
  <2> QED
    BY <2>3
<1>2. CASE ~(query # "")
  <2>. DEFINE N == {w \in Elements(u.history) : Kind[w].normal}
              a == Within(u.history, N)  b == Without(u.history, N)
  <2>1. f = a \o b
    BY Zenon, <1>2, SEOps DEF SE!Filtered
  <2>2. /\ Listed(a) /\ Elements(a) = Elements(u.history) \cap N
        /\ Listed(b) /\ Elements(b) = Elements(u.history) \ N
    BY Zenon, WithinListed
  <2>. HIDE DEF a, b, N
  <2>3. Elements(a) \cap Elements(b) = {} /\ Elements(a) \cup Elements(b) = Elements(u.history)
    BY <2>2
  <2>4. Listed(a \o b) /\ Elements(a \o b) = Elements(u.history)
    BY Zenon, <2>2, <2>3, JoinsListed
  <2> QED
    BY Zenon, <2>1, <2>4
<1> QED
  BY <1>1, <1>2

(* filter_windows, whatever was there before.                               *)
SEHistories(s) ==
    /\ Listed(s.open) /\ Listed(s.wins) /\ Listed(s.history) /\ Listed(s.filtered)
    /\ Elements(s.history) = Elements(s.wins) /\ Elements(s.filtered) \subseteq Elements(s.history)
SEOffsets(s) == s.win.offset \in Nat /\ s.prov.offset \in Nat
SEOnRow(s) ==
    /\ s.tab = "windows" => SEMarked(s.win, s.filtered) /\ SENamed(s.win, s.filtered)
    /\ s.tab # "windows" => SEMarked(s.prov, s.rows)

LEMMA SEPreserved ==
    ASSUME NEW c, DOMAIN c = SEMark, NEW list
    PROVE  SE!Preserve(c, list).offset = c.offset /\ SE!Preserve(c, list).index = c.index
BY DEF SE!Preserve, SEMark

LEMMA SEFiltersTo ==
    ASSUME RowsFit, NEW s, SEGood(s), Listed(s.open), Listed(s.wins), Listed(s.history), SEOffsets(s),
           NEW query, NEW t \in SE!FilterWindows(s, query)
    PROVE  /\ SEHistories(t) /\ SEOffsets(t) /\ SEOnRow(t) /\ t.open = s.open /\ t.wins = s.wins
<1>. DEFINE k == SEKept(s)
<1>1. SE!FilterWindows(s, query)
      = UNION {{SE!AltTab(SERestored([u EXCEPT !.filtered = f]), query) : f \in SE!Filtered(u, query)} :
               u \in SE!Ordered(SE!UpdateHistory(SEKept(s)))}
  BY Zenon DEF SE!FilterWindows, SEKept, SERestored
<1>2. PICK u \in SE!Ordered(SE!UpdateHistory(k)) : \E f \in SE!Filtered(u, query) :
          t = SE!AltTab(SERestored([u EXCEPT !.filtered = f]), query)
  BY Zenon, <1>1
<1>3. PICK f \in SE!Filtered(u, query) : t = SE!AltTab(SERestored([u EXCEPT !.filtered = f]), query)
  BY <1>2
<1>4. /\ SEShape(k) /\ k.open = s.open /\ k.wins = s.wins /\ k.history = s.history
      /\ k.tab = s.tab /\ k.rows = s.rows /\ SEOffsets(k)
  <2>. DEFINE w == SE!Preserve(s.win, s.filtered)  p == SE!Preserve(s.prov, s.rows)
  <2>1. /\ DOMAIN w = SEMark /\ DOMAIN p = SEMark /\ w.offset = s.win.offset /\ p.offset = s.prov.offset
    BY Zenon, SEMarks, SEPreserved DEF SEGood, SEShape
  <2>2. k = IF s.tab = "windows" THEN [s EXCEPT !.win = w] ELSE [s EXCEPT !.prov = p]
    BY DEF SEKept
  <2>. HIDE DEF w, p, k
  <2> QED
    BY <2>1, <2>2 DEF SEGood, SEShape, SEFields, SEOffsets
<1>. HIDE DEF k
<1>5. PICK n, h : SE!UpdateHistory(k) = [k EXCEPT !.known = n, !.history = h]
                  /\ Listed(h) /\ Elements(h) = Elements(k.wins)
  <2>1. Listed(k.wins) /\ Listed(k.history)
    BY Zenon, <1>4
  <2>2. \E n, h : SE!UpdateHistory(k) = [k EXCEPT !.known = n, !.history = h]
                  /\ Listed(h) /\ Elements(h) = Elements(k.wins)
    BY Zenon, <2>1, SEUpdates
  <2> QED
    BY Zenon, <2>2
<1>. DEFINE y == [k EXCEPT !.known = n, !.history = h]
<1>6. /\ SEShape(y) /\ y.open = s.open /\ y.wins = s.wins /\ y.history = h
      /\ y.tab = s.tab /\ y.rows = s.rows /\ SEOffsets(y)
  BY <1>4 DEF SEShape, SEFields, SEOffsets
<1>7. u \in SE!Ordered(y)
  BY Zenon, <1>5
<1>. HIDE DEF y
<1>8. PICK o : u = [y EXCEPT !.history = o] /\ Listed(o) /\ Elements(o) = Elements(y.history)
  BY Zenon, <1>5, <1>6, <1>7, SEOrdersAll
<1>9. /\ SEShape(u) /\ u.open = s.open /\ u.wins = s.wins /\ u.history = o
      /\ u.tab = s.tab /\ u.rows = s.rows /\ SEOffsets(u)
  BY <1>6, <1>8 DEF SEShape, SEFields, SEOffsets
<1>10. Listed(o) /\ Elements(o) = Elements(s.wins)
  BY Zenon, <1>4, <1>5, <1>6, <1>8
<1>11. Listed(f) /\ Elements(f) \subseteq Elements(o)
  BY Zenon, <1>9, <1>10, SEFiltersAll
<1>. DEFINE v == [u EXCEPT !.filtered = f]
<1>12. /\ SEShape(v) /\ v.open = s.open /\ v.wins = s.wins /\ v.history = o /\ v.filtered = f
       /\ v.tab = s.tab /\ v.rows = s.rows /\ SEOffsets(v)
  BY <1>9 DEF SEShape, SEFields, SEOffsets
<1>. DEFINE r == SERestored(v)
<1>13. t = SE!AltTab(r, query)
  BY Zenon, <1>3
<1>. HIDE DEF v
<1>. DEFINE w == SE!Restore(v.win, v.filtered)  p == SE!Restore(v.prov, v.rows)
<1>14. r = IF v.tab = "windows" THEN [v EXCEPT !.win = w] ELSE [v EXCEPT !.prov = p]
  BY DEF SERestored
<1>15. DOMAIN w = SEMark /\ DOMAIN p = SEMark
  BY Zenon, <1>12, SEMarks DEF SEShape
<1>16. SEMarked(w, v.filtered) /\ SENamed(w, v.filtered)
  BY Zenon, <1>11, <1>12, SERestoresTo DEF Listed, SEShape, SEOffsets
<1>17. SEMarked(p, v.rows) /\ SENamed(p, v.rows)
  <2>1. v.rows \in Seq(ProviderRows)
    BY Zenon, <1>12, SERowsAreSeqs DEF SEGood
  <2> QED
    BY Zenon, <1>12, <2>1, SERestoresTo DEF SEShape, SEOffsets
<1>18. w.offset \in Nat /\ p.offset \in Nat
  BY <1>16, <1>17 DEF SEMarked
<1>. HIDE DEF w, p, r
<1>19. /\ SEShape(r) /\ r.open = s.open /\ r.wins = s.wins /\ r.history = o /\ r.filtered = f
       /\ r.tab = s.tab /\ r.rows = s.rows /\ SEOffsets(r)
       /\ s.tab = "windows" => r.win = w
       /\ s.tab # "windows" => r.prov = p
  BY <1>12, <1>14, <1>15, <1>18 DEF SEShape, SEFields, SEOffsets
<1>20. SEOnRow(r)
  BY <1>12, <1>16, <1>17, <1>19 DEF SEOnRow
<1>21. \/ t = r
       \/ r.tab = "windows" /\ Len(r.filtered) >= 2 /\ t = [r EXCEPT !.win.index = 1, !.win.id = r.filtered[2]]
  BY Zenon, <1>13 DEF SE!AltTab
<1>22. /\ t.open = s.open /\ t.wins = s.wins /\ t.history = o /\ t.filtered = f /\ t.tab = s.tab
       /\ t.rows = s.rows /\ t.prov = r.prov /\ t.win.offset = r.win.offset
       /\ t = r \/ (r.tab = "windows" /\ Len(f) >= 2 /\ t.win.index = 1 /\ t.win.id = f[2])
  <2>. DEFINE q == [r.win EXCEPT !.index = 1, !.id = f[2]]
  <2>1. CASE t = r
    BY <1>19, <2>1
  <2>2. CASE r.tab = "windows" /\ Len(r.filtered) >= 2 /\ t = [r EXCEPT !.win.index = 1, !.win.id = r.filtered[2]]
    <3>1. t = [r EXCEPT !.win = q]
      BY <1>19, <2>2 DEF SEShape, SEFields, SEMark
    <3>2. q.index = 1 /\ q.id = f[2] /\ q.offset = r.win.offset
      BY <1>19 DEF SEShape, SEMark
    <3>. HIDE DEF q
    <3>3. t.win = q /\ t.prov = r.prov /\ t.open = r.open /\ t.wins = r.wins /\ t.history = r.history
          /\ t.filtered = r.filtered /\ t.tab = r.tab /\ t.rows = r.rows
      BY <1>19, <3>1 DEF SEShape, SEFields
    <3> QED
      BY <1>19, <2>2, <3>2, <3>3
  <2> QED
    BY Zenon, <1>21, <2>1, <2>2
<1>23. SEHistories(t)
  BY Zenon, <1>10, <1>11, <1>22 DEF SEHistories
<1>24. SEOffsets(t)
  BY <1>19, <1>22 DEF SEOffsets
<1>25. SEOnRow(t)
  <2>1. CASE t = r
    BY <1>20, <2>1
  <2>2. CASE r.tab = "windows" /\ Len(f) >= 2 /\ t.win.index = 1 /\ t.win.id = f[2]
    <3>1. SEMarked(r.win, f) /\ t.tab = "windows" /\ t.filtered = f
      BY <1>19, <1>20, <1>22, <2>2 DEF SEOnRow
    <3>2. Len(f) \in Nat
      BY <1>11 DEF Listed
    <3>3. SEMarked(t.win, f) /\ SENamed(t.win, f)
      BY <1>22, <2>2, <3>1, <3>2 DEF SEMarked, SENamed
    <3> QED
      BY <3>1, <3>3 DEF SEOnRow
  <2> QED
    BY <1>22, <2>1, <2>2
<1> QED
  BY <1>22, <1>23, <1>24, <1>25

(* What holds between the steps.                                            *)
SERows(s) ==
    /\ SEGood(s) /\ SEHistories(s) /\ SEOffsets(s) /\ SEOnRow(s)
    /\ "list" \notin s.told => Elements(s.wins) = Elements(s.open)
    /\ s.tab \in {"windows", "provider"}
SERowsInv == SERows(st)

LEMMA SERowsFiltered ==
    ASSUME RowsFit, NEW s, SEGood(s), Listed(s.open), Listed(s.wins), Listed(s.history), SEOffsets(s),
           "list" \notin s.told => Elements(s.wins) = Elements(s.open),
           s.tab \in {"windows", "provider"},
           NEW query, NEW t \in SE!FilterWindows(s, query)
    PROVE  SERows(t) /\ t.tab = s.tab
<1>1. SEFrame(s, t)
  BY Zenon, SEFilters DEF SEGood
<1>2. SEGood(t)
  BY Zenon, <1>1, SEFrames
<1>3. SEHistories(t) /\ SEOffsets(t) /\ SEOnRow(t) /\ t.open = s.open /\ t.wins = s.wins
  BY Zenon, SEFiltersTo
<1> QED
  BY Zenon, <1>1, <1>2, <1>3 DEF SERows, SEFrame

LEMMA SERowsKept ==
    ASSUME NEW s, SERows(s), NEW t, SEGood(t), Listed(t.open),
           t.wins = s.wins, t.history = s.history, t.filtered = s.filtered,
           t.tab = s.tab, t.rows = s.rows, t.win = s.win, t.prov = s.prov,
           "list" \notin t.told => "list" \notin s.told /\ t.open = s.open
    PROVE  SERows(t)
<1>1. SEHistories(t)
  BY Zenon DEF SERows, SEHistories
<1>2. SEOffsets(t) /\ SEOnRow(t)
  BY Zenon DEF SERows, SEOffsets, SEOnRow
<1> QED
  BY Zenon, <1>1, <1>2 DEF SERows

LEMMA SERowsServer ==
    ASSUME SERowsInv,
           \/ \E w \in Coming : SE!Map(w) \/ SE!Unmap(w)
           \/ \E w \in SE!Range(st.open) \cup {SE!Cofi} : SE!Activate(w)
           \/ SE!OnActiveWindow
    PROVE  SERowsInv'
<1>1. SEGood(st')
  BY Zenon, SEServer DEF SERowsInv, SERows, SEInv
<1>2. Listed(st.open) /\ SEShape(st)
  BY Zenon DEF SERowsInv, SERows, SEHistories, SEGood
<1>3. \/ \E o : Listed(o) /\ st' = [st EXCEPT !.open = o, !.told = @ \cup {"list"}]
      \/ \E w : st' = [st EXCEPT !.active = w, !.told = @ \cup {"active"}]
      \/ \E w : st' = [st EXCEPT !.known = w, !.told = @ \ {"active"}]
  <2>1. ASSUME NEW w, SE!Map(w) PROVE \E o : Listed(o) /\ st' = [st EXCEPT !.open = o, !.told = @ \cup {"list"}]
    <3>1. Append(st.open, w) = st.open \o <<w>>
      BY <1>2 DEF Listed
    <3>2. Listed(<<w>>) /\ Elements(<<w>>) = {w}
      BY DEF Listed, Elements
    <3>3. w \notin Elements(st.open) /\ st' = [st EXCEPT !.open = Append(@, w), !.told = @ \cup {"list"}]
      BY Zenon, <2>1, SEOps DEF SE!Map
    <3>4. Elements(st.open) \cap Elements(<<w>>) = {}
      BY <3>2, <3>3
    <3>5. Listed(st.open \o <<w>>)
      BY Zenon, <1>2, <3>2, <3>4, JoinsListed
    <3> QED
      BY Zenon, <3>1, <3>3, <3>5
  <2>2. ASSUME NEW w, SE!Unmap(w) PROVE \E o : Listed(o) /\ st' = [st EXCEPT !.open = o, !.told = @ \cup {"list"}]
    <3>1. st' = [st EXCEPT !.open = Without(@, {w}), !.told = @ \cup {"list"}]
      BY Zenon, <2>2, SEOps DEF SE!Unmap
    <3>2. Listed(Without(st.open, {w}))
      BY Zenon, <1>2, WithinListed
    <3> QED
      BY Zenon, <3>1, <3>2
  <2>3. ASSUME NEW w, SE!Activate(w) PROVE \E v : st' = [st EXCEPT !.active = v, !.told = @ \cup {"active"}]
    BY Zenon, <2>3 DEF SE!Activate
  <2>4. ASSUME SE!OnActiveWindow PROVE \E w : st' = [st EXCEPT !.known = w, !.told = @ \ {"active"}]
    BY Zenon, <2>4 DEF SE!OnActiveWindow
  <2> QED
    BY Zenon, <2>1, <2>2, <2>3, <2>4
<1>4. /\ Listed(st'.open) /\ st'.wins = st.wins /\ st'.history = st.history /\ st'.filtered = st.filtered
      /\ st'.tab = st.tab /\ st'.rows = st.rows /\ st'.win = st.win /\ st'.prov = st.prov
      /\ "list" \notin st'.told => "list" \notin st.told /\ st'.open = st.open
  BY <1>2, <1>3 DEF SEShape, SEFields
<1> QED
  BY Zenon, <1>1, <1>4, SERowsKept DEF SERowsInv

LEMMA SERowsLists == ASSUME RowsFit, SERowsInv, SE!OnClientList PROVE SERowsInv'
<1>. DEFINE s == [st EXCEPT !.wins = st.open, !.told = @ \ {"list"}]
            q == SE!Query(st)
<1>1. st' \in SE!FilterWindows(s, q)
  BY Zenon DEF SE!OnClientList
<1>2. SEGood(st) /\ SEOffsets(st) /\ st.tab \in {"windows", "provider"}
      /\ Listed(st.open) /\ Listed(st.history)
  BY Zenon DEF SERowsInv, SERows, SEHistories
<1>3. /\ SEGood(s) /\ s.open = st.open /\ s.wins = st.open /\ s.history = st.history
      /\ s.tab = st.tab /\ s.win = st.win /\ s.prov = st.prov
  BY <1>2 DEF SEGood, SEShape, SEFields
<1>. HIDE DEF s, q
<1>4. SEOffsets(s)
  BY Zenon, <1>2, <1>3 DEF SEOffsets
<1> QED
  BY Zenon, <1>1, <1>2, <1>3, <1>4, SERowsFiltered DEF SERowsInv

LEMMA SERowsTypes == ASSUME RowsFit, SERowsInv, NEW text, SE!Type(text) PROVE SERowsInv'
<1>. DEFINE s == [st EXCEPT !.text = text]
<1>1. SEGood(st')
  BY Zenon, SETypes DEF SERowsInv, SERows, SEInv
<1>2. /\ st.tab = "windows" /\ st' \in SE!FilterWindows(s, text)
      \/ /\ st.tab # "windows"
         /\ \E rows \in SE!RowLists, c \in {SE!AtTop, SE!Preserve(s.prov, s.rows)} :
               st' = [s EXCEPT !.rows = rows, !.prov = SE!Restore(c, rows)]
  <2>1. s.tab = st.tab
    BY DEF SERowsInv, SERows, SEGood, SEShape, SEFields
  <2> QED
    BY Zenon, <2>1 DEF SE!Type
<1>3. /\ SEShape(s) /\ s.open = st.open /\ s.wins = st.wins /\ s.history = st.history /\ s.filtered = st.filtered
      /\ s.tab = st.tab /\ s.win = st.win /\ s.prov = st.prov /\ s.rows = st.rows /\ s.told = st.told
      /\ s.command = st.command
  BY DEF SERowsInv, SERows, SEGood, SEShape, SEFields
<1>4. st.command = FALSE
  BY Zenon DEF SE!Type, SERowsInv, SERows, SEGood
<1>5. SEGood(s)
  BY <1>3, <1>4 DEF SERowsInv, SERows, SEGood
<1>. HIDE DEF s
<1>6. CASE st' \in SE!FilterWindows(s, text)
  <2>1. SEOffsets(s)
    BY Zenon, <1>3 DEF SERowsInv, SERows, SEOffsets
  <2>2. /\ Listed(s.open) /\ Listed(s.wins) /\ Listed(s.history) /\ s.tab \in {"windows", "provider"}
        /\ "list" \notin s.told => Elements(s.wins) = Elements(s.open)
    BY Zenon, <1>3 DEF SERowsInv, SERows, SEHistories
  <2> QED
    BY Zenon, <1>5, <1>6, <2>1, <2>2, SERowsFiltered DEF SERowsInv
<1>7. ASSUME st.tab # "windows", NEW rows \in SE!RowLists, NEW c \in {SE!AtTop, SE!Preserve(s.prov, s.rows)},
             st' = [s EXCEPT !.rows = rows, !.prov = SE!Restore(c, rows)]
      PROVE  SERowsInv'
  <2>. DEFINE p == SE!Restore(c, rows)
  <2>1. DOMAIN SE!Preserve(s.prov, s.rows) = SEMark /\ SE!Preserve(s.prov, s.rows).offset = s.prov.offset
    BY Zenon, <1>3, SEMarks, SEPreserved DEF SEShape
  <2>2. DOMAIN SE!AtTop = SEMark /\ SE!AtTop.offset = 0
    BY DEF SE!AtTop, SEMark
  <2>3. s.prov.offset \in Nat
    BY Zenon, <1>3 DEF SERowsInv, SERows, SEOffsets
  <2>4. DOMAIN c = SEMark /\ c.offset \in Nat
    BY <1>7, <2>1, <2>2, <2>3
  <2>5. rows \in Seq(ProviderRows)
    BY Zenon, <1>7, SERowsAreSeqs
  <2>6. SEMarked(p, rows)
    BY Zenon, <2>4, <2>5, SERestoresTo
  <2>. HIDE DEF p
  <2>7. st' = [s EXCEPT !.rows = rows, !.prov = p]
    BY Zenon, <1>7 DEF p
  <2>8. /\ st'.open = s.open /\ st'.wins = s.wins /\ st'.history = s.history /\ st'.filtered = s.filtered
        /\ st'.tab = s.tab /\ st'.win = s.win /\ st'.prov = p /\ st'.rows = rows /\ st'.told = s.told
    BY <1>3, <2>7 DEF SEShape, SEFields
  <2>9. SEHistories(st')
    BY Zenon, <1>3, <2>8 DEF SERowsInv, SERows, SEHistories
  <2>10. SEOffsets(st')
    BY Zenon, <1>3, <2>6, <2>8 DEF SERowsInv, SERows, SEOffsets, SEMarked
  <2>11. SEOnRow(st')
    BY Zenon, <1>3, <1>7, <2>6, <2>8 DEF SEOnRow
  <2> QED
    BY Zenon, <1>1, <1>3, <2>8, <2>9, <2>10, <2>11 DEF SERowsInv, SERows
<1> QED
  BY Zenon, <1>2, <1>6, <1>7

LEMMA SEMovesTo ==
    ASSUME RowsFit, NEW B, NEW f \in Seq(B), NEW c, DOMAIN c = SEMark, SEMarked(c, f), NEW up
    PROVE  /\ SEMarked(SE!Moved(c, f, up), f)
           /\ SENamed(c, f) => SENamed(SE!Moved(c, f, up), f)
<1>. DEFINE n == Len(f)
            by == IF up THEN 1 ELSE -1
            to == IF up THEN (c.index + 1) % n ELSE (c.index - 1) % n
            m == [c EXCEPT !.index = to, !.id = f[to + 1]]
            r == SE!Scrolled(m, n)
<1>1. n \in Nat /\ (f = <<>> <=> n = 0) /\ c.index \in Nat /\ c.offset \in Nat
  BY DEF SEMarked
<1>2. SE!Moved(c, f, up) = IF n = 0 THEN c ELSE r
  BY Zenon DEF SE!Moved
<1>3. CASE n = 0
  BY <1>1, <1>2, <1>3
<1>4. CASE n # 0
  <2>1. n > 0
    BY <1>1, <1>4
  <2>. HIDE DEF n
  <2>2. to \in Nat /\ to < n
    BY <1>1, <2>1
  <2>. HIDE DEF to
  <2>3. DOMAIN m = SEMark /\ m.index = to /\ m.id = f[to + 1] /\ m.offset = c.offset
    BY DEF SEMark
  <2>. HIDE DEF m
  <2>4. r.index = m.index /\ r.id = m.id
    BY <2>3, SEScrolls
  <2>5. r.offset \in Nat /\ r.offset <= SE!Upper(0, n - ScreenLines)
    BY <1>1, <2>2, <2>3, SEScrollsTo
  <2>. HIDE DEF r
  <2>6. SEMarked(r, f) /\ SENamed(r, f)
    BY <2>2, <2>3, <2>4, <2>5 DEF SEMarked, SENamed, n
  <2> QED
    BY Zenon, <1>2, <1>4, <2>6
<1> QED
  BY Zenon, <1>3, <1>4

LEMMA SERowsMoves == ASSUME RowsFit, SERowsInv, SE!MoveSelection PROVE SERowsInv'
<1>1. PICK up \in BOOLEAN : st' = IF st.tab = "windows" THEN [st EXCEPT !.win = SE!Moved(st.win, st.filtered, up)]
                                  ELSE [st EXCEPT !.prov = SE!Moved(st.prov, st.rows, up)]
  BY DEF SE!MoveSelection
<1>2. SEGood(st')
  BY Zenon, SEWalks DEF SERowsInv, SERows, SEInv
<1>. DEFINE w == SE!Moved(st.win, st.filtered, up)  p == SE!Moved(st.prov, st.rows, up)
<1>3. SEShape(st) /\ SEOnRow(st) /\ SEOffsets(st)
  BY Zenon DEF SERowsInv, SERows, SEGood
<1>4. ASSUME st.tab = "windows" PROVE SEMarked(w, st.filtered) /\ SENamed(w, st.filtered)
  <2>1. st.filtered \in Seq(Elements(st.filtered))
    BY Zenon DEF SERowsInv, SERows, SEHistories, Listed
  <2> QED
    BY Zenon, <1>3, <1>4, <2>1, SEMovesTo DEF SEOnRow, SEShape
<1>5. ASSUME st.tab # "windows" PROVE SEMarked(p, st.rows)
  <2>1. st.rows \in Seq(ProviderRows)
    BY Zenon, SERowsAreSeqs DEF SERowsInv, SERows, SEGood
  <2> QED
    BY Zenon, <1>3, <1>5, <2>1, SEMovesTo DEF SEOnRow, SEShape
<1>. HIDE DEF w, p
<1>6. st' = IF st.tab = "windows" THEN [st EXCEPT !.win = w] ELSE [st EXCEPT !.prov = p]
  BY Zenon, <1>1 DEF w, p
<1>7. /\ st'.open = st.open /\ st'.wins = st.wins /\ st'.history = st.history /\ st'.filtered = st.filtered
      /\ st'.tab = st.tab /\ st'.rows = st.rows /\ st'.told = st.told
      /\ st.tab = "windows" => st'.win = w /\ st'.prov = st.prov
      /\ st.tab # "windows" => st'.win = st.win /\ st'.prov = p
  BY <1>3, <1>6 DEF SEShape, SEFields
<1>8. SEHistories(st')
  BY Zenon, <1>7 DEF SERowsInv, SERows, SEHistories
<1>9. SEOffsets(st')
  BY Zenon, <1>3, <1>4, <1>5, <1>7 DEF SEOffsets, SEMarked
<1>10. SEOnRow(st')
  BY Zenon, <1>4, <1>5, <1>7 DEF SEOnRow
<1> QED
  BY Zenon, <1>2, <1>7, <1>8, <1>9, <1>10 DEF SERowsInv, SERows

LEMMA SEAtTops ==
    /\ SE!AtTop.index = 0 /\ SE!AtTop.offset = 0 /\ SE!AtTop.index \in Nat /\ SE!AtTop.offset \in Nat
    /\ \A n \in Int : 0 <= SE!Upper(0, n)
BY DEF SE!AtTop, SE!Upper

(* reset_selection: the first row, nothing scrolled. *)
LEMMA SEResetsTo ==
    ASSUME RowsFit, NEW s, SERows(s)
    PROVE  LET r == SE!ResetSelection(s) IN
           /\ SEOffsets(r) /\ SEOnRow(r)
           /\ r.open = s.open /\ r.wins = s.wins /\ r.history = s.history /\ r.filtered = s.filtered
           /\ r.tab = s.tab /\ r.rows = s.rows /\ r.told = s.told
<1>. DEFINE r == SE!ResetSelection(s)
            w == [SE!AtTop EXCEPT !.id = SE!FirstId(s.filtered)]
<1>1. w.index = 0 /\ w.offset = 0 /\ w.id = SE!FirstId(s.filtered) /\ SE!AtTop.index = 0 /\ SE!AtTop.offset = 0
  BY DEF SE!AtTop
<1>2. r = IF s.tab = "windows" THEN [s EXCEPT !.win = w] ELSE [s EXCEPT !.prov = SE!AtTop]
  BY Zenon DEF SE!ResetSelection
<1>. HIDE DEF w, r
<1>3. /\ r.open = s.open /\ r.wins = s.wins /\ r.history = s.history /\ r.filtered = s.filtered
      /\ r.tab = s.tab /\ r.rows = s.rows /\ r.told = s.told
      /\ s.tab = "windows" => r.win = w /\ r.prov = s.prov
      /\ s.tab # "windows" => r.win = s.win /\ r.prov = SE!AtTop
  BY <1>2 DEF SERows, SEGood, SEShape, SEFields
<1>4. SEOffsets(r)
  BY <1>1, <1>3 DEF SERows, SEOffsets
<1>5. /\ w.index \in Nat /\ w.offset \in Nat /\ SE!AtTop.index \in Nat /\ SE!AtTop.offset \in Nat
      /\ \A n \in Int : 0 <= SE!Upper(0, n)
  BY Zenon, <1>1, SEAtTops
<1>6. ASSUME s.tab = "windows" PROVE SEMarked(w, s.filtered) /\ SENamed(w, s.filtered)
  <2>1. s.filtered \in Seq(Elements(s.filtered))
    BY Zenon DEF SERows, SEHistories, Listed
  <2>2. s.filtered # <<>> => 0 < Len(s.filtered) /\ SE!FirstId(s.filtered) = s.filtered[0 + 1]
    BY <2>1 DEF SE!FirstId
  <2> QED
    <3>1. Len(s.filtered) \in Int /\ ScreenLines \in Int
      BY <2>1 DEF RowsFit
    <3>2. Len(s.filtered) - ScreenLines \in Int
      BY <3>1
    <3> QED
      BY Zenon, <1>1, <1>5, <2>2, <3>2 DEF SEMarked, SENamed
<1>7. ASSUME s.tab # "windows" PROVE SEMarked(SE!AtTop, s.rows)
  <2>1. s.rows \in Seq(ProviderRows)
    BY Zenon, SERowsAreSeqs DEF SERows, SEGood
  <2>2. s.rows # <<>> => 0 < Len(s.rows)
    BY <2>1
  <2> QED
    <3>1. Len(s.rows) \in Int /\ ScreenLines \in Int
      BY <2>1 DEF RowsFit
    <3>2. Len(s.rows) - ScreenLines \in Int
      BY <3>1
    <3> QED
      BY Zenon, <1>1, <1>5, <2>2, <3>2 DEF SEMarked
<1>8. SEOnRow(r)
  BY Zenon, <1>3, <1>6, <1>7 DEF SEOnRow
<1> QED
  BY Zenon, <1>3, <1>4, <1>8 DEF r

LEMMA SERowsReset ==
    ASSUME RowsFit, NEW s, SERows(s)
    PROVE  SERows(SE!ResetSelection(s))
<1>. DEFINE r == SE!ResetSelection(s)
<1>1. SEGood(r)
  BY Zenon, SEResets, SEFrames DEF SERows, SEGood
<1>2. /\ SEOffsets(r) /\ SEOnRow(r)
      /\ r.open = s.open /\ r.wins = s.wins /\ r.history = s.history /\ r.filtered = s.filtered
      /\ r.tab = s.tab /\ r.rows = s.rows /\ r.told = s.told
  BY Zenon, SEResetsTo
<1>. HIDE DEF r
<1>3. SEHistories(r)
  BY Zenon, <1>2 DEF SERows, SEHistories
<1> QED
  BY Zenon, <1>1, <1>2, <1>3 DEF SERows, r

LEMMA SERowsSwitch == ASSUME RowsFit, SERowsInv, SE!SwitchTab PROVE SERowsInv'
<1>. DEFINE s == [st EXCEPT !.text = "", !.win = SE!AtTop, !.prov = SE!AtTop, !.rows = <<>>]
            w == [s EXCEPT !.tab = "windows"]
<1>1. SEGood(st) /\ SEGood(st')
  BY Zenon, SESwitches DEF SERowsInv, SERows, SEInv
<1>2. /\ DOMAIN s = SEFields /\ s.text = "" /\ s.win = SE!AtTop /\ s.prov = SE!AtTop /\ s.rows = <<>>
      /\ s.command = st.command /\ s.told = st.told /\ s.tab = st.tab
      /\ s.open = st.open /\ s.wins = st.wins /\ s.history = st.history /\ s.filtered = st.filtered
  BY <1>1 DEF SEGood, SEShape, SEFields
<1>3. SEGood(s)
  BY Zenon, <1>1, <1>2, SEBlanks, SETops
<1>4. \/ s.tab = "windows" /\ st' = [s EXCEPT !.tab = "provider"]
      \/ s.tab # "windows" /\ \E t \in SE!FilterWindows(w, "") : st' = SE!ResetSelection(t)
  BY Zenon DEF SE!SwitchTab
<1>5. /\ SEGood(w) /\ w.told = s.told /\ w.tab = "windows"
      /\ w.open = s.open /\ w.wins = s.wins /\ w.history = s.history /\ w.win = s.win /\ w.prov = s.prov
  BY <1>3 DEF SEGood, SEShape, SEFields
<1>. HIDE DEF s, w
<1>6. /\ Listed(st.open) /\ Listed(st.wins) /\ Listed(st.history)
      /\ "list" \notin st.told => Elements(st.wins) = Elements(st.open)
  BY Zenon DEF SERowsInv, SERows, SEHistories
<1>7. SE!AtTop.offset = 0 /\ SE!AtTop.index = 0
  BY Zenon, SEAtTops
<1>8. CASE st' = [s EXCEPT !.tab = "provider"]
  <2>1. /\ st'.tab = "provider" /\ st'.win = SE!AtTop /\ st'.prov = SE!AtTop /\ st'.rows = <<>>
        /\ st'.told = st.told
        /\ st'.open = st.open /\ st'.wins = st.wins /\ st'.history = st.history /\ st'.filtered = st.filtered
    BY <1>2, <1>8 DEF SEFields
  <2>2. SEHistories(st')
    BY Zenon, <2>1 DEF SERowsInv, SERows, SEHistories
  <2>3. SEOffsets(st')
    BY Zenon, <2>1, SEAtTops DEF SEOffsets
  <2>4. SEMarked(SE!AtTop, <<>>)
    <3>1. Len(<<>>) - ScreenLines \in Int
      BY DEF RowsFit
    <3> QED
      BY Zenon, <1>7, <3>1, SEAtTops DEF SEMarked
  <2>5. SEOnRow(st')
    BY <2>1, <2>4 DEF SEOnRow
  <2> QED
    BY <1>1, <1>6, <2>1, <2>2, <2>3, <2>5 DEF SERowsInv, SERows
<1>9. ASSUME NEW t \in SE!FilterWindows(w, ""), st' = SE!ResetSelection(t) PROVE SERowsInv'
  <2>1. SEOffsets(w)
    BY Zenon, <1>2, <1>5, SEAtTops DEF SEOffsets
  <2>2. w.tab \in {"windows", "provider"}
    BY <1>5
  <2>3. SERows(t)
    BY Zenon, <1>2, <1>5, <1>6, <1>9, <2>1, <2>2, SERowsFiltered
  <2> QED
    BY Zenon, <1>9, <2>3, SERowsReset DEF SERowsInv
<1> QED
  BY Zenon, <1>4, <1>8, <1>9

LEMMA SERowsShow == ASSUME RowsFit, SERowsInv, SE!Show PROVE SERowsInv'
<1>1. \E read \in BOOLEAN : \E s :
          /\ s = [st EXCEPT !.tab = "windows", !.text = "", !.command = FALSE, !.rows = <<>>,
                            !.wins = IF read THEN st.open ELSE @]
          /\ st' \in SE!FilterWindows(SE!ResetSelection(s), "")
  BY Zenon DEF SE!Show
<1>2. PICK s, wins :
          /\ s = [st EXCEPT !.tab = "windows", !.text = "", !.command = FALSE, !.rows = <<>>, !.wins = wins]
          /\ st' \in SE!FilterWindows(SE!ResetSelection(s), "")
          /\ wins = st.open \/ wins = st.wins
  BY <1>1
<1>3. /\ DOMAIN s = SEFields /\ s.text = "" /\ s.rows = <<>> /\ s.command = FALSE
      /\ s.told = st.told /\ s.tab = "windows" /\ s.win = st.win /\ s.prov = st.prov
      /\ s.open = st.open /\ s.wins = wins /\ s.history = st.history /\ s.filtered = st.filtered
  BY <1>2 DEF SERowsInv, SERows, SEGood, SEShape, SEFields
<1>4. SEGood(st)
  BY Zenon DEF SERowsInv, SERows
<1>5. SEGood(s)
  BY Zenon, <1>3, <1>4, SEBlanks DEF SEGood, SEShape
<1>. DEFINE r == SE!ResetSelection(s)  w == [SE!AtTop EXCEPT !.id = SE!FirstId(s.filtered)]
<1>6. r = [s EXCEPT !.win = w]
  BY <1>3 DEF SE!ResetSelection
<1>7. DOMAIN w = SEMark /\ w.offset = 0
  BY DEF SE!AtTop, SEMark
<1>. HIDE DEF r, w
<1>8. /\ SEGood(r) /\ r.open = s.open /\ r.wins = s.wins /\ r.history = s.history
      /\ r.tab = s.tab /\ r.told = s.told /\ r.win = w /\ r.prov = s.prov
  BY <1>5, <1>6, <1>7 DEF SEGood, SEShape, SEFields
<1>9. SEOffsets(r)
  <2>1. w.offset \in Nat
    BY <1>7
  <2>2. st.prov.offset \in Nat
    BY Zenon DEF SEOffsets, SERowsInv, SERows
  <2> QED
    BY Zenon, <1>3, <1>8, <2>1, <2>2 DEF SEOffsets
<1>10. /\ Listed(r.open) /\ Listed(r.wins) /\ Listed(r.history)
       /\ "list" \notin r.told => Elements(r.wins) = Elements(r.open)
  BY Zenon, <1>2, <1>3, <1>8 DEF SERowsInv, SERows, SEHistories
<1>11. r.tab \in {"windows", "provider"} /\ st' \in SE!FilterWindows(r, "")
  BY <1>2, <1>3, <1>8 DEF r
<1> QED
  BY Zenon, <1>8, <1>9, <1>10, <1>11, SERowsFiltered DEF SERowsInv

LEMMA SERowsRepeat == ASSUME RowsFit, SERowsInv, SE!Repeat PROVE SERowsInv'
<1>1. PICK t \in SE!FilterWindows(st, "q") : st' = [SE!ResetSelection(t) EXCEPT !.text = ""]
  BY DEF SE!Repeat
<1>2. SERows(t)
  BY Zenon, SERowsFiltered DEF SERowsInv, SERows, SEHistories
<1>. DEFINE r == SE!ResetSelection(t)
<1>3. SERows(r)
  BY Zenon, <1>2, SERowsReset
<1>. HIDE DEF r
<1>4. st' = [r EXCEPT !.text = ""]
  BY Zenon, <1>1 DEF r
<1>5. SEGood(st')
  BY Zenon, SERepeats DEF SERowsInv, SERows, SEInv
<1>6. /\ st'.open = r.open /\ st'.wins = r.wins /\ st'.history = r.history /\ st'.filtered = r.filtered
      /\ st'.tab = r.tab /\ st'.rows = r.rows /\ st'.win = r.win /\ st'.prov = r.prov /\ st'.told = r.told
  BY <1>3, <1>4 DEF SERows, SEGood, SEShape, SEFields
<1>7. Listed(st'.open)
  BY Zenon, <1>3, <1>6 DEF SERows, SEHistories
<1> QED
  BY Zenon, <1>3, <1>5, <1>6, <1>7, SERowsKept DEF SERowsInv

LEMMA SERowsCommand == ASSUME SERowsInv, SE!Command PROVE SERowsInv'
<1>1. SEGood(st) /\ SEGood(st') /\ Listed(st.open)
  BY Zenon, SECommands DEF SERowsInv, SERows, SEInv, SEHistories
<1>2. PICK l \in BOOLEAN : st' = [st EXCEPT !.command = l]
  BY <1>1 DEF SE!Command, SEGood
<1>3. /\ st'.open = st.open /\ st'.wins = st.wins /\ st'.history = st.history /\ st'.filtered = st.filtered
      /\ st'.tab = st.tab /\ st'.rows = st.rows /\ st'.win = st.win /\ st'.prov = st.prov /\ st'.told = st.told
  BY <1>1, <1>2 DEF SEGood, SEShape, SEFields
<1> QED
  BY Zenon, <1>1, <1>3, SERowsKept DEF SERowsInv

LEMMA SERowsRefresh == ASSUME RowsFit, SERowsInv, SE!Refresh PROVE SERowsInv'
<1>1. PICK rows \in SE!RowLists :
          /\ st.tab = "provider"
          /\ st' = [st EXCEPT !.rows = rows, !.prov = SE!Restore(SE!Preserve(st.prov, st.rows), rows)]
  BY DEF SE!Refresh
<1>. DEFINE c == SE!Preserve(st.prov, st.rows)  p == SE!Restore(c, rows)
<1>2. SEGood(st) /\ SEGood(st') /\ SEOffsets(st)
  BY Zenon, SERefreshes DEF SERowsInv, SERows, SEInv
<1>3. DOMAIN c = SEMark /\ c.offset \in Nat
  <2>1. DOMAIN st.prov = SEMark /\ st.prov.offset \in Nat
    BY Zenon, <1>2 DEF SEGood, SEShape, SEOffsets
  <2>2. DOMAIN c = SEMark /\ c.offset = st.prov.offset
    BY Zenon, <2>1, SEMarks, SEPreserved
  <2> QED
    BY Zenon, <2>1, <2>2
<1>4. rows \in Seq(ProviderRows)
  BY Zenon, SERowsAreSeqs
<1>5. SEMarked(p, rows)
  BY Zenon, <1>3, <1>4, SERestoresTo
<1>. HIDE DEF p
<1>6. st' = [st EXCEPT !.rows = rows, !.prov = p]
  BY Zenon, <1>1 DEF p
<1>7. /\ st'.open = st.open /\ st'.wins = st.wins /\ st'.history = st.history /\ st'.filtered = st.filtered
      /\ st'.tab = st.tab /\ st'.rows = rows /\ st'.win = st.win /\ st'.prov = p /\ st'.told = st.told
  BY <1>2, <1>6 DEF SEGood, SEShape, SEFields
<1>8. SEHistories(st')
  BY Zenon, <1>7 DEF SERowsInv, SERows, SEHistories
<1>9. SEOffsets(st')
  BY Zenon, <1>2, <1>5, <1>7 DEF SEOffsets, SEMarked
<1>10. SEOnRow(st')
  BY <1>1, <1>5, <1>7 DEF SEOnRow
<1> QED
  BY Zenon, <1>2, <1>7, <1>8, <1>9, <1>10 DEF SERowsInv, SERows

LEMMA SERowsInits == ASSUME RowsFit, SE!Init PROVE SERowsInv
<1>1. PICK native \in BOOLEAN, wins \in {SE!SetToSeq(Ids \ S) : S \in SUBSET Coming} :
          st \in SE!FilterWindows([SE!Start(native) EXCEPT !.open = wins, !.wins = wins,
                                                          !.history = wins], "")
  BY Zenon DEF SE!Init
<1>2. PICK S \in SUBSET Coming : wins = SE!SetToSeq(Ids \ S)
  OBVIOUS
<1>3. Listed(wins)
  <2>. DEFINE T == Ids \ S  c == SE!Cardinality(T)
  <2>1. IsFiniteSet(T)
    BY FS_Difference DEF RowsFit
  <2>. HIDE DEF T
  <2>2. c = Cardinality(T) /\ ExistsBijection(1..c, T)
    <3>1. c = Cardinality(T)
      BY Zenon, SEOps
    <3> QED
      BY Zenon, <2>1, <3>1, FS_CardinalityType
  <2>3. \E f \in [1..c -> T] : \A m, n \in DOMAIN f : f[m] = f[n] => m = n
    BY <2>2 DEF ExistsBijection, Bijection, Injection, Surjection, IsInjective
  <2>4. SE!SetToSeq(T) = CHOOSE f \in [1..c -> T] : SE!IsInjective(f)
    BY Zenon DEF SE!SetToSeq
  <2>5. /\ SE!SetToSeq(T) \in [1..c -> T]
        /\ \A m, n \in DOMAIN SE!SetToSeq(T) : SE!SetToSeq(T)[m] = SE!SetToSeq(T)[n] => m = n
    <3>1. \A f : SE!IsInjective(f) <=> (\A m, n \in DOMAIN f : f[m] = f[n] => m = n)
      BY Zenon DEF SE!IsInjective
    <3>2. \E f \in [1..c -> T] : SE!IsInjective(f)
      BY Zenon, <2>3, <3>1
    <3>. HIDE DEF c
    <3>3. SE!SetToSeq(T) \in [1..c -> T] /\ SE!IsInjective(SE!SetToSeq(T))
      BY Zenon, <2>4, <3>2
    <3> QED
      BY Zenon, <3>1, <3>3
  <2>6. \A m, n \in 1..c : m # n => SE!SetToSeq(T)[m] # SE!SetToSeq(T)[n]
    BY Zenon, <2>5
  <2>7. Listed(SE!SetToSeq(T))
    BY Zenon, <2>1, <2>2, <2>5, <2>6, Arranged
  <2> QED
    BY Zenon, <1>2, <2>7 DEF T
<1>. DEFINE s == [SE!Start(native) EXCEPT !.open = wins, !.wins = wins, !.history = wins]
<1>4. /\ DOMAIN s = SEFields /\ s.text = "" /\ s.command = FALSE /\ s.rows = <<>> /\ s.tab = "windows"
      /\ s.win = SE!AtTop /\ s.prov = SE!AtTop /\ s.open = wins /\ s.wins = wins /\ s.history = wins
  BY DEF SE!Start, SEFields
<1>5. st \in SE!FilterWindows(s, "")
  BY Zenon, <1>1
<1>. HIDE DEF s
<1>6. SEGood(s)
  BY Zenon, <1>4, SENoRows, SETops DEF SEGood, SEShape
<1>7. SEOffsets(s)
  BY Zenon, <1>4, SEAtTops DEF SEOffsets
<1>8. s.tab \in {"windows", "provider"} /\ Listed(s.open) /\ Listed(s.wins) /\ Listed(s.history)
      /\ ("list" \notin s.told => Elements(s.wins) = Elements(s.open))
  BY <1>3, <1>4
<1> QED
  BY Zenon, <1>5, <1>6, <1>7, <1>8, SERowsFiltered DEF SERowsInv

LEMMA SERowsSteps == ASSUME RowsFit, SERowsInv, SE!Next PROVE SERowsInv'
<1>1. CASE \/ \E w \in Coming : SE!Map(w) \/ SE!Unmap(w)
           \/ \E w \in SE!Range(st.open) \cup {SE!Cofi} : SE!Activate(w)
           \/ SE!OnActiveWindow
  BY Zenon, <1>1, SERowsServer
<1>2. CASE SE!OnClientList
  BY Zenon, <1>2, SERowsLists
<1>3. CASE SE!Refresh
  BY Zenon, <1>3, SERowsRefresh
<1>4. CASE \E q \in {"", "q"} : SE!Type(q)
  BY Zenon, <1>4, SERowsTypes
<1>5. CASE SE!MoveSelection
  BY Zenon, <1>5, SERowsMoves
<1>6. CASE SE!SwitchTab
  BY Zenon, <1>6, SERowsSwitch
<1>7. CASE SE!Show
  BY Zenon, <1>7, SERowsShow
<1>8. CASE SE!Repeat
  BY Zenon, <1>8, SERowsRepeat
<1>9. CASE SE!Command
  BY Zenon, <1>9, SERowsCommand
<1> QED
  BY Zenon, <1>1, <1>2, <1>3, <1>4, <1>5, <1>6, <1>7, <1>8, <1>9 DEF SE!Next

LEMMA SERowsShown == ASSUME SERowsInv PROVE SE!RowsAreWindows
<1>1. /\ Listed(st.history) /\ Elements(st.history) = Elements(st.wins) /\ Listed(st.filtered)
      /\ Elements(st.filtered) \subseteq Elements(st.history)
  BY Zenon DEF SERowsInv, SERows, SEHistories
<1>2. st.history \in SE!SetToSeqs(SE!Range(st.wins)) /\ st.filtered \in SE!SetToSeqs(SE!Range(st.filtered))
  BY Zenon, <1>1, SEListed, SEOps
<1>3. SE!Range(st.filtered) \subseteq SE!Range(st.history)
  BY Zenon, <1>1, SEOps
<1>4. "list" \notin st.told => SE!Range(st.wins) = SE!Range(st.open)
  BY Zenon, SEOps DEF SERowsInv, SERows
<1>5. CASE st.tab = "windows"
  BY <1>2, <1>3, <1>4, <1>5 DEF SE!RowsAreWindows, SERowsInv, SERows, SEOnRow, SEMarked, SENamed
<1>6. CASE st.tab = "provider"
  BY <1>2, <1>3, <1>4, <1>6 DEF SE!RowsAreWindows, SERowsInv, SERows, SEOnRow, SEMarked
<1> QED
  BY <1>5, <1>6 DEF SERowsInv, SERows

(* The history has each open window once, the rows are windows of it, Enter *)
(* takes the window of the marked row, and no offset of a longer list       *)
(* leaves the screen empty (history.c: update_history,                      *)
(* partition_and_reorder; selection.c: restore_selection,                   *)
(* update_scroll_position).                                                 *)
THEOREM RowsStayWindows == ASSUME RowsFit PROVE Spec => []RowsAreWindows
<1>1. Init => (OnSelection => SERowsInv)
  BY Zenon, SERowsInits DEF Init, OnSelection
<1>2. (OnSelection => SERowsInv) /\ [Next]_vars => (OnSelection => SERowsInv)'
  <2>1. ASSUME SERowsInv, OnSelection, Next PROVE SERowsInv'
    <3>1. SE!Next
      BY Zenon, <2>1 DEF Next, OnSelection
    <3> QED
      BY Zenon, <2>1, <3>1, SERowsSteps
  <2>2. ASSUME ~OnSelection, Next PROVE ~OnSelection'
    BY Zenon, <2>2 DEF Next, OnSelection
  <2>3. ASSUME UNCHANGED vars PROVE (SERowsInv => SERowsInv') /\ (OnSelection' = OnSelection)
    BY Zenon, <2>3 DEF vars, SERowsInv, OnSelection
  <2> QED
    BY <2>1, <2>2, <2>3
<1>3. (OnSelection => SERowsInv) => RowsAreWindows
  BY Zenon, SERowsShown DEF RowsAreWindows, OnSelection
<1> QED
  BY <1>1, <1>2, <1>3, PTL DEF Spec

-----------------------------------------------------------------------------
OnLine == part = "line"

(* The histories of the command line and of the run modal are the last      *)
(* lines that were run, a recalled line is the one the position says, Enter *)
(* runs a completion of what is in the entry, and a help page is full       *)
(* (command_mode.c, run_provider.c, run_mode.c).                            *)
THEOREM LineAlwaysAgrees == ASSUME LinesFit PROVE Spec => []LineAgrees
<1>1. Init => (OnLine => CLInv)
  BY Zenon, CLStarts DEF Init, OnLine
<1>2. (OnLine => CLInv) /\ [Next]_vars => (OnLine => CLInv)'
  <2>1. ASSUME CLInv, OnLine, Next PROVE CLInv'
    <3>1. CL!Next
      BY Zenon, <2>1 DEF Next, OnLine
    <3> QED
      BY Zenon, <2>1, <3>1, CLSteps
  <2>2. ASSUME ~OnLine, Next PROVE ~OnLine'
    BY Zenon, <2>2 DEF Next, OnLine
  <2>3. ASSUME UNCHANGED vars PROVE (CLInv => CLInv') /\ (OnLine' = OnLine)
    BY Zenon, <2>3 DEF vars, CLInv, OnLine
  <2> QED
    BY <2>1, <2>2, <2>3
<1>3. (OnLine => CLInv) => LineAgrees
  <2>1. ASSUME CLInv PROVE CL!LineAgrees
    BY Zenon, <2>1 DEF CL!LineAgrees, CL!InCommand, CL!InRun, CLInv, CLGood, CLOffered,
       CLRecalled, CLRows, CLPage, CLRecent
  <2> QED
    BY Zenon, <2>1 DEF LineAgrees, OnLine
<1> QED
  BY <1>1, <1>2, <1>3, PTL DEF Spec
=============================================================================
