--------------------------- MODULE TabPartsProofs ---------------------------
(* The Config, the Hotkeys, the Bluetooth and the PATH tab, the slots and   *)
(* the command line, for every size.  No assumption is made of their        *)
(* constants but those a lemma states.                                      *)
EXTENDS TabParts, Integers, Sequences, FiniteSetTheorems, SequenceTheorems, NaturalsInduction,
        WellFoundedInduction, Places, TLAPS

-----------------------------------------------------------------------------
(* A set of numbers that has an element has a least one. *)
LEMMA NatMin ==
    ASSUME NEW T, T \subseteq Nat, T # {}
    PROVE  \E x \in T : \A y \in T : x <= y
<1>1. PICK x \in T : \A y \in T : <<y, x>> \notin OpToRel(<, Nat)
  BY Zenon, NatLessThanWellFounded, WFMin
<1>2. \A y \in T : ~(y < x)
  BY Zenon, <1>1 DEF OpToRel
<1>3. x \in Nat /\ \A y \in T : y \in Nat
  OBVIOUS
<1>4. \A y \in T : x <= y
  BY <1>2, <1>3
<1> QED
  BY <1>4

-----------------------------------------------------------------------------
(* The options and the Config tab. *)

(* What SelectInSeq finds is a place of the sequence, or 0. *)
CFValueAt(s, value) == CF!SelectInSeq(s, LAMBDA v : v = value)
CFRowOf(s, key) == CF!SelectInSeq(s, LAMBDA r : r.key = key)

LEMMA CFSelected ==
    ASSUME NEW s, NEW key, Len(s) \in Nat
    PROVE  CFValueAt(s, key) \in 0..Len(s) /\ CFRowOf(s, key) \in 0..Len(s)
<1>. DEFINE I == {i \in 1..Len(s) : s[i] = key}
            J == {i \in 1..Len(s) : s[i].key = key}
<1>1. CFValueAt(s, key) = IF I # {} THEN CF!Min(I) ELSE 0
  BY Zenon DEF CFValueAt, CF!SelectInSeq
<1>2. CFRowOf(s, key) = IF J # {} THEN CF!Min(J) ELSE 0
  BY Zenon DEF CFRowOf, CF!SelectInSeq
<1>3. I \subseteq Nat /\ J \subseteq Nat
  OBVIOUS
<1>4. I # {} => CF!Min(I) \in I
  BY Zenon, <1>3, NatMin DEF CF!Min
<1>5. J # {} => CF!Min(J) \in J
  BY Zenon, <1>3, NatMin DEF CF!Min
<1> QED
  BY <1>1, <1>2, <1>4, <1>5

-----------------------------------------------------------------------------
(* The options, their file, the registry and the Config tab. *)

CFLists == (SUBSET Providers) \cup Lists \cup {f.options[CF!List] : f \in Files}
CFValue == (UNION {CF!Range(Values[k]) : k \in CFOptions}) \cup CFLists
CFConfigs ==
    {c \in [CF!Keys -> CFValue] :
        c[CF!List] \in CFLists /\ \A k \in CFOptions : c[k] \in CF!Range(Values[k])}
CFFiles == Files \cup {CF!File(c) : c \in CFConfigs}
CFRows == {CF!Rows(c, q) : c \in CFConfigs, q \in Queries \cup {CF!All}} \cup {<<>>}
CFDialog == [kind : {"none", "edit", "providers"}, key : CF!Keys, marks : SUBSET Providers]
CFState == [config : CFConfigs, enabled : SUBSET Providers, file : CFFiles, behind : BOOLEAN,
            tab : Providers \cup {CF!Windows}, rows : CFRows, row : Nat,
            query : Queries \cup {CF!All}, ruled : BOOLEAN, dialog : CFDialog]

(* The four parts of SettingsAgree; that the edit dialog is one of a number, *)
(* so that its answer cannot be the list of providers; and that a dialog is *)
(* on the Config tab, which no answer of it can disable.                    *)
CFRegistry(s) == s.enabled = CF!Applied(s.config[CF!List])
CFFile(s) == ~s.behind => CF!LoadConfig(s.file) = s.config
CFTab(s) == s.tab = CF!Windows \/ s.tab \in s.enabled
Fresh(rows, config) == \A n \in DOMAIN rows : rows[n].value = config[rows[n].key]
CFFresh(s) == s.tab = CF!Config /\ ~s.ruled => Fresh(s.rows, s.config)
CFNumber(s) == s.dialog.kind = "edit" => s.dialog.key \in Ints
CFOpened(s) == s.dialog # CF!NoDialog => s.tab = CF!Config
CFGood(s) == /\ s \in CFState /\ CFRegistry(s) /\ CFFile(s) /\ CFTab(s) /\ CFFresh(s)
             /\ CFNumber(s) /\ CFOpened(s)
CFInv == CFGood(st)

(* Nothing but the rows, the marker, the entry or the tab. *)
Same(s, t) == /\ t.config = s.config /\ t.enabled = s.enabled
              /\ t.file = s.file /\ t.behind = s.behind /\ t.dialog = s.dialog

LEMMA CFSame ==
    ASSUME NEW s \in CFState, NEW t \in CFState, Same(s, t)
    PROVE  /\ CFRegistry(s) => CFRegistry(t)
           /\ CFFile(s) => CFFile(t)
           /\ CFNumber(s) => CFNumber(t)
           /\ t.tab = s.tab /\ CFTab(s) => CFTab(t)
           /\ t.tab = s.tab /\ CFOpened(s) => CFOpened(t)
BY DEF Same, CFRegistry, CFFile, CFNumber, CFTab, CFOpened

LEMMA CFLoads ==
    ASSUME OptionsFit, NEW f \in CFFiles
    PROVE  CF!LoadConfig(f) \in CFConfigs
<1>. DEFINE found == f.options
            c == CF!LoadConfig(f)
<1>1. CF!Keys = CFOptions \cup {CF!List}
  BY DEF CF!Keys, CFOptions
<1>2. c = [k \in CF!Keys |-> IF k \notin DOMAIN found THEN CF!InitConfigDefaults[k]
                            ELSE IF CF!Accepts(k, found[k]) THEN found[k] ELSE Repaired[k]]
  BY Zenon DEF CF!LoadConfig
<1>. HIDE DEF c
<1>3. ASSUME NEW k \in CFOptions PROVE c[k] \in CF!Range(Values[k])
  <2>1. k # CF!List /\ k \in CF!Keys
    BY <1>1, <1>3 DEF OptionsFit
  <2>2. CF!InitConfigDefaults[k] = Default[k]
    BY <2>1 DEF CF!InitConfigDefaults
  <2>3. CF!Accepts(k, found[k]) => found[k] \in CF!Range(Values[k])
    BY <2>1 DEF CF!Accepts
  <2> QED
    BY <1>2, <2>1, <2>2, <2>3, <1>3 DEF OptionsFit
<1>4. c[CF!List] \in CFLists
  <2>1. CF!List \in CF!Keys
    BY <1>1
  <2>2. CF!InitConfigDefaults[CF!List] = {}
    BY <2>1 DEF CF!InitConfigDefaults
  <2>3. {} \in CFLists
    BY DEF CFLists
  <2>4. CF!List \in DOMAIN found => found[CF!List] \in CFLists
    <3>1. CASE f \in Files
      BY <3>1 DEF CFLists
    <3>2. ASSUME NEW d \in CFConfigs, f = CF!File(d) PROVE found[CF!List] \in CFLists
      BY <3>2 DEF CFConfigs, CF!File
    <3> QED
      BY <3>1, <3>2 DEF CFFiles
  <2>5. CF!Accepts(CF!List, found[CF!List])
    BY DEF CF!Accepts
  <2> QED
    BY <1>2, <2>1, <2>2, <2>3, <2>4, <2>5
<1>5. \A k \in CF!Keys : c[k] \in CFValue
  BY <1>1, <1>3, <1>4 DEF CFValue
<1>6. c \in [CF!Keys -> CFValue]
  BY <1>2, <1>5
<1> QED
  BY <1>3, <1>4, <1>6 DEF CFConfigs, c

(* What is saved is read again. *)
LEMMA CFSavedIsRead ==
    ASSUME OptionsFit, NEW c \in CFConfigs
    PROVE  CF!LoadConfig(CF!File(c)) = c
<1>1. CF!Keys = CFOptions \cup {CF!List}
  BY DEF CF!Keys, CFOptions
<1>2. c \in [CF!Keys -> CFValue] /\ DOMAIN c = CF!Keys
  BY DEF CFConfigs
<1>3. \A k \in CF!Keys : CF!Accepts(k, c[k])
  BY <1>1 DEF CF!Accepts, CFConfigs
<1>4. CF!File(c).options = c
  BY DEF CF!File
<1>5. CF!LoadConfig(CF!File(c)) = [k \in CF!Keys |-> c[k]]
  BY <1>2, <1>3, <1>4 DEF CF!LoadConfig
<1> QED
  BY <1>2, <1>5

LEMMA CFSaves ==
    ASSUME OptionsFit, NEW s \in CFState, NEW t \in CF!Saved(s)
    PROVE  /\ t \in CFState /\ CFFile(t)
           /\ t.config = s.config /\ t.enabled = s.enabled /\ t.tab = s.tab /\ t.rows = s.rows
           /\ t.ruled = s.ruled /\ t.dialog = s.dialog /\ t.query = s.query
<1>1. CF!File(s.config) \in CFFiles /\ s.config \in CFConfigs
  BY DEF CFState, CFFiles
<1>2. CASE t = [s EXCEPT !.file = CF!File(s.config), !.behind = FALSE]
  <2>1. /\ t \in CFState /\ t.file = CF!File(s.config)
        /\ t.config = s.config /\ t.enabled = s.enabled /\ t.tab = s.tab /\ t.rows = s.rows
        /\ t.ruled = s.ruled /\ t.dialog = s.dialog /\ t.query = s.query
    BY <1>1, <1>2 DEF CFState
  <2> QED
    BY <1>1, <2>1, CFSavedIsRead DEF CFFile
<1>3. CASE t = [s EXCEPT !.behind = TRUE]
  BY <1>3 DEF CFState, CFFile
<1> QED
  BY <1>2, <1>3 DEF CF!Saved

(* Rows that were just built show the values in force. *)
LEMMA CFRowsFresh == ASSUME NEW c, NEW q PROVE Fresh(CF!Rows(c, q), c)
BY DEF Fresh, CF!Rows

LEMMA CFRowsCounted == ASSUME OptionsFit, NEW c, NEW q PROVE Len(CF!Rows(c, q)) \in Nat
<1>. DEFINE shown == {n \in DOMAIN Order :
                          q = CF!All \/ <<q, Order[n], c[Order[n]]>> \in Shows}
<1>1. DOMAIN Order = 1..Len(Order) /\ Len(Order) \in Int
  BY DEF OptionsFit
<1>2. IsFiniteSet(shown)
  <2>1. IsFiniteSet(1..Len(Order))
    BY <1>1, FS_Interval
  <2>2. shown \in SUBSET (1..Len(Order))
    BY <1>1
  <2>. HIDE DEF shown
  <2> QED
    BY <2>1, <2>2, FS_Subset
<1>3. CF!Cardinality(shown) = Cardinality(shown)
  BY Zenon DEF CF!Cardinality, Cardinality
<1>4. CF!Cardinality(shown) \in Nat
  BY <1>2, <1>3, FS_CardinalityType
<1>5. DOMAIN CF!Rows(c, q) = 1..CF!Cardinality(shown)
  BY Zenon DEF CF!Rows
<1>6. CF!Rows(c, q) = [r \in 1..CF!Cardinality(shown) |-> CF!Rows(c, q)[r]]
  BY Zenon, <1>5 DEF CF!Rows
<1>. HIDE DEF shown
<1>. DEFINE rows == CF!Rows(c, q)  n == CF!Cardinality(shown)
<1>. HIDE DEF rows, n
<1>7. n \in Nat /\ DOMAIN rows = 1..n /\ rows = [r \in 1..n |-> rows[r]]
  BY Zenon, <1>4, <1>5, <1>6 DEF rows, n
<1>8. Len(rows) = n
  BY <1>7
<1> QED
  BY <1>7, <1>8 DEF rows

LEMMA CFFilters ==
    ASSUME NEW s \in CFState
    PROVE  /\ CF!Filtered(s) \in CFState /\ Same(s, CF!Filtered(s))
           /\ CF!Filtered(s).tab = s.tab /\ CFFresh(CF!Filtered(s))
<1>. DEFINE t == CF!Filtered(s)  rows == CF!Rows(s.config, s.query)
<1>1. rows \in CFRows
  BY DEF CFState, CFRows
<1>2. t = [s EXCEPT !.rows = rows, !.ruled = FALSE]
  BY DEF CF!Filtered
<1>3. Fresh(rows, s.config)
  BY CFRowsFresh
<1>. HIDE DEF rows
<1>4. t \in CFState /\ t.rows = rows /\ t.config = s.config /\ t.tab = s.tab /\ Same(s, t)
  BY <1>1, <1>2 DEF CFState, Same
<1> QED
  BY <1>3, <1>4 DEF CFFresh

LEMMA CFRefreshes ==
    ASSUME OptionsFit, NEW s \in CFState, NEW key
    PROVE  /\ CF!Refreshed(s, key) \in CFState /\ Same(s, CF!Refreshed(s, key))
           /\ CF!Refreshed(s, key).tab = s.tab /\ CFFresh(CF!Refreshed(s, key))
<1>. DEFINE f == CF!Filtered(s)
            n == CFRowOf(f.rows, key)
            t == CF!Refreshed(s, key)
<1>1. f \in CFState /\ Same(s, f) /\ f.tab = s.tab /\ CFFresh(f)
  BY CFFilters
<1>2. Len(f.rows) \in Nat
  <2>1. f.rows = CF!Rows(s.config, s.query)
    BY DEF CF!Filtered, CFState
  <2> QED
    BY <2>1, CFRowsCounted
<1>3. n \in Nat
  <2>1. n \in 0..Len(f.rows)
    BY <1>2, CFSelected
  <2> QED
    BY <2>1, <1>2
<1>4. t = [f EXCEPT !.row = IF n = 0 THEN 1 ELSE n]
  BY Zenon DEF CF!Refreshed, CF!Selecting, CFRowOf
<1>. HIDE DEF f, n
<1>5. /\ t \in CFState /\ t.config = f.config /\ t.enabled = f.enabled /\ t.file = f.file
      /\ t.behind = f.behind /\ t.tab = f.tab /\ t.rows = f.rows /\ t.ruled = f.ruled
      /\ t.dialog = f.dialog
  BY <1>1, <1>3, <1>4 DEF CFState
<1>. HIDE DEF t
<1>6. Same(s, t) /\ t.tab = s.tab /\ CFFresh(t)
  BY <1>1, <1>5 DEF Same, CFFresh
<1> QED
  BY <1>5, <1>6 DEF t

(* surface_tab shows no tab that is off, and filters when it enters Config. *)
LEMMA CFSurfaces ==
    ASSUME NEW s \in CFState, NEW tab \in Providers \cup {CF!Windows},
           CFTab(s), CFFresh(s)
    PROVE  LET t == CF!SurfaceTab(s, tab) IN
           /\ t \in CFState /\ Same(s, t) /\ CFTab(t) /\ CFFresh(t)
           /\ tab = s.tab => t = s
<1>. DEFINE t == CF!SurfaceTab(s, tab)
            u == [s EXCEPT !.tab = tab, !.query = CF!All, !.row = 1]
<1>1. /\ u \in CFState /\ u.tab = tab /\ Same(s, u)
  BY DEF CFState, Same
<1>2. t = IF (tab # CF!Windows /\ ~CF!IsRegistered(tab, s.enabled)) \/ tab = s.tab THEN s
          ELSE IF tab = CF!Config THEN CF!Filtered(u) ELSE u
  BY Zenon DEF CF!SurfaceTab
<1>. HIDE DEF t, u
<1>3. CASE t = s
  BY <1>3 DEF Same, t
<1>4. ASSUME tab = CF!Windows \/ tab \in s.enabled, tab = CF!Config, t = CF!Filtered(u)
      PROVE  t \in CFState /\ Same(s, t) /\ CFTab(t) /\ CFFresh(t)
  <2>1. t \in CFState /\ Same(u, t) /\ t.tab = u.tab /\ CFFresh(t)
    BY <1>1, <1>4, CFFilters
  <2> QED
    BY <1>1, <1>4, <2>1 DEF Same, CFTab
<1>5. ASSUME tab = CF!Windows \/ tab \in s.enabled, tab # CF!Config, t = u
      PROVE  t \in CFState /\ Same(s, t) /\ CFTab(t) /\ CFFresh(t)
  BY <1>1, <1>5 DEF Same, CFTab, CFFresh
<1>6. t = s \/ ((tab = CF!Windows \/ tab \in s.enabled)
                  /\ ((tab = CF!Config /\ t = CF!Filtered(u)) \/ (tab # CF!Config /\ t = u)))
  BY <1>2 DEF CF!IsRegistered
<1>7. tab = s.tab => t = s
  BY <1>2
<1> QED
  BY <1>3, <1>4, <1>5, <1>6, <1>7 DEF t

(* handle_set_success, from a state whose option was written and saved.     *)
LEMMA CFHandles ==
    ASSUME OptionsFit, NEW s \in CFState, NEW key \in CF!Keys, NEW typed \in BOOLEAN,
           CFFile(s), CFNumber(s), CFTab(s), CFOpened(s),
           key = CF!List \/ CFRegistry(s)
    PROVE  CFGood(CF!HandleSetSuccess(s, key, typed))
<1>. DEFINE on == IF key = CF!List THEN [s EXCEPT !.enabled = CF!Applied(s.config[CF!List])] ELSE s
            at == IF on.tab # CF!Windows /\ ~CF!IsRegistered(on.tab, on.enabled)
                  THEN [on EXCEPT !.tab = CF!Windows] ELSE on
            left == IF ~typed THEN at
                    ELSE IF at.tab = CF!Config
                         THEN CF!Refreshed([at EXCEPT !.query = CF!All], CF!SelectedKey(at))
                    ELSE [at EXCEPT !.query = CF!All]
            stale == IF left.tab = CF!Config /\ ~typed THEN [left EXCEPT !.ruled = TRUE] ELSE left
            t == CF!HandleSetSuccess(s, key, typed)
<1>1. on \in CFState /\ CFFile(on) /\ CFNumber(on) /\ CFRegistry(on)
  <2>1. CF!Applied(s.config[CF!List]) \in SUBSET Providers
    BY DEF CF!Applied
  <2>2. CASE key = CF!List
    <3>1. /\ on \in CFState /\ on.enabled = CF!Applied(s.config[CF!List]) /\ on.config = s.config
          /\ on.file = s.file /\ on.behind = s.behind /\ on.dialog = s.dialog
      BY <2>1, <2>2 DEF CFState
    <3> QED
      BY <3>1 DEF CFFile, CFNumber, CFRegistry
  <2>3. CASE key # CF!List
    BY <2>3
  <2> QED
    BY <2>2, <2>3
<1>2. at \in CFState /\ CFTab(at) /\ Same(on, at)
  <2>. HIDE DEF on
  <2> QED
    BY <1>1 DEF CFState, CFTab, Same, CF!IsRegistered
<1>3. left \in CFState /\ CFTab(left) /\ Same(at, left) /\ (typed => CFFresh(left))
  <2>. HIDE DEF at
  <2>. DEFINE all == [at EXCEPT !.query = CF!All]
  <2>1. all \in CFState /\ all.tab = at.tab /\ Same(at, all) /\ all.enabled = at.enabled
    BY <1>2 DEF CFState, Same
  <2>. HIDE DEF all
  <2>2. CASE ~typed
    BY <2>2, <1>2 DEF Same
  <2>3. CASE typed /\ at.tab = CF!Config
    <3>. DEFINE r == CF!Refreshed(all, CF!SelectedKey(at))
    <3>1. r \in CFState /\ Same(all, r) /\ r.tab = all.tab /\ CFFresh(r)
      BY <2>1, CFRefreshes
    <3>2. left = r
      BY <2>3 DEF all
    <3>. HIDE DEF r, left
    <3> QED
      BY <3>1, <3>2, <2>1, <1>2 DEF Same, CFTab
  <2>4. CASE typed /\ at.tab # CF!Config
    <3>1. left = all
      BY <2>4 DEF all
    <3>. HIDE DEF left
    <3> QED
      BY <3>1, <2>1, <2>4, <1>2 DEF CFTab, CFFresh
  <2> QED
    BY <2>2, <2>3, <2>4
<1>4. stale \in CFState /\ CFTab(stale) /\ Same(left, stale) /\ CFFresh(stale)
  <2>. HIDE DEF left
  <2> QED
    BY <1>3 DEF CFState, CFTab, Same, CFFresh
<1>5. CF!Config \in Providers \cup {CF!Windows}
  BY DEF OptionsFit
<1>a. s.tab = CF!Config => stale.tab = CF!Config
  <2>1. s.tab = CF!Config => on.tab = CF!Config /\ CF!Config \in on.enabled
    BY <1>1 DEF OptionsFit, CFRegistry, CF!Applied, CFState
  <2>. HIDE DEF on
  <2>2. on.tab = CF!Config /\ CF!Config \in on.enabled => at.tab = CF!Config
    BY DEF CF!IsRegistered
  <2>. HIDE DEF at
  <2>3. left.tab = at.tab
    <3>. DEFINE all == [at EXCEPT !.query = CF!All]
    <3>1. all \in CFState /\ all.tab = at.tab
      BY <1>2 DEF CFState
    <3>. HIDE DEF all
    <3>2. CF!Refreshed(all, CF!SelectedKey(at)).tab = all.tab
      BY <3>1, CFRefreshes
    <3>3. left = at \/ left = all \/ left = CF!Refreshed(all, CF!SelectedKey(at))
      BY DEF all
    <3>. HIDE DEF left
    <3> QED
      BY <3>1, <3>2, <3>3
  <2>. HIDE DEF left
  <2>4. stale.tab = left.tab
    BY <1>3 DEF CFState
  <2> QED
    BY <2>1, <2>2, <2>3, <2>4
<1>6. t = CF!SurfaceTab(stale, CF!Config)
  BY Zenon DEF CF!HandleSetSuccess
<1>. HIDE DEF on, at, left, stale, t
<1>7. /\ t \in CFState /\ Same(stale, t) /\ CFTab(t) /\ CFFresh(t)
      /\ stale.tab = CF!Config => t = stale
  BY <1>4, <1>5, <1>6, CFSurfaces
<1>8. CFFile(t) /\ CFNumber(t) /\ CFRegistry(t)
  BY <1>1, <1>2, <1>3, <1>4, <1>7 DEF Same, CFFile, CFNumber, CFRegistry
<1>9. CFOpened(t)
  <2>1. on.dialog = s.dialog
    BY DEF on, CFState
  <2>2. t.dialog = s.dialog
    BY <2>1, <1>2, <1>3, <1>4, <1>7 DEF Same
  <2> QED
    BY <2>2, <1>a, <1>7 DEF CFOpened
<1> QED
  BY <1>7, <1>8, <1>9 DEF CFGood, t

-----------------------------------------------------------------------------
(* Each action. *)

(* A new value of one option. *)
Written(s, key, value) == [s EXCEPT !.config[key] = value]

LEMMA CFWrites ==
    ASSUME OptionsFit, NEW s \in CFState, NEW key \in CF!Keys,
           NEW value, value \in IF key = CF!List THEN CFLists ELSE CF!Range(Values[key])
    PROVE  LET t == Written(s, key, value) IN
           /\ t \in CFState
           /\ t.config[key] = value /\ \A k \in CF!Keys \ {key} : t.config[k] = s.config[k]
           /\ t.enabled = s.enabled /\ t.file = s.file /\ t.behind = s.behind /\ t.tab = s.tab
           /\ t.rows = s.rows /\ t.ruled = s.ruled /\ t.dialog = s.dialog
<1>. DEFINE c == [s.config EXCEPT ![key] = value]  t == Written(s, key, value)
<1>1. CF!Keys = CFOptions \cup {CF!List}
  BY DEF CF!Keys, CFOptions
<1>2. s.config \in CFConfigs
  BY DEF CFState
<1>3. value \in CFValue
  BY <1>1 DEF CFValue
<1>4. /\ c \in [CF!Keys -> CFValue] /\ c[key] = value
      /\ \A k \in CF!Keys \ {key} : c[k] = s.config[k]
  BY <1>2, <1>3 DEF CFConfigs
<1>5. c[CF!List] \in CFLists /\ \A k \in CFOptions : c[k] \in CF!Range(Values[k])
  BY <1>1, <1>2, <1>4 DEF CFConfigs, OptionsFit
<1>6. c \in CFConfigs
  BY <1>4, <1>5 DEF CFConfigs
<1>7. t = [s EXCEPT !.config = c]
  BY DEF Written
<1>. HIDE DEF c
<1>8. /\ t \in CFState /\ t.config = c
      /\ t.enabled = s.enabled /\ t.file = s.file /\ t.behind = s.behind /\ t.tab = s.tab
      /\ t.rows = s.rows /\ t.ruled = s.ruled /\ t.dialog = s.dialog
  BY <1>6, <1>7 DEF CFState
<1> QED
  BY <1>4, <1>8

LEMMA CFSetStep ==
    ASSUME OptionsFit, CFInv, NEW key \in CF!Keys, NEW typed \in BOOLEAN,
           NEW value \in IF key = CF!List THEN Lists ELSE CF!Range(Values[key]),
           CF!CmdSetConfig(key, value, typed)
    PROVE  CFInv'
<1>. DEFINE w == Written(st, key, value)
<1>1. st \in CFState /\ CFRegistry(st) /\ CFTab(st) /\ CFNumber(st) /\ CFOpened(st)
  BY DEF CFInv, CFGood
<1>2. PICK s \in CF!Saved(w) : st' = CF!HandleSetSuccess(s, key, typed)
  BY DEF CF!CmdSetConfig, Written
<1>3. value \in IF key = CF!List THEN CFLists ELSE CF!Range(Values[key])
  BY DEF CFLists
<1>4. /\ w \in CFState /\ \A k \in CF!Keys \ {key} : w.config[k] = st.config[k]
      /\ w.enabled = st.enabled /\ w.tab = st.tab /\ w.dialog = st.dialog
  BY <1>1, <1>3, CFWrites
<1>. HIDE DEF w
<1>5. /\ s \in CFState /\ CFFile(s) /\ s.config = w.config
      /\ s.enabled = w.enabled /\ s.tab = w.tab /\ s.dialog = w.dialog
  BY <1>4, CFSaves
<1>6. CF!List \in CF!Keys
  BY DEF CF!Keys
<1>7. CFTab(s) /\ CFNumber(s) /\ CFOpened(s) /\ (key = CF!List \/ CFRegistry(s))
  BY <1>1, <1>4, <1>5, <1>6 DEF CFTab, CFNumber, CFOpened, CFRegistry
<1>8. CFGood(CF!HandleSetSuccess(s, key, typed))
  BY <1>5, <1>7, CFHandles
<1> QED
  BY <1>2, <1>8 DEF CFInv

(* An option of the tab that is not the list: written, saved, filtered.     *)
LEMMA CFChanges ==
    ASSUME OptionsFit, NEW s \in CFState, CFRegistry(s), CFTab(s), CFNumber(s), CFOpened(s),
           NEW key \in CFOptions, NEW value \in CF!Range(Values[key]),
           NEW t \in CF!Saved(Written(s, key, value))
    PROVE  CFGood(CF!Refreshed(t, key))
<1>. DEFINE w == Written(s, key, value)  r == CF!Refreshed(t, key)
<1>1. key # CF!List /\ key \in CF!Keys /\ CF!List \in CF!Keys
  BY DEF OptionsFit, CFOptions, CF!Keys
<1>2. /\ w \in CFState /\ \A k \in CF!Keys \ {key} : w.config[k] = s.config[k]
      /\ w.enabled = s.enabled /\ w.tab = s.tab /\ w.dialog = s.dialog
  BY <1>1, CFWrites
<1>. HIDE DEF w
<1>3. /\ t \in CFState /\ CFFile(t) /\ t.config = w.config
      /\ t.enabled = w.enabled /\ t.tab = w.tab /\ t.dialog = w.dialog
  BY <1>2, CFSaves DEF w
<1>4. CFRegistry(t) /\ CFTab(t) /\ CFNumber(t) /\ CFOpened(t)
  BY <1>1, <1>2, <1>3 DEF CFRegistry, CFTab, CFNumber, CFOpened
<1>5. r \in CFState /\ Same(t, r) /\ r.tab = t.tab /\ CFFresh(r)
  BY <1>3, CFRefreshes
<1>. HIDE DEF r
<1>6. CFRegistry(r) /\ CFFile(r) /\ CFTab(r) /\ CFNumber(r) /\ CFOpened(r)
  BY <1>3, <1>4, <1>5, CFSame
<1> QED
  BY <1>5, <1>6 DEF CFGood, r

LEMMA CFCtrlTStep == ASSUME OptionsFit, CFInv, CF!CtrlT PROVE CFInv'
<1>. DEFINE key == CF!Row.key  value == CF!NextValue(CF!Row.key, CF!Row.value)
<1>1. st \in CFState /\ CFRegistry(st) /\ CFTab(st) /\ CFNumber(st) /\ CFOpened(st)
  BY DEF CFInv, CFGood
<1>2. key \in CFOptions
  BY DEF CF!CtrlT, CFOptions
<1>3. PICK s \in CF!Saved(Written(st, key, value)) : st' = CF!Refreshed(s, key)
  BY DEF CF!CtrlT, Written
<1>4. value \in CF!Range(Values[key])
  <2>. DEFINE n == CFValueAt(Values[key], CF!Row.value)
  <2>1. Len(Values[key]) \in Nat \ {0} /\ DOMAIN Values[key] = 1..Len(Values[key])
    BY <1>2 DEF OptionsFit
  <2>2. n \in 0..Len(Values[key])
    BY <2>1, CFSelected
  <2>3. value = Values[key][(n % Len(Values[key])) + 1]
    BY Zenon DEF CF!NextValue, CFValueAt
  <2>. DEFINE l == Len(Values[key])
  <2>4. (n % l) + 1 \in DOMAIN Values[key]
    <3>. HIDE DEF n, l
    <3>1. l \in Nat \ {0} /\ n \in Nat /\ DOMAIN Values[key] = 1..l
      BY <2>1, <2>2 DEF l
    <3>2. n % l \in 0..(l - 1)
      BY <3>1
    <3>3. (n % l) + 1 \in 1..l
      BY <3>1, <3>2
    <3> QED
      BY Zenon, <3>1, <3>3
  <2>. HIDE DEF n, key
  <2>. HIDE DEF value
  <2> QED
    BY Zenon, <2>3, <2>4 DEF CF!Range
<1>. HIDE DEF key, value
<1>5. CFGood(CF!Refreshed(s, key))
  BY <1>1, <1>2, <1>3, <1>4, CFChanges
<1> QED
  BY <1>3, <1>5 DEF CFInv

LEMMA CFAnswerEditStep ==
    ASSUME OptionsFit, CFInv, NEW value \in Typed, CF!AnswerEdit(value) PROVE CFInv'
<1>. DEFINE key == st.dialog.key  open == [st EXCEPT !.dialog = CF!NoDialog]
<1>1. st \in CFState /\ CFRegistry(st) /\ CFTab(st) /\ CFFile(st)
  BY DEF CFInv, CFGood
<1>2. key \in CFOptions
  BY DEF CF!AnswerEdit, CFInv, CFGood, CFNumber, CFOptions
<1>3. CF!NoDialog \in CFDialog /\ CF!NoDialog.kind = "none"
  BY DEF CF!NoDialog, CFDialog, CF!Keys
<1>4. /\ open \in CFState /\ open.config = st.config /\ open.enabled = st.enabled
      /\ open.file = st.file /\ open.behind = st.behind /\ open.tab = st.tab
      /\ open.dialog = CF!NoDialog
  BY <1>1, <1>3 DEF CFState
<1>5. IF CF!Accepts(key, value)
      THEN \E s \in CF!Saved(Written(open, key, value)) : st' = CF!Refreshed(s, key)
      ELSE st' = CF!Refreshed(open, key)
  BY DEF CF!AnswerEdit, Written
<1>. HIDE DEF key, open
<1>6. CFRegistry(open) /\ CFTab(open) /\ CFFile(open) /\ CFNumber(open) /\ CFOpened(open)
  BY <1>1, <1>3, <1>4 DEF CFRegistry, CFTab, CFFile, CFNumber, CFOpened
<1>7. CASE CF!Accepts(key, value)
  <2>1. value \in CF!Range(Values[key])
    BY <1>2, <1>7 DEF CF!Accepts, OptionsFit
  <2>2. PICK s \in CF!Saved(Written(open, key, value)) : st' = CF!Refreshed(s, key)
    BY <1>5, <1>7
  <2>3. CFGood(CF!Refreshed(s, key))
    BY <1>2, <1>4, <1>6, <2>1, <2>2, CFChanges
  <2> QED
    BY <2>2, <2>3 DEF CFInv
<1>8. CASE ~CF!Accepts(key, value)
  <2>. DEFINE r == CF!Refreshed(open, key)
  <2>1. r \in CFState /\ Same(open, r) /\ r.tab = open.tab /\ CFFresh(r)
    BY <1>4, CFRefreshes
  <2>2. st' = r
    BY <1>5, <1>8
  <2>. HIDE DEF r
  <2>3. CFRegistry(r) /\ CFFile(r) /\ CFTab(r) /\ CFNumber(r) /\ CFOpened(r)
    BY <1>4, <1>6, <2>1, CFSame
  <2> QED
    BY <2>1, <2>2, <2>3 DEF CFInv, CFGood
<1> QED
  BY <1>7, <1>8

(* The providers that are marked are on, and the list is of the others.     *)
LEMMA CFAnswerProvidersStep == ASSUME OptionsFit, CFInv, CF!AnswerProviders PROVE CFInv'
<1>. DEFINE on == st.dialog.marks \cup (Providers \cap Required)
            list == CF!AsList(on)
            e == [st EXCEPT !.enabled = on]
            w == Written(e, CF!List, list)
<1>1. st \in CFState /\ CFOpened(st) /\ st.dialog.kind = "providers"
  BY DEF CFInv, CFGood, CF!AnswerProviders
<1>2. CF!NoDialog \in CFDialog /\ CF!NoDialog.kind = "none"
  BY DEF CF!NoDialog, CFDialog, CF!Keys
<1>3. on \in SUBSET Providers /\ list \in CFLists /\ CF!List \in CF!Keys
  BY <1>1 DEF CFState, CFDialog, CF!AsList, CFLists, CF!Keys
<1>4. CF!Applied(list) = on /\ CF!Config \in on
  BY <1>3 DEF CF!Applied, CF!AsList, OptionsFit
<1>5. PICK s \in CF!Saved(w) : st' = CF!Refreshed([s EXCEPT !.dialog = CF!NoDialog], CF!List)
  <2>1. w = [st EXCEPT !.enabled = on, !.config[CF!List] = list]
    BY <1>1 DEF Written, CFState
  <2> QED
    BY <2>1 DEF CF!AnswerProviders
<1>6. e \in CFState /\ e.enabled = on /\ e.tab = st.tab
  BY <1>1, <1>3 DEF CFState
<1>. HIDE DEF on, list, e
<1>7. w \in CFState /\ w.config[CF!List] = list /\ w.enabled = on /\ w.tab = st.tab
  BY <1>3, <1>6, CFWrites
<1>. HIDE DEF w
<1>8. s \in CFState /\ CFFile(s) /\ s.config = w.config /\ s.enabled = on /\ s.tab = st.tab
  BY <1>5, <1>7, CFSaves
<1>. DEFINE t == [s EXCEPT !.dialog = CF!NoDialog]  r == CF!Refreshed(t, CF!List)
<1>9. /\ t \in CFState /\ t.config = s.config /\ t.enabled = s.enabled /\ t.file = s.file
      /\ t.behind = s.behind /\ t.tab = s.tab /\ t.dialog = CF!NoDialog
  BY <1>2, <1>8 DEF CFState
<1>. HIDE DEF t
<1>10. st.tab = CF!Config
  BY <1>1, <1>2 DEF CFOpened
<1>11. CFRegistry(t) /\ CFFile(t) /\ CFTab(t) /\ CFNumber(t) /\ CFOpened(t)
  BY <1>2, <1>4, <1>7, <1>8, <1>9, <1>10 DEF CFRegistry, CFFile, CFTab, CFNumber, CFOpened
<1>12. r \in CFState /\ Same(t, r) /\ r.tab = t.tab /\ CFFresh(r)
  BY <1>9, CFRefreshes
<1>13. st' = r
  BY <1>5 DEF t
<1>. HIDE DEF r
<1>14. CFRegistry(r) /\ CFFile(r) /\ CFTab(r) /\ CFNumber(r) /\ CFOpened(r)
  BY <1>9, <1>11, <1>12, CFSame
<1> QED
  BY <1>12, <1>13, <1>14 DEF CFInv, CFGood

(* The steps that only open, mark and close a dialog. *)
LEMMA CFDialogStep ==
    ASSUME OptionsFit, CFInv, NEW dialog \in CFDialog, st' = [st EXCEPT !.dialog = dialog],
           dialog # CF!NoDialog => st.tab = CF!Config,
           dialog.kind = "edit" => dialog.key \in Ints
    PROVE  CFInv'
<1>1. st \in CFState
  BY DEF CFInv, CFGood
<1>2. /\ st' \in CFState /\ st'.config = st.config /\ st'.enabled = st.enabled /\ st'.file = st.file
      /\ st'.behind = st.behind /\ st'.tab = st.tab /\ st'.rows = st.rows /\ st'.ruled = st.ruled
      /\ st'.dialog = dialog
  BY <1>1 DEF CFState
<1>3. CFRegistry(st') /\ CFFile(st') /\ CFTab(st') /\ CFFresh(st')
  BY <1>2 DEF CFInv, CFGood, CFRegistry, CFFile, CFTab, CFFresh
<1>4. CFNumber(st') /\ CFOpened(st')
  BY <1>2 DEF CFNumber, CFOpened
<1> QED
  BY <1>2, <1>3, <1>4 DEF CFInv, CFGood

LEMMA CFDialogSteps ==
    ASSUME OptionsFit, CFInv,
           \/ CF!OpenProviders \/ CF!OpenEdit \/ CF!HideOverlay
           \/ \E p \in Providers : CF!ToggleMark(p)
    PROVE  CFInv'
<1>1. st \in CFState /\ CFOpened(st) /\ st.dialog \in CFDialog
  BY DEF CFInv, CFGood, CFState
<1>2. CF!NoDialog \in CFDialog /\ CF!NoDialog.kind = "none" /\ CF!List \in CF!Keys
  BY DEF CF!NoDialog, CFDialog, CF!Keys
<1>3. ASSUME CF!OpenProviders PROVE CFInv'
  <2>. DEFINE d == [kind |-> "providers", key |-> CF!List, marks |-> st.enabled]
  <2>1. d \in CFDialog /\ d.kind = "providers"
    BY <1>1, <1>2 DEF CFDialog, CFState
  <2>2. st' = [st EXCEPT !.dialog = d] /\ st.tab = CF!Config
    BY <1>3 DEF CF!OpenProviders, CF!OnConfig
  <2>. HIDE DEF d
  <2> QED
    BY <2>1, <2>2, CFDialogStep
<1>4. ASSUME CF!OpenEdit PROVE CFInv'
  <2>. DEFINE d == [kind |-> "edit", key |-> CF!Row.key, marks |-> {}]
  <2>1. d \in CFDialog /\ d.key \in Ints
    BY <1>4 DEF CFDialog, CF!OpenEdit, CF!Keys
  <2>2. st' = [st EXCEPT !.dialog = d] /\ st.tab = CF!Config
    BY <1>4 DEF CF!OpenEdit, CF!OnConfig
  <2>. HIDE DEF d
  <2> QED
    BY <2>1, <2>2, CFDialogStep
<1>5. ASSUME CF!HideOverlay PROVE CFInv'
  <2>1. st' = [st EXCEPT !.dialog = CF!NoDialog]
    BY <1>5 DEF CF!HideOverlay
  <2> QED
    BY <1>2, <2>1, CFDialogStep
<1>6. ASSUME NEW p \in Providers, CF!ToggleMark(p) PROVE CFInv'
  <2>. DEFINE d == [st.dialog EXCEPT !.marks = CF!SymDiff(@, {p})]
  <2>1. CF!SymDiff(st.dialog.marks, {p}) \in SUBSET Providers
    BY <1>1 DEF CF!SymDiff, CFDialog
  <2>2. d \in CFDialog /\ d.kind = "providers"
    BY <1>1, <1>6, <2>1 DEF CFDialog, CF!ToggleMark
  <2>3. st' = [st EXCEPT !.dialog = d]
    BY <1>6 DEF CF!ToggleMark
  <2>4. st.tab = CF!Config
    BY <1>1, <1>2, <1>6 DEF CFOpened, CF!ToggleMark
  <2>. HIDE DEF d
  <2> QED
    BY <2>2, <2>3, <2>4, CFDialogStep
<1> QED
  BY <1>3, <1>4, <1>5, <1>6

(* The entry, the marker, the tab and the window. *)
LEMMA CFViewSteps ==
    ASSUME OptionsFit, CFInv,
           \/ \E q \in Queries \cup {CF!All} : CF!OnQueryChanged(q)
           \/ \E n \in DOMAIN Order : CF!MoveTo(n)
           \/ \E t \in Providers \cup {CF!Windows} : CF!OpenTab(t)
           \/ CF!ColonAndBack \/ CF!HideWindow
    PROVE  CFInv'
<1>1. /\ st \in CFState /\ CFRegistry(st) /\ CFFile(st) /\ CFTab(st) /\ CFFresh(st)
      /\ CFNumber(st) /\ CFOpened(st)
  BY DEF CFInv, CFGood
<1>2. ASSUME NEW q \in Queries \cup {CF!All}, CF!OnQueryChanged(q) PROVE CFInv'
  <2>. DEFINE t == [st EXCEPT !.query = q]  r == CF!Refreshed(t, CF!SelectedKey(st))
  <2>1. t \in CFState /\ Same(st, t) /\ t.tab = st.tab
    BY <1>1 DEF CFState, Same
  <2>2. st' = r
    BY <1>2 DEF CF!OnQueryChanged
  <2>. HIDE DEF t
  <2>3. r \in CFState /\ Same(t, r) /\ r.tab = t.tab /\ CFFresh(r)
    BY <2>1, CFRefreshes
  <2>. HIDE DEF r
  <2>4. Same(st, r) /\ r.tab = st.tab
    BY <2>1, <2>3 DEF Same
  <2>5. CFRegistry(r) /\ CFFile(r) /\ CFTab(r) /\ CFNumber(r) /\ CFOpened(r)
    BY <1>1, <2>3, <2>4, CFSame
  <2> QED
    BY <2>2, <2>3, <2>5 DEF CFInv, CFGood
<1>3. ASSUME NEW n \in DOMAIN Order, CF!MoveTo(n) PROVE CFInv'
  <2>1. st' = [st EXCEPT !.row = n] /\ n \in Nat
    BY <1>3 DEF CF!MoveTo, OptionsFit
  <2>2. /\ st' \in CFState /\ Same(st, st') /\ st'.tab = st.tab /\ st'.rows = st.rows
        /\ st'.ruled = st.ruled /\ st'.config = st.config
    BY <1>1, <2>1 DEF CFState, Same
  <2>3. CFRegistry(st') /\ CFFile(st') /\ CFTab(st') /\ CFNumber(st') /\ CFOpened(st')
    BY <1>1, <2>2, CFSame
  <2>4. CFFresh(st')
    BY <1>1, <2>2 DEF CFFresh
  <2> QED
    BY <2>2, <2>3, <2>4 DEF CFInv, CFGood
<1>4. ASSUME NEW tab \in Providers \cup {CF!Windows}, CF!OpenTab(tab) PROVE CFInv'
  <2>1. st.dialog = CF!NoDialog /\ st' = CF!SurfaceTab(st, tab)
    BY <1>4 DEF CF!OpenTab
  <2>2. st' \in CFState /\ Same(st, st') /\ CFTab(st') /\ CFFresh(st')
    BY <1>1, <2>1, CFSurfaces
  <2>3. CFRegistry(st') /\ CFFile(st') /\ CFNumber(st')
    BY <1>1, <2>2, CFSame
  <2>4. CFOpened(st')
    BY <2>1, <2>2 DEF CFOpened, Same
  <2> QED
    BY <2>2, <2>3, <2>4 DEF CFInv, CFGood
<1>5. ASSUME CF!ColonAndBack PROVE CFInv'
  <2>1. st' = [st EXCEPT !.query = CF!All]
    BY <1>5 DEF CF!ColonAndBack
  <2>2. /\ st' \in CFState /\ Same(st, st') /\ st'.tab = st.tab /\ st'.rows = st.rows
        /\ st'.ruled = st.ruled /\ st'.config = st.config
    BY <1>1, <2>1 DEF CFState, Same
  <2>3. CFRegistry(st') /\ CFFile(st') /\ CFTab(st') /\ CFNumber(st') /\ CFOpened(st')
    BY <1>1, <2>2, CFSame
  <2>4. CFFresh(st')
    BY <1>1, <2>2 DEF CFFresh
  <2> QED
    BY <2>2, <2>3, <2>4 DEF CFInv, CFGood
<1>6. ASSUME CF!HideWindow PROVE CFInv'
  <2>1. PICK s \in CF!Saved(st) :
            st' = [s EXCEPT !.tab = CF!Windows, !.query = CF!All, !.dialog = CF!NoDialog]
    BY <1>6 DEF CF!HideWindow
  <2>2. s \in CFState /\ CFFile(s) /\ s.config = st.config /\ s.enabled = st.enabled
    BY <1>1, <2>1, CFSaves
  <2>3. CF!NoDialog \in CFDialog /\ CF!NoDialog.kind = "none"
    BY DEF CF!NoDialog, CFDialog, CF!Keys
  <2>4. /\ st' \in CFState /\ st'.config = s.config /\ st'.enabled = s.enabled /\ st'.file = s.file
        /\ st'.behind = s.behind /\ st'.tab = CF!Windows /\ st'.dialog = CF!NoDialog
    BY <2>1, <2>2, <2>3 DEF CFState
  <2>5. CF!Windows # CF!Config
    BY DEF CF!Windows, CF!Config
  <2> QED
    BY <1>1, <2>2, <2>3, <2>4, <2>5
    DEF CFInv, CFGood, CFRegistry, CFFile, CFTab, CFFresh, CFNumber, CFOpened
<1> QED
  BY <1>2, <1>3, <1>4, <1>5, <1>6

(* load_config and the registry at the start of the program. *)
LEMMA CFStarts ==
    ASSUME OptionsFit, NEW f \in CFFiles, NEW r \in CF!Started(f)
    PROVE  CFGood(r)
<1>. DEFINE config == CF!LoadConfig(f)
            s == [config |-> config, enabled |-> CF!Applied(config[CF!List]), file |-> f,
                  behind |-> TRUE, tab |-> CF!Windows, rows |-> <<>>, row |-> 1,
                  query |-> CF!All, ruled |-> FALSE, dialog |-> CF!NoDialog]
<1>1. config \in CFConfigs
  BY CFLoads
<1>2. r \in IF f = CF!NoFile THEN CF!Saved(s) ELSE {[s EXCEPT !.behind = f = CF!Broken]}
  BY DEF CF!Started
<1>3. CF!Applied(config[CF!List]) \in SUBSET Providers
  BY DEF CF!Applied
<1>4. CF!NoDialog \in CFDialog /\ CF!NoDialog.kind = "none"
  BY DEF CF!NoDialog, CFDialog, CF!Keys
<1>5. config = CF!LoadConfig(f)
  OBVIOUS
<1>. HIDE DEF config
<1>6. s \in CFState
  <2>1. <<>> \in CFRows
    BY DEF CFRows
  <2> QED
    BY <1>1, <1>3, <1>4, <2>1 DEF CFState
<1>7. /\ s.tab = CF!Windows /\ s.dialog = CF!NoDialog /\ s.config = config /\ s.file = f
      /\ s.enabled = CF!Applied(s.config[CF!List])
  OBVIOUS
<1>. HIDE DEF s
<1>8. /\ r \in CFState /\ CFFile(r) /\ r.tab = CF!Windows /\ r.dialog = CF!NoDialog
      /\ r.enabled = CF!Applied(r.config[CF!List])
  <2>1. CASE f = CF!NoFile
    BY <1>2, <1>6, <1>7, <2>1, CFSaves
  <2>2. CASE f # CF!NoFile
    <3>1. r = [s EXCEPT !.behind = f = CF!Broken]
      BY <1>2, <2>2
    <3>2. /\ r \in CFState /\ r.tab = s.tab /\ r.dialog = s.dialog /\ r.config = s.config
          /\ r.file = s.file /\ r.enabled = s.enabled
      BY <1>6, <3>1 DEF CFState
    <3> QED
      BY <1>5, <1>7, <3>2 DEF CFFile
  <2> QED
    BY <2>1, <2>2
<1>9. CF!Windows # CF!Config
  BY DEF CF!Windows, CF!Config
<1> QED
  BY <1>4, <1>8, <1>9 DEF CFGood, CFRegistry, CFTab, CFFresh, CFNumber, CFOpened

(* The options in memory, their file, the registry of providers and the     *)
(* rows of the Config tab say the same, by whichever way an option was      *)
(* changed: a key of the tab, a dialog, a command, a rule, or the start.    *)
LEMMA SettingsHold ==
    ASSUME OptionsFit
    PROVE  CF!Spec => []CF!SettingsAgree
<1>1. CF!Init => CFInv
  <2>1. ASSUME NEW f \in Files, st \in CF!Started(f) PROVE CFInv
    <3>1. f \in CFFiles
      BY DEF CFFiles
    <3> QED
      BY <2>1, <3>1, CFStarts DEF CFInv
  <2> QED
    BY <2>1 DEF CF!Init
<1>2. CFInv /\ [CF!Next]_st => CFInv'
  <2>1. ASSUME CFInv, CF!Restart PROVE CFInv'
    <3>1. st.file \in CFFiles
      BY <2>1 DEF CFInv, CFGood, CFState
    <3> QED
      BY <2>1, <3>1, CFStarts DEF CF!Restart, CFInv
  <2>2. ASSUME CFInv, UNCHANGED st PROVE CFInv'
    BY <2>2 DEF CFInv
  <2> QED
    BY <2>1, <2>2, CFSetStep, CFCtrlTStep, CFAnswerEditStep, CFAnswerProvidersStep,
       CFDialogSteps, CFViewSteps DEF CF!Next
<1>3. CFInv => CF!SettingsAgree
  BY DEF CFInv, CFGood, CFRegistry, CFFile, CFTab, CFFresh, Fresh, CF!SettingsAgree
<1> QED
  BY <1>1, <1>2, <1>3, PTL DEF CF!Spec

-----------------------------------------------------------------------------
(* What is picked from a sequence is some of its elements, each from a      *)
(* place of its own.                                                        *)

(* A finite set of numbers has an element below which n - 1 others are.     *)
Below(S, i) == {j \in S : j < i}

LEMMA NthExists ==
    ASSUME NEW S, S \subseteq Nat, IsFiniteSet(S), NEW n \in 1..Cardinality(S)
    PROVE  \E i \in S : Cardinality(Below(S, i)) = n - 1
<1>. DEFINE Has(m) == \E i \in S : Cardinality(Below(S, i)) = m - 1
            T == {m \in 1..Cardinality(S) : ~Has(m)}
<1>1. Cardinality(S) \in Nat
  BY FS_CardinalityType
<1>2. SUFFICES ASSUME T # {} PROVE FALSE
  OBVIOUS
<1>3. T \subseteq Nat
  BY <1>1
<1>4. PICK m \in T : \A k \in T : m <= k
  BY <1>2, <1>3, NatMin
<1>5. m \in 1..Cardinality(S) /\ ~Has(m)
  OBVIOUS
<1>6. CASE m = 1
  <2>1. S # {}
    BY <1>1, <1>5, <1>6, FS_EmptySet
  <2>2. PICK i \in S : \A j \in S : i <= j
    BY <2>1, NatMin
  <2>3. Below(S, i) = {}
    <3>1. i \in Nat /\ \A j \in S : j \in Nat /\ ~(j < i)
      BY <2>2
    <3> QED
      BY Zenon, <3>1 DEF Below
  <2>4. Cardinality(Below(S, i)) = m - 1
    BY <2>3, <1>6, FS_EmptySet
  <2> QED
    BY <1>5, <2>4
<1>7. CASE m # 1
  <2>1. m - 1 \in 1..Cardinality(S) /\ m - 1 < m
    BY <1>1, <1>5, <1>7
  <2>2. Has(m - 1)
    BY <1>1, <1>4, <1>5, <2>1
  <2>3. PICK i \in S : Cardinality(Below(S, i)) = (m - 1) - 1
    BY <2>2
  <2>. DEFINE U == Below(S, i) \cup {i}  V == S \ U
  <2>4. IsFiniteSet(Below(S, i)) /\ i \notin Below(S, i)
    <3>1. Below(S, i) \in SUBSET S
      BY DEF Below
    <3>2. i \notin Below(S, i)
      BY DEF Below
    <3> QED
      BY <3>1, <3>2, FS_Subset
  <2>5. Cardinality(U) = m - 1
    <3>1. Cardinality(U) = Cardinality(Below(S, i)) + 1
      BY <2>4, FS_AddElement
    <3> QED
      BY <2>3, <3>1, <1>5
  <2>6. V # {}
    <3>1. SUFFICES ASSUME S \subseteq U PROVE FALSE
      OBVIOUS
    <3>2. S = U
      BY <3>1 DEF Below
    <3>3. Cardinality(S) = m - 1
      BY Zenon, <2>5, <3>2
    <3> QED
      BY <1>1, <1>5, <3>3
  <2>7. PICK k \in V : \A j \in V : k <= j
    <3>1. V \subseteq Nat
      OBVIOUS
    <3>. HIDE DEF V
    <3> QED
      BY <2>6, <3>1, NatMin
  <2>8. k \in S /\ k > i
    BY DEF Below
  <2>9. Below(S, k) = U
    <3>1. ASSUME NEW j \in S, j < k PROVE j \in U
      <4>1. j \in Nat /\ k \in Nat
        BY <2>8
      <4> QED
        BY <3>1, <4>1, <2>7
    <3>2. ASSUME NEW j \in U PROVE j \in S /\ j < k
      BY <2>8 DEF Below
    <3>. HIDE DEF U
    <3> QED
      BY Zenon, <3>1, <3>2 DEF Below
  <2>10. Cardinality(Below(S, k)) = m - 1
    BY Zenon, <2>5, <2>9
  <2> QED
    BY <1>5, <2>8, <2>10
<1> QED
  BY <1>6, <1>7

LEMMA NthIsThere ==
    ASSUME NEW S, S \subseteq Nat, IsFiniteSet(S)
    PROVE  /\ Cardinality(S) \in Nat
           /\ \A n \in 1..Cardinality(S) : Nth(S, n) \in S
           /\ \A m, n \in 1..Cardinality(S) : Nth(S, m) = Nth(S, n) => m = n
<1>1. Cardinality(S) \in Nat
  BY FS_CardinalityType
<1>2. ASSUME NEW n \in 1..Cardinality(S)
      PROVE  Nth(S, n) \in S /\ Cardinality(Below(S, Nth(S, n))) = n - 1
  <2>1. \E i \in S : Cardinality(Below(S, i)) = n - 1
    BY <1>1, NthExists
  <2>2. Nth(S, n) = CHOOSE i \in S : Cardinality(Below(S, i)) = n - 1
    BY Zenon DEF Nth, Below
  <2> QED
    BY Zenon, <2>1, <2>2
<1>3. ASSUME NEW m \in 1..Cardinality(S), NEW n \in 1..Cardinality(S), Nth(S, m) = Nth(S, n)
      PROVE  m = n
  <2>1. m - 1 = n - 1
    BY <1>2, <1>3
  <2> QED
    BY <1>1, <2>1
<1> QED
  BY <1>1, <1>2, <1>3

LEMMA Subplaces ==
    ASSUME NEW B, NEW s \in Seq(B), NEW S, S \subseteq DOMAIN s
    PROVE  S \subseteq Nat /\ IsFiniteSet(S)
<1>1. DOMAIN s = 1..Len(s) /\ Len(s) \in Nat
  OBVIOUS
<1>2. IsFiniteSet(1..Len(s))
  BY <1>1, FS_Interval
<1> QED
  BY <1>1, <1>2, FS_Subset

(* Every place of the set is one of them, and they are in order. *)
LEMMA NthCovers ==
    ASSUME NEW S, S \subseteq Nat, IsFiniteSet(S)
    PROVE  /\ \A i \in S : \E n \in 1..Cardinality(S) : Nth(S, n) = i
           /\ \A m, n \in 1..Cardinality(S) : m < n => Nth(S, m) < Nth(S, n)
<1>1. /\ Cardinality(S) \in Nat /\ \A n \in 1..Cardinality(S) : Nth(S, n) \in S
      /\ \A m, n \in 1..Cardinality(S) : Nth(S, m) = Nth(S, n) => m = n
  BY NthIsThere
<1>2. ASSUME NEW n \in 1..Cardinality(S) PROVE Cardinality(Below(S, Nth(S, n))) = n - 1
  <2>1. \E i \in S : Cardinality(Below(S, i)) = n - 1
    BY <1>1, NthExists
  <2>2. Nth(S, n) = CHOOSE i \in S : Cardinality(Below(S, i)) = n - 1
    BY Zenon DEF Nth, Below
  <2> QED
    BY Zenon, <2>1, <2>2
<1>3. ASSUME NEW i \in S, NEW k \in S, i < k
      PROVE  /\ Cardinality(Below(S, i)) \in Nat /\ Cardinality(Below(S, k)) \in Nat
             /\ Cardinality(Below(S, i)) < Cardinality(Below(S, k))
  <2>1. Below(S, i) \in SUBSET S /\ Below(S, k) \in SUBSET S /\ i \notin Below(S, i)
    BY DEF Below
  <2>2. IsFiniteSet(Below(S, i)) /\ IsFiniteSet(Below(S, k))
    BY <2>1, FS_Subset
  <2>3. Cardinality(Below(S, i) \cup {i}) = Cardinality(Below(S, i)) + 1
    BY <2>1, <2>2, FS_AddElement
  <2>4. Below(S, i) \cup {i} \in SUBSET Below(S, k)
    <3>1. \A j \in S : j < i => j < k
      BY <1>3
    <3> QED
      BY <1>3, <3>1 DEF Below
  <2>5. Cardinality(Below(S, i) \cup {i}) <= Cardinality(Below(S, k))
    BY Zenon, <2>2, <2>4, FS_Subset
  <2>6. Cardinality(Below(S, i)) \in Nat /\ Cardinality(Below(S, k)) \in Nat
    BY <2>2, FS_CardinalityType
  <2> QED
    BY <2>3, <2>5, <2>6
<1>4. ASSUME NEW i \in S PROVE \E n \in 1..Cardinality(S) : Nth(S, n) = i
  <2>. DEFINE c == Cardinality(Below(S, i))
  <2>1. Below(S, i) \in SUBSET S /\ i \notin Below(S, i)
    BY DEF Below
  <2>2. IsFiniteSet(Below(S, i))
    BY <2>1, FS_Subset
  <2>3. Below(S, i) \cup {i} \in SUBSET S
    BY <2>1
  <2>4. Cardinality(Below(S, i) \cup {i}) = c + 1
    BY <2>1, <2>2, FS_AddElement
  <2>5. Cardinality(Below(S, i) \cup {i}) <= Cardinality(S)
    BY <2>3, FS_Subset
  <2>6. c \in Nat
    BY <2>2, FS_CardinalityType
  <2>. HIDE DEF c
  <2>7. c + 1 \in 1..Cardinality(S)
    BY <1>1, <2>4, <2>5, <2>6
  <2>8. Cardinality(Below(S, Nth(S, c + 1))) = c
    BY <1>2, <2>6, <2>7
  <2>9. Nth(S, c + 1) \in S
    BY <1>1, <2>7
  <2>. DEFINE k == Nth(S, c + 1)
  <2>10. k \in S /\ Cardinality(Below(S, k)) = c /\ Cardinality(Below(S, i)) = c
    BY Zenon, <2>8, <2>9 DEF c
  <2>. HIDE DEF k
  <2>11. ~(i < k) /\ ~(k < i)
    BY <1>3, <2>6, <2>10
  <2>12. i = k
    BY <2>10, <2>11
  <2> QED
    BY <2>7, <2>12 DEF k
<1>5. ASSUME NEW m \in 1..Cardinality(S), NEW n \in 1..Cardinality(S), m < n
      PROVE  Nth(S, m) < Nth(S, n)
  <2>. DEFINE i == Nth(S, m)  k == Nth(S, n)
  <2>1. /\ i \in S /\ k \in S /\ i # k
        /\ Cardinality(Below(S, i)) = m - 1 /\ Cardinality(Below(S, k)) = n - 1
    BY <1>1, <1>2, <1>5
  <2>. HIDE DEF i, k
  <2>2. ~(k < i)
    BY <1>1, <1>3, <1>5, <2>1
  <2>3. i < k
    BY <2>1, <2>2
  <2> QED
    BY <2>3 DEF i, k
<1> QED
  BY <1>4, <1>5

(* A sequence that has each of its elements once. *)
Elements(f) == {f[n] : n \in DOMAIN f}
Listed(f) == f \in Seq(Elements(f)) /\ \A m, n \in DOMAIN f : f[m] = f[n] => m = n

LEMMA Counted ==
    ASSUME NEW f, Listed(f)
    PROVE  IsFiniteSet(Elements(f)) /\ Cardinality(Elements(f)) = Len(f)
<1>1. Len(f) \in Nat /\ DOMAIN f = 1..Len(f) /\ f \in [1..Len(f) -> Elements(f)]
  BY DEF Listed
<1>2. f \in Bijection(1..Len(f), Elements(f))
  <2>1. f \in Injection(1..Len(f), Elements(f))
    BY <1>1 DEF Listed, Injection, IsInjective
  <2>2. f \in Surjection(1..Len(f), Elements(f))
    BY <1>1 DEF Elements, Surjection
  <2> QED
    BY <2>1, <2>2 DEF Bijection
<1>3. IsFiniteSet(1..Len(f)) /\ Cardinality(1..Len(f)) = Len(f)
  BY <1>1, FS_Interval
<1>4. ExistsBijection(1..Len(f), Elements(f))
  BY Zenon, <1>2 DEF ExistsBijection
<1> QED
  BY <1>3, <1>4, FS_Bijection

LEMMA Arranged ==
    ASSUME NEW S, IsFiniteSet(S), NEW f \in [1..Cardinality(S) -> S],
           \A m, n \in 1..Cardinality(S) : m # n => f[m] # f[n]
    PROVE  Listed(f) /\ Elements(f) = S /\ f \in Seq(S)
<1>. DEFINE c == Cardinality(S)
<1>1. c \in Nat
  BY FS_CardinalityType
<1>. HIDE DEF c
<1>2. f \in [1..c -> S] /\ \A m, n \in 1..c : m # n => f[m] # f[n]
  BY Zenon DEF c
<1>3. DOMAIN f = 1..c /\ f \in [1..c -> Elements(f)] /\ Elements(f) \in SUBSET S
  BY <1>2 DEF Elements
<1>4. f \in Seq(Elements(f)) /\ f \in Seq(S) /\ Len(f) = c
  BY <1>1, <1>2, <1>3
<1>5. Listed(f)
  BY <1>2, <1>3, <1>4 DEF Listed
<1>6. Cardinality(Elements(f)) = c
  BY <1>4, <1>5, Counted
<1>7. Elements(f) = S
  BY Zenon, <1>3, <1>6, FS_Subset DEF c
<1> QED
  BY <1>4, <1>5, <1>7

(* What is picked from places of a sequence. *)
LEMMA Picks ==
    ASSUME NEW f, NEW B, f \in Seq(B), NEW S, S \subseteq DOMAIN f
    PROVE  /\ Picked(f, S) \in Seq(B) /\ Elements(Picked(f, S)) = {f[n] : n \in S}
           /\ Len(Picked(f, S)) = Cardinality(S) /\ Cardinality(S) \in Nat
           /\ DOMAIN Picked(f, S) = 1..Cardinality(S)
           /\ \A n \in 1..Cardinality(S) : Nth(S, n) \in S /\ Picked(f, S)[n] = f[Nth(S, n)]
<1>. DEFINE c == Cardinality(S)  p == Picked(f, S)
<1>1. S \subseteq Nat /\ IsFiniteSet(S)
  BY Subplaces
<1>2. c \in Nat /\ \A n \in 1..c : Nth(S, n) \in S
  BY <1>1, NthIsThere
<1>3. \A i \in S : \E n \in 1..c : Nth(S, n) = i
  BY <1>1, NthCovers
<1>4. p = [n \in 1..c |-> f[Nth(S, n)]]
  BY DEF Picked
<1>. HIDE DEF c, p
<1>5. \A n \in 1..c : f[Nth(S, n)] \in B
  BY <1>2
<1>6. p \in Seq(B) /\ Len(p) = c /\ DOMAIN p = 1..c /\ \A n \in 1..c : p[n] = f[Nth(S, n)]
  BY <1>2, <1>4, <1>5
<1>7. Elements(p) = {f[n] : n \in S}
  <2>1. ASSUME NEW n \in 1..c PROVE p[n] \in {f[i] : i \in S}
    BY <1>2, <1>6
  <2>2. ASSUME NEW i \in S PROVE \E n \in 1..c : p[n] = f[i]
    BY <1>3, <1>6
  <2>3. Elements(p) = {p[n] : n \in 1..c}
    BY <1>6 DEF Elements
  <2> QED
    BY Zenon, <2>1, <2>2, <2>3
<1> QED
  BY <1>2, <1>6, <1>7 DEF c, p

LEMMA PicksListed ==
    ASSUME NEW f, Listed(f), NEW S, S \subseteq DOMAIN f
    PROVE  Listed(Picked(f, S)) /\ Elements(Picked(f, S)) = {f[n] : n \in S}
<1>. DEFINE c == Cardinality(S)  p == Picked(f, S)  E == Elements(p)
<1>1. /\ p \in Seq(Elements(f)) /\ E = {f[n] : n \in S} /\ c \in Nat /\ DOMAIN p = 1..c /\ Len(p) = c
      /\ \A n \in 1..c : Nth(S, n) \in S /\ p[n] = f[Nth(S, n)]
  BY Picks DEF Listed
<1>2. \A m, n \in 1..c : Nth(S, m) = Nth(S, n) => m = n
  BY Subplaces, NthIsThere DEF Listed
<1>. HIDE DEF c, p
<1>3. \A n \in 1..c : p[n] \in E
  BY <1>1 DEF Elements
<1>. HIDE DEF E
<1>4. p \in Seq(E)
  BY <1>1, <1>3
<1>5. \A m, n \in DOMAIN p : p[m] = p[n] => m = n
  BY <1>1, <1>2 DEF Listed
<1> QED
  BY <1>1, <1>4, <1>5 DEF Listed, p, E

LEMMA WithinListed ==
    ASSUME NEW f, Listed(f), NEW S
    PROVE  /\ Listed(Within(f, S)) /\ Elements(Within(f, S)) = Elements(f) \cap S
           /\ Listed(Without(f, S)) /\ Elements(Without(f, S)) = Elements(f) \ S
<1>. DEFINE I == {n \in DOMAIN f : f[n] \in S}  J == {n \in DOMAIN f : f[n] \notin S}
<1>1. I \subseteq DOMAIN f /\ J \subseteq DOMAIN f
  OBVIOUS
<1>2. Within(f, S) = Picked(f, I) /\ Without(f, S) = Picked(f, J)
  BY DEF Within, Without
<1>3. {f[n] : n \in I} = Elements(f) \cap S /\ {f[n] : n \in J} = Elements(f) \ S
  BY DEF Elements
<1>. HIDE DEF I, J
<1>4. /\ Listed(Picked(f, I)) /\ Elements(Picked(f, I)) = {f[n] : n \in I}
      /\ Listed(Picked(f, J)) /\ Elements(Picked(f, J)) = {f[n] : n \in J}
  BY Zenon, <1>1, PicksListed
<1> QED
  BY Zenon, <1>2, <1>3, <1>4

LEMMA JoinsListed ==
    ASSUME NEW f, NEW g, Listed(f), Listed(g), Elements(f) \cap Elements(g) = {}
    PROVE  Listed(f \o g) /\ Elements(f \o g) = Elements(f) \cup Elements(g)
<1>. DEFINE j == f \o g  E == Elements(f) \cup Elements(g)
<1>1. f \in Seq(E) /\ g \in Seq(E) /\ Len(f) \in Nat /\ Len(g) \in Nat
      /\ DOMAIN f = 1..Len(f) /\ DOMAIN g = 1..Len(g)
  BY SeqMonotonic DEF Listed
<1>2. \A m \in 1..Len(f) : f[m] \in Elements(f)
  BY <1>1 DEF Elements
<1>3. \A m \in 1..Len(g) : g[m] \in Elements(g)
  BY <1>1 DEF Elements
<1>. HIDE DEF E
<1>4. /\ j \in Seq(E) /\ Len(j) = Len(f) + Len(g) /\ DOMAIN j = 1..(Len(f) + Len(g))
      /\ \A m \in 1..(Len(f) + Len(g)) : j[m] = IF m <= Len(f) THEN f[m] ELSE g[m - Len(f)]
  BY <1>1, ConcatProperties
<1>. HIDE DEF j
<1>5. \A m \in 1..(Len(f) + Len(g)) : m > Len(f) => m - Len(f) \in 1..Len(g)
  BY <1>1
<1>6. \A m \in DOMAIN j : j[m] \in E
  BY <1>2, <1>3, <1>4, <1>5 DEF E
<1>7. ASSUME NEW e \in E PROVE \E m \in DOMAIN j : j[m] = e
  <2>1. CASE e \in Elements(f)
    <3>1. PICK m \in 1..Len(f) : f[m] = e
      BY <1>1, <2>1 DEF Elements
    <3>2. m \in 1..(Len(f) + Len(g)) /\ m <= Len(f)
      BY <1>1
    <3> QED
      BY <1>4, <3>1, <3>2
  <2>2. CASE e \in Elements(g)
    <3>1. PICK m \in 1..Len(g) : g[m] = e
      BY <1>1, <2>2 DEF Elements
    <3>2. m + Len(f) \in 1..(Len(f) + Len(g)) /\ ~(m + Len(f) <= Len(f)) /\ (m + Len(f)) - Len(f) = m
      BY <1>1
    <3> QED
      BY <1>4, <3>1, <3>2
  <2> QED
    BY <1>7, <2>1, <2>2 DEF E
<1>8. Elements(j) = E
  BY Zenon, <1>6, <1>7 DEF Elements
<1>9. ASSUME NEW m \in DOMAIN j, NEW n \in DOMAIN j, j[m] = j[n] PROVE m = n
  <2>1. CASE m <= Len(f) /\ n <= Len(f)
    BY <1>1, <1>4, <1>9, <2>1 DEF Listed
  <2>2. CASE m > Len(f) /\ n > Len(f)
    <3>1. j[m] = g[m - Len(f)] /\ j[n] = g[n - Len(f)]
      BY <1>1, <1>4, <2>2
    <3>2. m - Len(f) = n - Len(f)
      BY <1>1, <1>4, <1>5, <1>9, <2>2, <3>1 DEF Listed
    <3> QED
      BY <1>1, <1>4, <3>2
  <2>3. \A a, b \in DOMAIN j : a <= Len(f) /\ b > Len(f) => j[a] \in Elements(f) /\ j[b] \in Elements(g)
    <3>1. \A a \in DOMAIN j : a <= Len(f) => j[a] = f[a] /\ a \in 1..Len(f)
      BY <1>1, <1>4
    <3>2. \A b \in DOMAIN j : b > Len(f) => j[b] = g[b - Len(f)] /\ b - Len(f) \in 1..Len(g)
      BY <1>1, <1>4, <1>5
    <3> QED
      BY Zenon, <1>2, <1>3, <3>1, <3>2
  <2>4. ~(m <= Len(f) /\ n > Len(f)) /\ ~(n <= Len(f) /\ m > Len(f))
    <3>1. \A e : e \in Elements(f) => e \notin Elements(g)
      OBVIOUS
    <3> QED
      BY Zenon, <1>9, <2>3, <3>1
  <2>5. m \in Nat /\ n \in Nat
    BY <1>1, <1>4
  <2> QED
    BY <1>1, <2>1, <2>2, <2>4, <2>5
<1> QED
  BY <1>4, <1>8, <1>9 DEF Listed, j, E

(* An order of a finite set, as what is before each of its elements. *)
Orders(S, below) ==
    /\ IsFiniteSet(S)
    /\ \A x \in S : below[x] \subseteq S /\ x \notin below[x]
    /\ \A x, y \in S : x \in below[y] => below[x] \subseteq below[y]
    /\ \A x, y \in S : x # y => x \in below[y] \/ y \in below[x]

LEMMA RanksRise ==
    ASSUME NEW S, NEW below, Orders(S, below)
    PROVE  /\ \A x \in S : Cardinality(below[x]) \in 0..(Cardinality(S) - 1)
           /\ \A x, y \in S : x \in below[y] => Cardinality(below[x]) < Cardinality(below[y])
<1>1. ASSUME NEW T \in SUBSET S, NEW x \in T
      PROVE  x \in S => /\ Cardinality(below[x]) \in Nat /\ Cardinality(T) \in Nat
                        /\ below[x] \subseteq T => Cardinality(below[x]) < Cardinality(T)
  <2>1. IsFiniteSet(S) /\ x \in S /\ x \notin below[x] /\ below[x] \in SUBSET S
    BY DEF Orders
  <2>2. IsFiniteSet(T) /\ IsFiniteSet(below[x])
    BY <2>1, FS_Subset
  <2>3. Cardinality(T) \in Nat /\ Cardinality(below[x]) \in Nat
    BY <2>2, FS_CardinalityType
  <2>4. ASSUME below[x] \subseteq T PROVE Cardinality(below[x]) < Cardinality(T)
    <3>1. below[x] \cup {x} \in SUBSET T
      BY <2>4
    <3>2. Cardinality(below[x] \cup {x}) <= Cardinality(T)
      BY Zenon, <2>2, <3>1, FS_Subset
    <3>3. Cardinality(below[x] \cup {x}) = Cardinality(below[x]) + 1
      BY Zenon, <2>1, <2>2, FS_AddElement
    <3> QED
      BY <2>3, <3>2, <3>3
  <2> QED
    BY <2>3, <2>4
<1>2. ASSUME NEW x \in S PROVE Cardinality(below[x]) \in 0..(Cardinality(S) - 1)
  <2>1. below[x] \subseteq S /\ S \in SUBSET S
    BY DEF Orders
  <2>2. Cardinality(below[x]) \in Nat /\ Cardinality(S) \in Nat /\ Cardinality(below[x]) < Cardinality(S)
    BY Zenon, <1>1, <2>1
  <2> QED
    BY <2>2
<1>3. ASSUME NEW x \in S, NEW y \in S, x \in below[y]
      PROVE  Cardinality(below[x]) < Cardinality(below[y])
  <2>1. below[x] \subseteq below[y] /\ below[y] \in SUBSET S
    BY <1>3 DEF Orders
  <2> QED
    BY Zenon, <1>1, <1>3, <2>1
<1> QED
  BY <1>2, <1>3

(* A set in its order is a list of it, in which the earlier comes first. *)
LEMMA Sorts ==
    ASSUME NEW S, NEW below, Orders(S, below)
    PROVE  LET f == Sorted(S, below) IN
           /\ Listed(f) /\ Elements(f) = S /\ f \in Seq(S)
           /\ \A m, n \in DOMAIN f : m < n => f[m] \in below[f[n]]
<1>. DEFINE c == Cardinality(S)  f == Sorted(S, below)  r == [x \in S |-> Cardinality(below[x])]
<1>1. c \in Nat /\ IsFiniteSet(S)
  BY FS_CardinalityType DEF Orders
<1>2. \A x \in S : r[x] = Cardinality(below[x]) /\ r[x] \in 0..(c - 1)
  BY RanksRise
<1>3. \A x, y \in S : x \in below[y] => r[x] < r[y]
  BY RanksRise
<1>. HIDE DEF c
<1>4. r \in [S -> 0..(c - 1)]
  BY <1>2
<1>. HIDE DEF r
<1>5. \A x, y \in S : r[x] = r[y] => x = y
  BY <1>2, <1>3 DEF Orders
<1>6. r \in Injection(S, 0..(c - 1))
  BY <1>4, <1>5 DEF Injection, IsInjective
<1>7. r \in Surjection(S, 0..(c - 1))
  <2>1. IsFiniteSet(0..(c - 1)) /\ Cardinality(0..(c - 1)) = c
    BY <1>1, FS_Interval
  <2> QED
    BY Zenon, <1>6, <2>1, FS_Injection DEF c
<1>8. \A n \in 1..c : \E x \in S : r[x] = n - 1
  BY <1>1, <1>7 DEF Surjection
<1>9. f = [n \in 1..c |-> CHOOSE x \in S : Cardinality(below[x]) = n - 1]
  BY Zenon DEF Sorted, c
<1>. HIDE DEF f
<1>10. \A n \in 1..c : f[n] \in S /\ r[f[n]] = n - 1
  <2> TAKE n \in 1..c
  <2>1. \E x \in S : Cardinality(below[x]) = n - 1
    BY Zenon, <1>2, <1>8
  <2>2. f[n] \in S /\ Cardinality(below[f[n]]) = n - 1
    BY Zenon, <1>9, <2>1
  <2> QED
    BY Zenon, <1>2, <2>2
<1>11. f \in [1..c -> S] /\ \A m, n \in 1..c : m # n => f[m] # f[n]
  <2>1. \A m, n \in 1..c : m # n => f[m] # f[n]
    BY <1>1, <1>10
  <2> QED
    BY <1>9, <1>10, <2>1
<1>12. Listed(f) /\ Elements(f) = S /\ f \in Seq(S)
  BY Zenon, <1>1, <1>11, Arranged DEF c
<1>13. \A m, n \in DOMAIN f : m < n => f[m] \in below[f[n]]
  <2> TAKE m, n \in DOMAIN f
  <2> HAVE m < n
  <2>1. m \in 1..c /\ n \in 1..c
    BY <1>9
  <2>2. f[m] \in S /\ f[n] \in S /\ r[f[m]] < r[f[n]]
    BY <1>1, <1>10, <2>1
  <2>3. f[m] # f[n] /\ ~(f[n] \in below[f[m]])
    BY <1>1, <1>3, <1>10, <2>1, <2>2
  <2> QED
    BY Zenon, <2>2, <2>3 DEF Orders
<1> QED
  BY Zenon, <1>12, <1>13 DEF f

LEMMA SortedIs ==
    ASSUME NEW S, NEW below, Orders(S, below), NEW g, Listed(g), Elements(g) = S,
           \A m, n \in DOMAIN g : m < n => g[m] \in below[g[n]]
    PROVE  Sorted(S, below) = g
<1>. DEFINE c == Cardinality(S)  f == Sorted(S, below)
<1>1. Len(g) \in Nat /\ DOMAIN g = 1..Len(g) /\ g \in Seq(S) /\ c = Len(g)
  BY Counted DEF Listed
<1>2. \A n \in DOMAIN g : g[n] \in S
  BY DEF Elements
<1>3. Listed(f) /\ Elements(f) = S /\ f \in Seq(S)
  BY Sorts
<1>4. f = [n \in 1..c |-> CHOOSE x \in S : Cardinality(below[x]) = n - 1]
  BY DEF Sorted
<1>. HIDE DEF f, c
<1>5. ASSUME NEW n \in 1..c PROVE Cardinality(below[g[n]]) = n - 1
  <2>. DEFINE B == below[g[n]]  h == SubSeq(g, 1, n - 1)
  <2>1. n \in DOMAIN g /\ g[n] \in S /\ n \in Nat
    BY <1>1, <1>2
  <2>2. h \in Seq(S) /\ DOMAIN h = 1..(n - 1) /\ Len(h) = n - 1 /\ \A m \in 1..(n - 1) : h[m] = g[m]
    BY <1>1, <2>1
  <2>. HIDE DEF h
  <2>3. \A m \in 1..(n - 1) : m \in DOMAIN g /\ m < n
    BY <1>1, <2>1
  <2>4. Elements(h) \subseteq B
    BY <2>1, <2>2, <2>3 DEF Elements
  <2>5. B \subseteq Elements(h)
    <3> SUFFICES ASSUME NEW x \in B PROVE x \in Elements(h)
      OBVIOUS
    <3>1. x \in S /\ x # g[n]
      BY <2>1 DEF Orders
    <3>2. PICK m \in DOMAIN g : g[m] = x
      BY <3>1 DEF Elements
    <3>3. m \in Nat /\ m # n
      BY <1>1, <3>1, <3>2
    <3>4. ~(n < m)
      <4>1. ASSUME n < m PROVE FALSE
        <5>1. g[n] \in below[x]
          BY <2>1, <3>2, <4>1
        <5>2. below[g[n]] \subseteq below[x]
          BY <2>1, <3>1, <5>1 DEF Orders
        <5>3. x \in below[x]
          BY <5>2
        <5> QED
          BY <3>1, <5>3 DEF Orders
      <4> QED
        BY <4>1
    <3>5. m \in 1..(n - 1)
      BY <1>1, <2>1, <3>2, <3>3, <3>4
    <3> QED
      BY <2>2, <3>2, <3>5 DEF Elements
  <2>6. B = Elements(h)
    BY <2>4, <2>5
  <2>7. Listed(h)
    <3>1. h \in Seq(Elements(h))
      BY <2>1, <2>2 DEF Elements
    <3>2. \A m, k \in DOMAIN h : h[m] = h[k] => m = k
      BY <2>2, <2>3 DEF Listed
    <3> QED
      BY <3>1, <3>2 DEF Listed
  <2> QED
    BY Zenon, <2>2, <2>6, <2>7, Counted
<1>6. \A n \in 1..c : f[n] = g[n]
  <2> TAKE n \in 1..c
  <2>1. g[n] \in S
    BY <1>1, <1>2
  <2>2. f[n] = CHOOSE x \in S : Cardinality(below[x]) = n - 1
    BY Zenon, <1>4
  <2>3. f[n] \in S /\ Cardinality(below[f[n]]) = n - 1
    BY Zenon, <1>5, <2>1, <2>2
  <2>4. ~(Cardinality(below[g[n]]) < Cardinality(below[f[n]])) /\ ~(Cardinality(below[f[n]]) < Cardinality(below[g[n]]))
    <3>1. n - 1 \in Int
      BY <1>1
    <3> QED
      BY <1>5, <2>3, <3>1
  <2>5. f[n] \notin below[g[n]] /\ g[n] \notin below[f[n]]
    BY Zenon, <2>1, <2>3, <2>4, RanksRise
  <2> QED
    BY Zenon, <2>1, <2>3, <2>5 DEF Orders
<1>7. DOMAIN f = 1..c /\ DOMAIN g = 1..c
  BY <1>1, <1>4
<1>8. f = [n \in 1..c |-> f[n]] /\ g = [n \in 1..c |-> g[n]]
  BY <1>1, <1>3, <1>7
<1> QED
  BY <1>6, <1>8 DEF f

-----------------------------------------------------------------------------
(* A sequence with one element replaced, added or dropped. *)
Sequenced(f) == f \in Seq(Elements(f))

LEMMA SequencedOf == ASSUME NEW B, NEW f \in Seq(B) PROVE Sequenced(f)
<1>1. Len(f) \in Nat /\ DOMAIN f = 1..Len(f) /\ f \in [1..Len(f) -> B]
  OBVIOUS
<1>2. \A n \in 1..Len(f) : f[n] \in Elements(f)
  BY <1>1 DEF Elements
<1> QED
  BY <1>1, <1>2 DEF Sequenced

LEMMA Placed ==
    ASSUME NEW f, Sequenced(f)
    PROVE  Len(f) \in Nat /\ DOMAIN f = 1..Len(f) /\ \A n \in DOMAIN f : f[n] \in Elements(f)
BY DEF Sequenced, Elements

LEMMA Replaces ==
    ASSUME NEW f, Sequenced(f), NEW i \in DOMAIN f, NEW v
    PROVE  LET g == [f EXCEPT ![i] = v] IN
           /\ Sequenced(g) /\ Len(g) = Len(f) /\ DOMAIN g = DOMAIN f /\ g[i] = v
           /\ \A j \in DOMAIN f : j # i => g[j] = f[j]
<1>. DEFINE g == [f EXCEPT ![i] = v]  B == Elements(f) \cup {v}
<1>1. Len(f) \in Nat /\ DOMAIN f = 1..Len(f) /\ f \in [1..Len(f) -> B]
  BY Placed DEF Sequenced
<1>. HIDE DEF B
<1>2. v \in B
  BY DEF B
<1>3. g \in [1..Len(f) -> B] /\ g[i] = v /\ \A j \in DOMAIN f : j # i => g[j] = f[j]
  BY <1>1, <1>2
<1>4. g \in Seq(B) /\ Len(g) = Len(f) /\ DOMAIN g = DOMAIN f
  BY <1>1, <1>3
<1>5. Sequenced(g)
  BY Zenon, <1>4, SequencedOf
<1> QED
  BY <1>3, <1>4, <1>5

LEMMA Appends ==
    ASSUME NEW f, Sequenced(f), NEW v
    PROVE  LET g == Append(f, v)  n == Len(f) + 1 IN
           /\ Sequenced(g) /\ Len(g) = n /\ n \in DOMAIN g /\ n \notin DOMAIN f /\ g[n] = v
           /\ \A j \in DOMAIN f : j \in DOMAIN g /\ g[j] = f[j]
           /\ \A j \in DOMAIN g : j \in DOMAIN f \/ j = n
<1>. DEFINE g == Append(f, v)  B == Elements(f) \cup {v}
<1>1. Len(f) \in Nat /\ DOMAIN f = 1..Len(f) /\ f \in Seq(B)
  BY Placed, SeqMonotonic DEF Sequenced
<1>. HIDE DEF B
<1>2. v \in B
  BY DEF B
<1>3. /\ g \in Seq(B) /\ Len(g) = Len(f) + 1 /\ g[Len(f) + 1] = v /\ DOMAIN g = 1..(Len(f) + 1)
      /\ \A j \in 1..Len(f) : g[j] = f[j]
  BY <1>1, <1>2, AppendProperties
<1>. HIDE DEF g
<1>4. Sequenced(g)
  BY Zenon, <1>3, SequencedOf
<1> QED
  BY <1>1, <1>3, <1>4 DEF g

(* The places of the rest keep apart. *)
Dropping(f, i, J, g) ==
    /\ Sequenced(g)
    /\ \A n \in DOMAIN g : Nth(J, n) \in DOMAIN f /\ Nth(J, n) # i /\ g[n] = f[Nth(J, n)]
    /\ \A m, n \in DOMAIN g : Nth(J, m) = Nth(J, n) => m = n
    /\ \A j \in DOMAIN f : j # i => \E n \in DOMAIN g : Nth(J, n) = j
LEMMA Drops ==
    ASSUME NEW f, Sequenced(f), NEW i
    PROVE  Dropping(f, i, DOMAIN f \ {i}, Picked(f, DOMAIN f \ {i}))
<1>. DEFINE J == DOMAIN f \ {i}  g == Picked(f, J)
<1>1. J \subseteq DOMAIN f /\ f \in Seq(Elements(f)) /\ \A j : j \in J <=> j \in DOMAIN f /\ j # i
  BY DEF Sequenced
<1>. HIDE DEF J
<1>2. /\ g \in Seq(Elements(f)) /\ DOMAIN g = 1..Cardinality(J)
      /\ \A n \in 1..Cardinality(J) : Nth(J, n) \in J /\ g[n] = f[Nth(J, n)]
  BY Zenon, <1>1, Picks
<1>3. J \subseteq Nat /\ IsFiniteSet(J)
  BY Zenon, <1>1, Subplaces
<1>4. /\ \A m, n \in 1..Cardinality(J) : Nth(J, m) = Nth(J, n) => m = n
      /\ \A j \in J : \E n \in 1..Cardinality(J) : Nth(J, n) = j
  BY Zenon, <1>3, NthIsThere, NthCovers
<1>5. Sequenced(g)
  BY Zenon, <1>2, SequencedOf
<1>. HIDE DEF g
<1>6. Dropping(f, i, J, g)
  BY Zenon, <1>1, <1>2, <1>4, <1>5 DEF Dropping
<1> QED
  BY Zenon, <1>6 DEF g, J

LEMMA FirstPlace ==
    ASSUME NEW f, Sequenced(f), NEW S, S \subseteq DOMAIN f, S # {}
    PROVE  Nth(S, 1) \in S
<1>1. S \subseteq Nat /\ IsFiniteSet(S)
  BY Subplaces DEF Sequenced
<1>2. Cardinality(S) \in Nat /\ Cardinality(S) # 0
  BY <1>1, FS_EmptySet, FS_CardinalityType
<1>3. 1 \in 1..Cardinality(S)
  BY <1>2
<1> QED
  BY Zenon, <1>1, <1>3, NthIsThere

(* A function at some places, in order. *)
LEMMA PicksApart ==
    ASSUME NEW S, S \subseteq Nat, IsFiniteSet(S), NEW f, \A i, j \in S : f[i] = f[j] => i = j
    PROVE  Listed(Picked(f, S)) /\ Elements(Picked(f, S)) = {f[i] : i \in S}
<1>. DEFINE c == Cardinality(S)  p == Picked(f, S)
<1>1. /\ c \in Nat /\ \A n \in 1..c : Nth(S, n) \in S
      /\ \A m, n \in 1..c : Nth(S, m) = Nth(S, n) => m = n
      /\ \A i \in S : \E n \in 1..c : Nth(S, n) = i
  BY Zenon, NthIsThere, NthCovers
<1>2. DOMAIN p = 1..c /\ p = [n \in 1..c |-> f[Nth(S, n)]]
  BY Zenon DEF Picked
<1>. HIDE DEF c, p
<1>3. \A n \in 1..c : p[n] = f[Nth(S, n)]
  BY Zenon, <1>2
<1>4. Elements(p) = {f[i] : i \in S}
  <2>1. \A n \in 1..c : p[n] \in {f[i] : i \in S}
    BY <1>1, <1>3
  <2>2. \A i \in S : \E n \in 1..c : p[n] = f[i]
    BY Zenon, <1>1, <1>3
  <2> QED
    BY <1>2, <2>1, <2>2 DEF Elements
<1>5. p \in Seq(Elements(p))
  <2>1. \A n \in 1..c : p[n] \in Elements(p)
    BY <1>2 DEF Elements
  <2>2. p \in [1..c -> Elements(p)]
    BY <1>2, <2>1
  <2> QED
    BY <1>1, <2>2
<1>6. \A m, n \in DOMAIN p : p[m] = p[n] => m = n
  BY Zenon, <1>1, <1>2, <1>3
<1> QED
  BY Zenon, <1>4, <1>5, <1>6 DEF Listed, p

(* All of a sequence, in order, is the sequence. *)
LEMMA PicksAll ==
    ASSUME NEW f, Sequenced(f)
    PROVE  Picked(f, DOMAIN f) = f
<1>. DEFINE D == DOMAIN f  l == Len(f)
<1>1. l \in Nat /\ D = 1..l /\ f = [n \in 1..l |-> f[n]]
  BY DEF Sequenced
<1>. HIDE DEF D, l
<1>2. D \subseteq Nat /\ IsFiniteSet(D) /\ Cardinality(D) = l
  <2>1. IsFiniteSet(1..l) /\ Cardinality(1..l) = l
    BY <1>1, FS_Interval
  <2> QED
    BY <1>1, <2>1
<1>3. ASSUME NEW n \in 1..l PROVE Nth(D, n) = n
  <2>1. \A m, k \in 1..l : m < k => Nth(D, m) < Nth(D, k)
    BY Zenon, <1>2, NthCovers
  <2>2. \A m \in D : Cardinality(Below(D, m)) = m - 1
    <3> TAKE m \in D
    <3>1. Below(D, m) = 1..(m - 1)
      BY <1>1 DEF Below
    <3>2. m \in Nat /\ m - 1 \in Int /\ 1 <= m
      BY <1>1
    <3>3. Cardinality(1..(m - 1)) = m - 1
      <4>. DEFINE b == m - 1
      <4>1. b \in Nat
        BY <3>2
      <4>. HIDE DEF b
      <4>2. Cardinality(1..b) = b
        BY <4>1, FS_Interval
      <4> QED
        BY <4>2 DEF b
    <3> QED
      BY <3>1, <3>3
  <2>3. n \in D /\ Cardinality(Below(D, n)) = n - 1
    BY <1>1, <2>2
  <2>4. Nth(D, n) = CHOOSE i \in D : Cardinality(Below(D, i)) = n - 1
    BY Zenon DEF Nth, Below
  <2>5. Nth(D, n) \in D /\ Cardinality(Below(D, Nth(D, n))) = n - 1
    BY Zenon, <2>3, <2>4
  <2>. DEFINE k == Nth(D, n)
  <2>. HIDE DEF k
  <2>6. k \in D /\ k - 1 = n - 1
    BY Zenon, <2>2, <2>5 DEF k
  <2>7. k = n
    BY <1>1, <2>6
  <2> QED
    BY <2>7 DEF k
<1>4. Picked(f, D) = [n \in 1..l |-> f[Nth(D, n)]]
  BY Zenon, <1>2 DEF Picked
<1>. HIDE DEF D, l
<1>5. [n \in 1..l |-> f[Nth(D, n)]] = [n \in 1..l |-> f[n]]
  BY <1>3
<1> QED
  BY Zenon, <1>1, <1>4, <1>5 DEF D

-----------------------------------------------------------------------------
(* The bindings, their grabs and the capture of a shortcut. *)

HKRow == [index : Nat, binding : HKBinding]
HKText == Spellings \cup {""}
HKRebind == [active : BOOLEAN, index : Nat, key : HKText, command : Commands \cup {HK!NoCommand},
             asking : BOOLEAN, conflict : Nat, pending : HKText]

LEMMA HKNth ==
    ASSUME NEW S, S \subseteq Nat, IsFiniteSet(S)
    PROVE  /\ HK!Cardinality(S) \in Nat
           /\ \A n \in 1..HK!Cardinality(S) : HK!Nth(S, n) \in S
           /\ \A m, n \in 1..HK!Cardinality(S) : HK!Nth(S, m) = HK!Nth(S, n) => m = n
<1>1. HK!Cardinality(S) = Cardinality(S) /\ \A n : HK!Nth(S, n) = Nth(S, n)
  BY Zenon DEF HK!Cardinality, Cardinality, HK!Nth, Nth
<1>2. /\ Cardinality(S) \in Nat /\ \A n \in 1..Cardinality(S) : Nth(S, n) \in S
      /\ \A m, n \in 1..Cardinality(S) : Nth(S, m) = Nth(S, n) => m = n
  BY NthIsThere
<1>. DEFINE k == Cardinality(S)
<1>. HIDE DEF k
<1>3. HK!Cardinality(S) = k /\ k \in Nat
  BY Zenon, <1>1, <1>2 DEF k
<1>4. \A n \in 1..k : HK!Nth(S, n) \in S
  BY Zenon, <1>1, <1>2 DEF k
<1>5. \A m, n \in 1..k : HK!Nth(S, m) = HK!Nth(S, n) => m = n
  BY Zenon, <1>1, <1>2 DEF k
<1> QED
  BY Zenon, <1>3, <1>4, <1>5

(* A part of the bindings is bindings, and binds no key twice. *)
LEMMA HKPicks ==
    ASSUME NEW s \in Seq(HKBinding), NEW S, S \subseteq DOMAIN s
    PROVE  /\ HK!Picked(s, S) \in Seq(HKBinding)
           /\ Distinct(s) => Distinct(HK!Picked(s, S))
<1>. DEFINE n == HK!Cardinality(S)  p == HK!Picked(s, S)
<1>1. S \subseteq Nat /\ IsFiniteSet(S)
  BY Subplaces
<1>2. /\ n \in Nat /\ \A i \in 1..n : HK!Nth(S, i) \in S
      /\ \A i, j \in 1..n : HK!Nth(S, i) = HK!Nth(S, j) => i = j
  BY <1>1, HKNth
<1>3. p = [i \in 1..n |-> s[HK!Nth(S, i)]]
  BY DEF HK!Picked
<1>. HIDE DEF n, p
<1>4. \A i \in 1..n : HK!Nth(S, i) \in DOMAIN s /\ s[HK!Nth(S, i)] \in HKBinding
  BY <1>2
<1>5. p \in Seq(HKBinding)
  BY <1>2, <1>3, <1>4
<1>6. ASSUME Distinct(s) PROVE Distinct(p)
  BY <1>2, <1>3, <1>4, <1>6 DEF Distinct
<1> QED
  BY <1>5, <1>6 DEF p

LEMMA HKLoads ==
    ASSUME NEW s \in Seq(HKBinding)
    PROVE  /\ HK!Loaded(s) \in Seq(HKBinding) /\ (Distinct(s) => Distinct(HK!Loaded(s)))
           /\ HK!Grabbed(s) \in Seq(HKBinding)
<1>. DEFINE A == {i \in DOMAIN s : s[i].command # HK!NoCommand}
            B == {i \in DOMAIN s : Meaning[s[i].key] # HK!NoCombo}
<1>1. A \subseteq DOMAIN s /\ B \subseteq DOMAIN s
  OBVIOUS
<1>2. HK!Loaded(s) = HK!Picked(s, A) /\ HK!Grabbed(s) = HK!Picked(s, B)
  BY Zenon DEF HK!Loaded, HK!Grabbed
<1>. HIDE DEF A, B
<1> QED
  BY <1>1, <1>2, HKPicks

LEMMA HKRowsFor ==
    ASSUME NEW s \in Seq(HKBinding), NEW text
    PROVE  HK!RowsFor(s, text) \in Seq(HKRow)
<1>. DEFINE S == {i \in DOMAIN s : HK!Matches(text, s[i])}  n == HK!Cardinality(S)
            r == HK!RowsFor(s, text)
<1>1. S \subseteq Nat /\ IsFiniteSet(S)
  <2>1. S \subseteq DOMAIN s
    OBVIOUS
  <2>. HIDE DEF S
  <2> QED
    BY <2>1, Subplaces
<1>2. n \in Nat /\ \A i \in 1..n : HK!Nth(S, i) \in S
  <2>. HIDE DEF S
  <2> QED
    BY <1>1, HKNth
<1>3. r = [i \in 1..n |-> [index |-> HK!Nth(S, i), binding |-> s[HK!Nth(S, i)]]]
  BY Zenon DEF HK!RowsFor
<1>4. \A i \in 1..n : [index |-> HK!Nth(S, i), binding |-> s[HK!Nth(S, i)]] \in HKRow
  BY <1>2 DEF HKRow
<1>. HIDE DEF n, r, S
<1>5. r \in Seq(HKRow)
  BY <1>2, <1>3, <1>4
<1> QED
  BY <1>5 DEF r

(* Which place a key has, or 0. *)
HKRowOf(rows, key) == HK!SelectInSeq(rows, LAMBDA r : r.binding.key = key)

LEMMA HKFinds ==
    ASSUME NEW s, NEW key, Len(s) \in Nat
    PROVE  /\ HK!Find(s, key) \in 0..Len(s)
           /\ HK!Find(s, key) # 0 => s[HK!Find(s, key)].key = key
           /\ HK!Find(s, key) = 0 => \A i \in 1..Len(s) : s[i].key # key
           /\ HKRowOf(s, key) \in Nat
<1>. DEFINE I == {i \in 1..Len(s) : s[i].key = key}
            J == {i \in 1..Len(s) : s[i].binding.key = key}
<1>1. HK!Find(s, key) = IF I # {} THEN HK!Min(I) ELSE 0
  BY Zenon DEF HK!Find, HK!SelectInSeq
<1>2. HKRowOf(s, key) = IF J # {} THEN HK!Min(J) ELSE 0
  BY Zenon DEF HKRowOf, HK!SelectInSeq
<1>3. I \subseteq Nat /\ J \subseteq Nat
  OBVIOUS
<1>4. I # {} => HK!Min(I) \in I
  BY Zenon, <1>3, NatMin DEF HK!Min
<1>5. J # {} => HK!Min(J) \in J
  BY Zenon, <1>3, NatMin DEF HK!Min
<1>. HIDE DEF J
<1>6. HKRowOf(s, key) \in Nat
  <2>1. CASE J # {}
    BY Zenon, <1>2, <1>3, <1>5, <2>1
  <2>2. CASE J = {}
    BY <1>2, <2>2
  <2> QED
    BY <2>1, <2>2
<1>7. /\ HK!Find(s, key) \in 0..Len(s)
      /\ HK!Find(s, key) # 0 => s[HK!Find(s, key)].key = key
      /\ HK!Find(s, key) = 0 => \A i \in 1..Len(s) : s[i].key # key
  BY <1>1, <1>4
<1> QED
  BY <1>6, <1>7

(* What RemoveAt leaves of a sequence.                                      *)
LEMMA HKRemoves ==
  ASSUME NEW S, NEW s \in Seq(S), NEW i \in 1 .. Len(s)
  PROVE  /\ HK!RemoveAt(s, i) \in Seq(S)
         /\ Len(HK!RemoveAt(s, i)) = Len(s) - 1
         /\ \A j \in 1 .. Len(s) - 1 :
               HK!RemoveAt(s, i)[j] = IF j < i THEN s[j] ELSE s[j + 1]
<1> DEFINE l == SubSeq(s, 1, i - 1)
           r == SubSeq(s, i + 1, Len(s))
<1>1. Len(s) \in Nat /\ \A j \in 1 .. Len(s) : s[j] \in S
  BY LenProperties, ElementOfSeq
<1>2. /\ l \in Seq(S) /\ Len(l) = i - 1
      /\ \A j \in 1 .. i - 1 : l[j] = s[j]
  <2>1. \A j \in 1 .. i - 1 : s[j] \in S
    BY <1>1
  <2>2. /\ l \in Seq(S) /\ Len(l) = IF 1 <= i - 1 THEN i - 1 - 1 + 1 ELSE 0
        /\ \A j \in 1 .. i - 1 - 1 + 1 : l[j] = s[1 + j - 1]
    BY <1>1, <2>1, SubSeqProperties, 1 \in Int, i - 1 \in Int
  <2>. HIDE DEF l
  <2>. QED  BY <2>2
<1>3. /\ r \in Seq(S) /\ Len(r) = Len(s) - i
      /\ \A j \in 1 .. Len(s) - i : r[j] = s[i + j]
  <2>1. \A j \in i + 1 .. Len(s) : s[j] \in S
    BY <1>1
  <2>2. /\ r \in Seq(S) /\ Len(r) = IF i + 1 <= Len(s) THEN Len(s) - (i + 1) + 1 ELSE 0
        /\ \A j \in 1 .. Len(s) - (i + 1) + 1 : r[j] = s[i + 1 + j - 1]
    BY <1>1, <2>1, SubSeqProperties, i + 1 \in Int, Len(s) \in Int
  <2>. HIDE DEF r
  <2>. QED  BY <1>1, <2>2
<1>. HIDE DEF l, r
<1>4. HK!RemoveAt(s, i) = l \o r
  BY DEF HK!RemoveAt, l, r
<1>5. /\ l \o r \in Seq(S) /\ Len(l \o r) = Len(l) + Len(r)
      /\ \A j \in 1 .. Len(l) + Len(r) :
            (l \o r)[j] = IF j <= Len(l) THEN l[j] ELSE r[j - Len(l)]
  BY <1>2, <1>3, ConcatProperties
<1>6. ASSUME NEW j \in 1 .. Len(s) - 1
      PROVE  (l \o r)[j] = IF j < i THEN s[j] ELSE s[j + 1]
  <2>1. j \in 1 .. Len(l) + Len(r)
    BY <1>1, <1>2, <1>3
  <2>2. (l \o r)[j] = IF j <= Len(l) THEN l[j] ELSE r[j - Len(l)]
    BY <1>5, <2>1
  <2>3. CASE j < i
    BY <1>2, <2>2, <2>3
  <2>4. CASE ~(j < i)
    <3>1. j - Len(l) \in 1 .. Len(s) - i /\ i + (j - Len(l)) = j + 1
      BY <1>1, <1>2, <2>4
    <3>. QED  BY <1>2, <1>3, <2>2, <2>4, <3>1
  <2>. QED  BY <2>3, <2>4
<1>. QED  BY <1>1, <1>2, <1>3, <1>4, <1>5, <1>6

(* Binding, renaming and removing one key. *)
LEMMA HKBounds ==
    ASSUME NEW s \in Seq(HKBinding), Distinct(s), NEW key \in Spellings,
           NEW command \in Commands \cup {HK!NoCommand}
    PROVE  HK!Bound(s, key, command) \in Seq(HKBinding) /\ Distinct(HK!Bound(s, key, command))
<1>. DEFINE i == HK!Find(s, key)  b == [key |-> key, command |-> command]
<1>1. i \in 0..Len(s) /\ (i = 0 => \A j \in 1..Len(s) : s[j].key # key)
  BY HKFinds
<1>2. HK!Bound(s, key, command) = IF i # 0 THEN [s EXCEPT ![i].command = command] ELSE Append(s, b)
  BY DEF HK!Bound
<1>. HIDE DEF i
<1>3. CASE i # 0
  <2>. DEFINE t == [s EXCEPT ![i].command = command]
  <2>1. i \in DOMAIN s /\ s[i] \in HKBinding
    BY <1>1, <1>3
  <2>2. [s[i] EXCEPT !.command = command] \in HKBinding /\ [s[i] EXCEPT !.command = command].key = s[i].key
    BY <2>1 DEF HKBinding
  <2>3. t = [s EXCEPT ![i] = [s[i] EXCEPT !.command = command]]
    OBVIOUS
  <2>4. t \in Seq(HKBinding) /\ DOMAIN t = DOMAIN s
    BY <2>1, <2>2, <2>3
  <2>5. \A j \in DOMAIN s : t[j].key = s[j].key
    BY <2>1, <2>2, <2>3
  <2> QED
    BY <1>2, <1>3, <2>4, <2>5 DEF Distinct
<1>4. CASE i = 0
  <2>. DEFINE t == Append(s, b)
  <2>1. b \in HKBinding /\ b.key = key
    BY DEF HKBinding
  <2>. HIDE DEF b
  <2>2. t \in Seq(HKBinding) /\ Len(t) = Len(s) + 1 /\ t[Len(s) + 1] = b
        /\ \A j \in 1..Len(s) : t[j] = s[j]
    BY <2>1
  <2>3. Distinct(t)
    BY <1>1, <1>4, <2>1, <2>2 DEF Distinct
  <2> QED
    BY <1>2, <1>4, <2>2, <2>3
<1> QED
  BY <1>3, <1>4

LEMMA HKRenames ==
    ASSUME NEW s \in Seq(HKBinding), Distinct(s), NEW i \in DOMAIN s, NEW key \in Spellings,
           \A j \in DOMAIN s : s[j].key # key
    PROVE  [s EXCEPT ![i].key = key] \in Seq(HKBinding) /\ Distinct([s EXCEPT ![i].key = key])
<1>. DEFINE t == [s EXCEPT ![i].key = key]  b == [s[i] EXCEPT !.key = key]
<1>0. s[i] \in HKBinding
  OBVIOUS
<1>1. b \in HKBinding /\ b.key = key
  BY <1>0 DEF HKBinding
<1>2. t = [s EXCEPT ![i] = b]
  OBVIOUS
<1>. HIDE DEF b
<1>3. t \in Seq(HKBinding) /\ DOMAIN t = DOMAIN s /\ t[i] = b /\ \A j \in DOMAIN s \ {i} : t[j] = s[j]
  BY <1>1, <1>2
<1>4. Distinct(t)
  BY <1>1, <1>3 DEF Distinct
<1> QED
  BY <1>3, <1>4

LEMMA HKUnbinds ==
    ASSUME NEW s \in Seq(HKBinding), Distinct(s), NEW key
    PROVE  LET t == HK!Unbound(s, key) IN
           /\ t \in Seq(HKBinding) /\ Distinct(t)
           /\ \A j \in DOMAIN t : t[j].key # key
<1>. DEFINE i == HK!Find(s, key)  t == HK!Unbound(s, key)
<1>1. /\ i \in 0..Len(s) /\ (i # 0 => s[i].key = key)
      /\ i = 0 => \A j \in 1..Len(s) : s[j].key # key
  BY HKFinds
<1>2. t = IF i = 0 THEN s ELSE HK!RemoveAt(s, i)
  BY DEF HK!Unbound
<1>. HIDE DEF i, t
<1>3. CASE i = 0
  BY <1>1, <1>2, <1>3 DEF t
<1>4. CASE i # 0
  <2>1. /\ t \in Seq(HKBinding) /\ Len(t) = Len(s) - 1
        /\ \A j \in 1..Len(t) : t[j] = IF j < i THEN s[j] ELSE s[j + 1]
    <3>1. i \in 1..Len(s)
      BY <1>1, <1>4
    <3> QED
      BY <1>2, <1>4, <3>1, HKRemoves
  <2>2. i \in 1..Len(s) /\ s[i].key = key
    BY <1>1, <1>4
  <2>3. ASSUME NEW j \in 1..Len(t) PROVE t[j].key # key
    <3>. DEFINE a == IF j < i THEN j ELSE j + 1
    <3>1. a \in DOMAIN s /\ i \in DOMAIN s /\ a # i /\ t[j] = s[a]
      BY <2>1, <2>2
    <3>. HIDE DEF a
    <3> QED
      BY Zenon, <2>2, <3>1 DEF Distinct
  <2>4. Distinct(t)
    <3>1. ASSUME NEW j \in 1..Len(t), NEW k \in 1..Len(t), t[j].key = t[k].key PROVE j = k
      <4>. DEFINE a == IF j < i THEN j ELSE j + 1  c == IF k < i THEN k ELSE k + 1
      <4>1. a \in 1..Len(s) /\ c \in 1..Len(s) /\ t[j] = s[a] /\ t[k] = s[c]
        BY <2>1, <2>2
      <4>2. a = c => j = k
        BY <2>1, <2>2
      <4>. HIDE DEF a, c
      <4> QED
        BY <3>1, <4>1, <4>2 DEF Distinct
    <3>2. DOMAIN t = 1..Len(t)
      BY <2>1
    <3> QED
      BY Zenon, <3>1, <3>2 DEF Distinct
  <2> QED
    BY <2>1, <2>3, <2>4 DEF t
<1> QED
  BY <1>3, <1>4

-----------------------------------------------------------------------------
(* The invariant. *)

HKBindings == {b \in Seq(HKBinding) : Distinct(b)}
HKCombo == {Meaning[k] : k \in Spellings}
HKState == [bindings : HKBindings, file : {HK!Missing, HK!Corrupt} \cup HKBindings,
            grabs : Seq(HKBinding), held : SUBSET HKCombo, foreign : SUBSET Contended,
            dialog : BOOLEAN, overlay : {"none", "add", "rebind", "edit"}, capture : BOOLEAN,
            rebind : HKRebind, editing : HKText, rows : Seq(HKRow), text : Commands \cup {""},
            selected : Nat, onTab : BOOLEAN]

(* The grabs are those of the bindings but during a capture, and held, all  *)
(* or none.                                                                 *)
HKHeld(h) == h.held = IF h.dialog THEN {} ELSE HK!CombosOf(h.grabs)
HKGrabs(h) == ~h.capture => h.grabs = HK!Grabbed(h.bindings)

(* A capture is that of its overlay; a replacement waits for its answer in  *)
(* the overlay of a rebinding, and the key it will bind is that of the      *)
(* binding it will remove.                                                  *)
HKCapture(h) ==
    /\ h.capture <=> h.overlay \in {"add", "rebind"}
    /\ h.rebind.active \/ h.rebind.asking => h.overlay = "rebind"
    /\ h.rebind.asking =>
          /\ h.rebind.conflict \in DOMAIN h.bindings
          /\ h.bindings[h.rebind.conflict].key = h.rebind.pending
HKGood(h) == h \in HKState /\ HKHeld(h) /\ HKGrabs(h) /\ HKCapture(h)
HKInv == HKGood(st)

(* The table of two states is the same: only what the tab shows differs.    *)
SameTable(h, t) ==
    /\ t.bindings = h.bindings /\ t.grabs = h.grabs /\ t.held = h.held
    /\ t.dialog = h.dialog /\ t.overlay = h.overlay /\ t.capture = h.capture
    /\ t.rebind = h.rebind

LEMMA HKSame == ASSUME NEW h, HKGood(h), NEW t \in HKState, SameTable(h, t) PROVE HKGood(t)
BY DEF HKGood, SameTable, HKHeld, HKGrabs, HKCapture

LEMMA HKNoRebind == HK!NoRebind \in HKRebind /\ ~HK!NoRebind.asking /\ ~HK!NoRebind.active
BY DEF HK!NoRebind, HKRebind, HKText

LEMMA HKCombos == ASSUME NEW g \in Seq(HKBinding) PROVE HK!CombosOf(g) \in SUBSET HKCombo
<1>1. ASSUME NEW i \in DOMAIN g PROVE g[i].key \in Spellings
  <2>1. g[i] \in HKBinding
    OBVIOUS
  <2> QED
    BY <2>1 DEF HKBinding
<1> QED
  BY <1>1 DEF HK!CombosOf, HKCombo

(* setup_hotkeys holds all keys or none. *)
LEMMA HKTries ==
    ASSUME NEW h \in HKState
    PROVE  LET t == HK!TryGrab(h) IN
           /\ t \in HKState /\ HKHeld(t)
           /\ t.bindings = h.bindings /\ t.file = h.file /\ t.grabs = h.grabs
           /\ t.overlay = h.overlay /\ t.capture = h.capture /\ t.rebind = h.rebind
<1>. DEFINE wanted == HK!CombosOf(h.grabs)  fails == wanted \cap h.foreign # {}
            t == HK!TryGrab(h)
<1>1. wanted \in SUBSET HKCombo
  BY HKCombos DEF HKState
<1>2. t = [h EXCEPT !.held = IF fails THEN {} ELSE wanted, !.dialog = fails]
  BY DEF HK!TryGrab
<1>3. fails \in BOOLEAN
  OBVIOUS
<1>. HIDE DEF fails, t
<1>4. /\ t \in HKState /\ t.held = (IF fails THEN {} ELSE wanted) /\ t.dialog = fails
      /\ t.bindings = h.bindings /\ t.file = h.file /\ t.grabs = h.grabs
      /\ t.overlay = h.overlay /\ t.capture = h.capture /\ t.rebind = h.rebind
  BY <1>1, <1>2, <1>3 DEF HKState
<1>5. HKHeld(t)
  BY <1>4 DEF HKHeld
<1> QED
  BY <1>4, <1>5 DEF t

LEMMA HKCleans ==
    ASSUME NEW h \in HKState
    PROVE  LET t == HK!Cleanup(h) IN
           /\ t \in HKState /\ t.grabs = <<>> /\ t.held = h.held \ HK!CombosOf(h.grabs)
           /\ t.bindings = h.bindings /\ t.file = h.file /\ t.dialog = h.dialog
           /\ t.overlay = h.overlay /\ t.capture = h.capture /\ t.rebind = h.rebind
<1>1. <<>> \in Seq(HKBinding)
  OBVIOUS
<1>2. h.held \ HK!CombosOf(h.grabs) \in SUBSET HKCombo
  BY DEF HKState
<1>. DEFINE held == h.held \ HK!CombosOf(h.grabs)
<1>3. HK!Cleanup(h) = [h EXCEPT !.held = held, !.grabs = <<>>]
  BY DEF HK!Cleanup
<1>. HIDE DEF held
<1>4. held \in SUBSET HKCombo
  BY <1>2 DEF held
<1>5. LET t == [h EXCEPT !.held = held, !.grabs = <<>>] IN
      /\ t \in HKState /\ t.grabs = <<>> /\ t.held = held
      /\ t.bindings = h.bindings /\ t.file = h.file /\ t.dialog = h.dialog
      /\ t.overlay = h.overlay /\ t.capture = h.capture /\ t.rebind = h.rebind
  BY <1>1, <1>4 DEF HKState
<1> QED
  BY <1>3, <1>5 DEF held

(* regrab_hotkeys: the grabs are those of the bindings again. *)
LEMMA HKRegrabs ==
    ASSUME NEW h \in HKState
    PROVE  LET t == HK!Regrab(h) IN
           /\ t \in HKState /\ HKHeld(t) /\ t.grabs = HK!Grabbed(h.bindings)
           /\ t.bindings = h.bindings /\ t.file = h.file
           /\ t.overlay = h.overlay /\ t.capture = h.capture /\ t.rebind = h.rebind
<1>. DEFINE c == HK!Cleanup(h)  d == [c EXCEPT !.grabs = HK!Grabbed(h.bindings)]  t == HK!Regrab(h)
<1>1. /\ c \in HKState /\ c.bindings = h.bindings /\ c.file = h.file
      /\ c.overlay = h.overlay /\ c.capture = h.capture /\ c.rebind = h.rebind
  BY HKCleans
<1>2. HK!Grabbed(h.bindings) \in Seq(HKBinding)
  <2>1. h.bindings \in Seq(HKBinding)
    BY DEF HKState, HKBindings
  <2> QED
    BY <2>1, HKLoads
<1>3. t = HK!TryGrab(d)
  BY Zenon DEF HK!Regrab
<1>. HIDE DEF c
<1>4. /\ d \in HKState /\ d.grabs = HK!Grabbed(h.bindings)
      /\ d.bindings = c.bindings /\ d.file = c.file
      /\ d.overlay = c.overlay /\ d.capture = c.capture /\ d.rebind = c.rebind
  BY <1>1, <1>2 DEF HKState
<1>. HIDE DEF d, t
<1>5. /\ t \in HKState /\ HKHeld(t)
      /\ t.bindings = d.bindings /\ t.file = d.file /\ t.grabs = d.grabs
      /\ t.overlay = d.overlay /\ t.capture = d.capture /\ t.rebind = d.rebind
  BY <1>3, <1>4, HKTries
<1> QED
  BY <1>1, <1>4, <1>5 DEF t

(* New bindings, and a save that fails or not. *)
HKKeeps(h, t) == /\ t.grabs = h.grabs /\ t.held = h.held /\ t.dialog = h.dialog
                 /\ t.overlay = h.overlay /\ t.capture = h.capture /\ t.rebind = h.rebind

LEMMA HKSaves ==
    ASSUME NEW h \in HKState, NEW ok
    PROVE  LET t == HK!Save(h, ok) IN t \in HKState /\ t.bindings = h.bindings /\ HKKeeps(h, t)
<1>1. HK!Save(h, ok) \in {h, [h EXCEPT !.file = h.bindings]}
  BY DEF HK!Save
<1> QED
  BY <1>1 DEF HKState, HKKeeps

LEMMA HKWrites ==
    ASSUME NEW h \in HKState, NEW b \in HKBindings, NEW ok
    PROVE  LET w == [h EXCEPT !.bindings = b]  t == HK!Save(w, ok) IN
           w \in HKState /\ t \in HKState /\ t.bindings = b /\ HKKeeps(h, t)
<1>. DEFINE w == [h EXCEPT !.bindings = b]  t == HK!Save(w, ok)
<1>1. w \in HKState /\ w.bindings = b /\ HKKeeps(h, w)
  BY DEF HKState, HKKeeps
<1>. HIDE DEF w
<1>2. t \in HKState /\ t.bindings = w.bindings /\ HKKeeps(w, t)
  BY <1>1, HKSaves
<1> QED
  BY <1>1, <1>2 DEF HKKeeps, w

(* hide_overlay ends a capture with a regrab, and forgets a replacement.    *)
LEMMA HKCloses ==
    ASSUME NEW h \in HKState, h.capture <=> h.overlay \in {"add", "rebind"},
           h.capture \/ (HKHeld(h) /\ HKGrabs(h)),
           h.rebind.active \/ h.rebind.asking => h.overlay = "rebind"
    PROVE  HKGood(HK!HideOverlay(h)) /\ HK!HideOverlay(h).bindings = h.bindings
<1>. DEFINE rebind == IF h.overlay = "rebind" THEN HK!NoRebind ELSE h.rebind
            c == [h EXCEPT !.overlay = "none", !.editing = "", !.rebind = rebind]
            d == [c EXCEPT !.capture = FALSE]
            t == HK!HideOverlay(h)
<1>1. rebind \in HKRebind /\ ~rebind.asking /\ ~rebind.active
  BY HKNoRebind DEF HKState, HKRebind
<1>2. t = IF h.overlay = "none" THEN h ELSE IF h.capture THEN HK!Regrab(d) ELSE c
  BY DEF HK!HideOverlay
<1>. HIDE DEF rebind, t
<1>3. /\ c \in HKState /\ c.overlay = "none" /\ c.rebind = rebind /\ c.capture = h.capture
      /\ c.bindings = h.bindings /\ c.grabs = h.grabs /\ c.held = h.held /\ c.dialog = h.dialog
  BY <1>1 DEF HKState, HKText
<1>. HIDE DEF c
<1>4. CASE h.overlay = "none"
  <2>1. ~h.capture /\ ~h.rebind.asking /\ ~h.rebind.active
    BY <1>4
  <2> QED
    BY <1>2, <1>4, <2>1 DEF HKGood, HKCapture, t
<1>5. CASE h.overlay # "none" /\ h.capture
  <2>1. d \in HKState /\ d.overlay = "none" /\ ~d.capture /\ d.rebind = rebind
        /\ d.bindings = h.bindings
    BY <1>3 DEF HKState
  <2>. HIDE DEF d
  <2>2. /\ t \in HKState /\ HKHeld(t) /\ t.grabs = HK!Grabbed(d.bindings)
        /\ t.bindings = d.bindings
        /\ t.overlay = d.overlay /\ t.capture = d.capture /\ t.rebind = d.rebind
    BY <1>2, <1>5, <2>1, HKRegrabs
  <2>3. HKGrabs(t) /\ HKCapture(t)
    BY <1>1, <2>1, <2>2 DEF HKGrabs, HKCapture
  <2> QED
    BY <1>1, <2>1, <2>2, <2>3 DEF HKGood, t
<1>6. CASE h.overlay # "none" /\ ~h.capture
  <2>1. t = c
    BY <1>2, <1>6
  <2>2. HKHeld(t) /\ HKGrabs(t)
    BY <1>3, <1>6, <2>1 DEF HKHeld, HKGrabs
  <2>3. HKCapture(t)
    BY <1>1, <1>3, <1>6, <2>1 DEF HKCapture
  <2> QED
    BY <1>3, <2>1, <2>2, <2>3 DEF HKGood, t
<1> QED
  BY <1>4, <1>5, <1>6

(* What only filters, selects or enters the tab. *)
LEMMA HKShows ==
    ASSUME NEW h \in HKState
    PROVE  /\ HK!Refilter(h) \in HKState /\ SameTable(h, HK!Refilter(h))
           /\ \A key : HK!SelectKey(h, key) \in HKState /\ SameTable(h, HK!SelectKey(h, key))
           /\ HK!EnterTab(h) \in HKState /\ SameTable(h, HK!EnterTab(h))
<1>1. ASSUME NEW g \in HKState
      PROVE  HK!Refilter(g) \in HKState /\ SameTable(g, HK!Refilter(g))
  <2>. DEFINE rows == HK!RowsFor(g.bindings, g.text)
              n == IF rows = <<>> THEN 1 ELSE IF g.selected > Len(rows) THEN Len(rows) ELSE g.selected
              t == HK!Refilter(g)
  <2>1. g.bindings \in Seq(HKBinding) /\ g.selected \in Nat
    BY DEF HKState, HKBindings
  <2>2. rows \in Seq(HKRow)
    BY <2>1, HKRowsFor
  <2>3. t = [g EXCEPT !.rows = rows, !.selected = n]
    BY DEF HK!Refilter
  <2>. HIDE DEF rows
  <2>4. n \in Nat
    BY <2>1, <2>2
  <2>. HIDE DEF n, t
  <2>5. t \in HKState
    BY <2>2, <2>3, <2>4 DEF HKState
  <2>6. SameTable(g, t)
    BY <2>3 DEF HKState, SameTable
  <2> QED
    BY <2>5, <2>6 DEF t
<1>2. ASSUME NEW key PROVE HK!SelectKey(h, key) \in HKState /\ SameTable(h, HK!SelectKey(h, key))
  <2>. DEFINE f == HK!Refilter(h)  n == HKRowOf(f.rows, key)  t == HK!SelectKey(h, key)
  <2>1. f \in HKState /\ SameTable(h, f)
    BY <1>1
  <2>2. t = IF key = "" THEN h ELSE [f EXCEPT !.selected = IF n = 0 THEN 1 ELSE n]
    BY Zenon DEF HK!SelectKey, HKRowOf
  <2>3. n \in Nat
    <3>. HIDE DEF f
    <3>1. f.rows \in Seq(HKRow)
      BY <2>1 DEF HKState
    <3>2. Len(f.rows) \in Nat
      BY <3>1
    <3> QED
      BY <3>2, HKFinds
  <2>. DEFINE m == IF n = 0 THEN 1 ELSE n
  <2>. HIDE DEF f, n, t
  <2>4. m \in Nat
    BY <2>3
  <2>5. t = h \/ t = [f EXCEPT !.selected = m]
    BY <2>2
  <2>. HIDE DEF m
  <2>. DEFINE u == [f EXCEPT !.selected = m]
  <2>6. u \in HKState
    BY <2>1, <2>4 DEF HKState
  <2>7. SameTable(f, u)
    BY <2>1 DEF HKState, SameTable
  <2>8. SameTable(h, u) /\ SameTable(h, h)
    BY <2>1, <2>7 DEF SameTable
  <2>9. t = h \/ t = u
    BY <2>5
  <2>. HIDE DEF u
  <2> QED
    BY <2>6, <2>8, <2>9 DEF t
<1>3. HK!EnterTab(h) \in HKState /\ SameTable(h, HK!EnterTab(h))
  <2>. DEFINE g == [h EXCEPT !.onTab = TRUE, !.text = "", !.selected = 1]
  <2>1. g \in HKState /\ SameTable(h, g)
    BY DEF HKState, SameTable
  <2>2. HK!EnterTab(h) = IF h.onTab THEN h ELSE HK!Refilter(g)
    BY DEF HK!EnterTab
  <2>. HIDE DEF g
  <2>3. HK!Refilter(g) \in HKState /\ SameTable(g, HK!Refilter(g))
    BY <2>1, <1>1
  <2> QED
    BY <2>1, <2>2, <2>3 DEF SameTable
<1> QED
  BY <1>1, <1>2, <1>3

(* A regrab during no question makes the table good again, and so does the  *)
(* end of any overlay.                                                      *)
LEMMA HKSettles ==
    ASSUME NEW h \in HKState, HKCapture(h)
    PROVE  /\ HKGood(HK!Regrab(h)) /\ HK!Regrab(h).bindings = h.bindings
           /\ h.capture \/ (HKHeld(h) /\ HKGrabs(h)) =>
                  HKGood(HK!HideOverlay(h)) /\ HK!HideOverlay(h).bindings = h.bindings
<1>. DEFINE t == HK!Regrab(h)
<1>1. /\ t \in HKState /\ HKHeld(t) /\ t.grabs = HK!Grabbed(h.bindings)
      /\ t.bindings = h.bindings /\ t.file = h.file
      /\ t.overlay = h.overlay /\ t.capture = h.capture /\ t.rebind = h.rebind
  BY HKRegrabs
<1>. HIDE DEF t
<1>2. HKGrabs(t) /\ HKCapture(t)
  BY <1>1 DEF HKGrabs, HKCapture
<1>3. h.capture \/ (HKHeld(h) /\ HKGrabs(h)) =>
          HKGood(HK!HideOverlay(h)) /\ HK!HideOverlay(h).bindings = h.bindings
  BY HKCloses DEF HKCapture
<1> QED
  BY <1>1, <1>2, <1>3 DEF HKGood, t

-----------------------------------------------------------------------------
(* Each action. *)

LEMMA HKRowAt == ASSUME NEW h \in HKState, NEW n \in DOMAIN h.rows PROVE n \in Nat /\ h.rows[n] \in HKRow
<1>1. h.rows \in Seq(HKRow)
  BY DEF HKState
<1> QED
  BY <1>1

(* Those that only look: text, selection, the tab, the edit overlay, the    *)
(* grabs of others.                                                         *)
LEMMA HKViewSteps ==
    ASSUME HKInv,
           \/ \E text \in Commands \cup {""} : HK!Type(text)
           \/ \E n \in 1..MaxBindings : HK!Select(n)
           \/ HK!Enter \/ HK!StartEdit
           \/ \E c \in Contended : HK!ForeignGrab(c) \/ HK!ForeignRelease(c)
    PROVE  HKInv'
<1>1. HKGood(st) /\ st \in HKState
  BY DEF HKInv, HKGood
<1>2. ASSUME NEW text \in Commands \cup {""}, HK!Type(text) PROVE HKInv'
  <2>. DEFINE g == [st EXCEPT !.text = text, !.selected = 1]
  <2>1. g \in HKState /\ SameTable(st, g)
    BY <1>1 DEF HKState, SameTable
  <2>2. st' = HK!Refilter(g)
    BY <1>2 DEF HK!Type
  <2>. HIDE DEF g
  <2>3. st' \in HKState /\ SameTable(g, st')
    BY <2>1, <2>2, HKShows
  <2>4. SameTable(st, st')
    BY <2>1, <2>3 DEF SameTable
  <2> QED
    BY <1>1, <2>3, <2>4, HKSame DEF HKInv
<1>3. ASSUME NEW n \in 1..MaxBindings, HK!Select(n) PROVE HKInv'
  <2>1. n \in DOMAIN st.rows /\ st' = [st EXCEPT !.selected = n]
    BY <1>3 DEF HK!Select
  <2>2. n \in Nat
    BY <1>1, <2>1, HKRowAt
  <2>3. st' \in HKState /\ SameTable(st, st')
    BY <1>1, <2>1, <2>2 DEF HKState, SameTable
  <2> QED
    BY <1>1, <2>3, HKSame DEF HKInv
<1>4. ASSUME HK!Enter PROVE HKInv'
  <2>1. st' = HK!EnterTab(st)
    BY <1>4 DEF HK!Enter
  <2>2. st' \in HKState /\ SameTable(st, st')
    BY <1>1, <2>1, HKShows
  <2> QED
    BY <1>1, <2>2, HKSame DEF HKInv
<1>5. ASSUME HK!StartEdit PROVE HKInv'
  <2>1. /\ st.overlay = "none" /\ st.selected \in DOMAIN st.rows
        /\ st' = [st EXCEPT !.overlay = "edit", !.editing = st.rows[st.selected].binding.key]
    BY <1>5 DEF HK!StartEdit, HK!AtTab, HK!HasRow, HK!Row
  <2>2. st.rows[st.selected] \in HKRow
    BY <1>1, <2>1, HKRowAt
  <2>3. st.rows[st.selected].binding.key \in HKText
    BY <2>2 DEF HKRow, HKBinding, HKText
  <2>4. /\ st' \in HKState /\ st'.bindings = st.bindings /\ st'.grabs = st.grabs
        /\ st'.held = st.held /\ st'.dialog = st.dialog /\ st'.overlay = "edit"
        /\ st'.capture = st.capture /\ st'.rebind = st.rebind
    BY <1>1, <2>1, <2>3 DEF HKState
  <2>5. ~st.capture /\ ~st.rebind.active /\ ~st.rebind.asking
    BY <1>1, <2>1 DEF HKGood, HKCapture
  <2> QED
    BY <1>1, <2>4, <2>5 DEF HKInv, HKGood, HKHeld, HKGrabs, HKCapture
<1>6. ASSUME NEW c \in Contended, HK!ForeignGrab(c) \/ HK!ForeignRelease(c) PROVE HKInv'
  <2>1. \E f \in SUBSET Contended : st' = [st EXCEPT !.foreign = f]
    BY <1>1, <1>6 DEF HK!ForeignGrab, HK!ForeignRelease, HKState
  <2>2. st' \in HKState /\ SameTable(st, st')
    BY <1>1, <2>1 DEF HKState, SameTable
  <2> QED
    BY <1>1, <2>2, HKSame DEF HKInv
<1> QED
  BY <1>2, <1>3, <1>4, <1>5, <1>6

(* A capture releases every key, and with it nothing is grabbed.            *)
LEMMA HKCaptures ==
    ASSUME HKInv, st.overlay = "none", ~st.dialog, NEW o \in {"add", "rebind"},
           NEW r \in HKRebind, ~r.asking, r.active => o = "rebind",
           NEW h, h = [HK!Cleanup(st) EXCEPT !.capture = TRUE, !.overlay = o, !.rebind = r]
    PROVE  HKGood(h)
<1>. DEFINE c == HK!Cleanup(st)
<1>1. st \in HKState /\ HKHeld(st)
  BY DEF HKInv, HKGood
<1>2. c \in HKState /\ c.grabs = <<>> /\ c.held = st.held \ HK!CombosOf(st.grabs) /\ c.dialog = st.dialog
  BY <1>1, HKCleans
<1>3. h = [c EXCEPT !.capture = TRUE, !.overlay = o, !.rebind = r]
  OBVIOUS
<1>. HIDE DEF c
<1>4. c.held = {}
  BY <1>1, <1>2 DEF HKHeld
<1>5. HK!CombosOf(<<>>) = {}
  BY DEF HK!CombosOf
<1>6. h \in HKState
  BY <1>2, <1>3 DEF HKState
<1>7. /\ h.grabs = <<>> /\ h.held = {} /\ h.dialog = st.dialog
      /\ h.capture /\ h.overlay = o /\ h.rebind = r
  BY <1>2, <1>3, <1>4 DEF HKState
<1>8. HKHeld(h)
  BY <1>5, <1>7 DEF HKHeld
<1>9. HKGrabs(h) /\ HKCapture(h)
  BY <1>7 DEF HKGrabs, HKCapture
<1> QED
  BY <1>6, <1>8, <1>9 DEF HKGood

LEMMA HKStartSteps ==
    ASSUME HKInv, HK!StartAdd \/ HK!StartRebind
    PROVE  HKInv'
<1>1. st \in HKState /\ HKCapture(st)
  BY DEF HKInv, HKGood
<1>2. ASSUME HK!StartAdd PROVE HKInv'
  <2>1. /\ st.overlay = "none" /\ ~st.dialog
        /\ st' = [HK!Cleanup(st) EXCEPT !.capture = TRUE, !.overlay = "add"]
    BY <1>2 DEF HK!StartAdd, HK!AtTab
  <2>2. st.rebind \in HKRebind /\ ~st.rebind.asking /\ ~st.rebind.active
    BY <1>1, <2>1 DEF HKState, HKCapture
  <2>3. HK!Cleanup(st) \in HKState /\ HK!Cleanup(st).rebind = st.rebind
    BY <1>1, HKCleans
  <2>. DEFINE c == HK!Cleanup(st)
  <2>. HIDE DEF c
  <2>4. st' = [c EXCEPT !.capture = TRUE, !.overlay = "add", !.rebind = st.rebind]
    BY <2>1, <2>3 DEF HKState, c
  <2> QED
    BY <2>1, <2>2, <2>4, HKCaptures DEF HKInv, c
<1>3. ASSUME HK!StartRebind PROVE HKInv'
  <2>. DEFINE row == st.rows[st.selected]
              r == [HK!NoRebind EXCEPT !.active = TRUE, !.index = row.index, !.key = row.binding.key,
                                       !.command = row.binding.command]
  <2>1. /\ st.overlay = "none" /\ ~st.dialog /\ st.selected \in DOMAIN st.rows
        /\ st' = [HK!Cleanup(st) EXCEPT !.capture = TRUE, !.overlay = "rebind", !.rebind = r]
    BY <1>3 DEF HK!StartRebind, HK!AtTab, HK!HasRow, HK!Row
  <2>2. row \in HKRow
    <3>1. st.rows \in Seq(HKRow)
      BY <1>1 DEF HKState
    <3> QED
      BY <2>1, <3>1
  <2>3. row.index \in Nat /\ row.binding.key \in HKText
        /\ row.binding.command \in Commands \cup {HK!NoCommand}
    BY <2>2 DEF HKRow, HKBinding, HKText
  <2>. HIDE DEF row
  <2>4. r \in HKRebind /\ ~r.asking
    BY <2>3, HKNoRebind DEF HKRebind
  <2>. HIDE DEF r
  <2> QED
    BY <2>1, <2>4, HKCaptures DEF HKInv
<1> QED
  BY <1>2, <1>3

(* Delete and the commands: bindings are written and grabbed again.         *)
LEMMA HKRebinds ==
    ASSUME HKInv, ~st.rebind.asking, NEW b \in HKBindings, NEW ok,
           NEW w, w = HK!Save([st EXCEPT !.bindings = b], ok)
    PROVE  HKGood(HK!Regrab(w))
<1>1. st \in HKState /\ HKCapture(st)
  BY DEF HKInv, HKGood
<1>2. w \in HKState /\ w.bindings = b /\ HKKeeps(st, w)
  BY <1>1, HKWrites
<1>3. HKCapture(w)
  BY <1>1, <1>2 DEF HKCapture, HKKeeps
<1> QED
  BY <1>2, <1>3, HKSettles

LEMMA HKDeleteStep == ASSUME HKInv, NEW ok \in Saves, HK!Delete(ok) PROVE HKInv'
<1>. DEFINE key == HK!Row.binding.key  b == HK!Unbound(st.bindings, key)
            w == HK!Save([st EXCEPT !.bindings = b], ok)  t == HK!Regrab(w)
<1>1. st \in HKState /\ HKCapture(st) /\ st.overlay = "none"
  BY DEF HKInv, HKGood, HK!Delete, HK!AtTab
<1>2. ~st.rebind.asking
  BY <1>1 DEF HKCapture
<1>3. st' = HK!Refilter(t)
  BY DEF HK!Delete
<1>4. st.bindings \in Seq(HKBinding) /\ Distinct(st.bindings)
  BY <1>1 DEF HKState, HKBindings
<1>5. b \in HKBindings
  BY <1>4, HKUnbinds DEF HKBindings
<1>6. w = HK!Save([st EXCEPT !.bindings = b], ok)
  OBVIOUS
<1>. HIDE DEF b, w
<1>7. HKGood(t)
  BY <1>2, <1>5, <1>6, HKRebinds
<1>. HIDE DEF t
<1>8. st' \in HKState /\ SameTable(t, st')
  BY <1>3, <1>7, HKShows DEF HKGood
<1> QED
  BY <1>7, <1>8, HKSame DEF HKInv

LEMMA HKSaveEditStep ==
    ASSUME HKInv, NEW command \in Commands, NEW ok \in Saves, HK!SaveEdit(command, ok) PROVE HKInv'
<1>. DEFINE i == HK!Find(st.bindings, st.editing)
            b == [st.bindings EXCEPT ![i].command = command]
            w == HK!Save([st EXCEPT !.bindings = b], ok)
            edited == IF i = 0 THEN st ELSE HK!Regrab(w)
            closed == HK!HideOverlay(edited)
<1>1. HKGood(st) /\ st \in HKState /\ HKCapture(st) /\ st.overlay = "edit"
  BY DEF HKInv, HKGood, HK!SaveEdit
<1>2. ~st.rebind.asking
  BY <1>1 DEF HKCapture
<1>3. st' = HK!Refilter(closed)
  <2>1. w = HK!Save([st EXCEPT !.bindings[i].command = command], ok)
    OBVIOUS
  <2> QED
    BY Zenon, <2>1 DEF HK!SaveEdit
<1>4. st.bindings \in Seq(HKBinding) /\ Distinct(st.bindings)
  BY <1>1 DEF HKState, HKBindings
<1>5. ASSUME i # 0 PROVE b \in HKBindings
  <2>1. Len(st.bindings) \in Nat
    BY <1>4
  <2>2. i \in 0..Len(st.bindings) /\ st.bindings[i].key = st.editing
    BY <1>5, <2>1, HKFinds
  <2>3. i \in 1..Len(st.bindings)
    BY <1>5, <2>1, <2>2
  <2>4. st.editing \in Spellings
    <3>1. st.bindings[i] \in HKBinding
      BY <1>4, <2>3
    <3> QED
      BY <2>2, <3>1 DEF HKBinding
  <2>5. b = HK!Bound(st.bindings, st.editing, command)
    BY <1>5 DEF HK!Bound
  <2>6. command \in Commands \cup {HK!NoCommand}
    OBVIOUS
  <2>7. /\ HK!Bound(st.bindings, st.editing, command) \in Seq(HKBinding)
        /\ Distinct(HK!Bound(st.bindings, st.editing, command))
    BY <1>4, <2>4, <2>6, HKBounds
  <2>. HIDE DEF b
  <2> QED
    BY Zenon, <2>5, <2>7 DEF HKBindings
<1>6. w = HK!Save([st EXCEPT !.bindings = b], ok)
  OBVIOUS
<1>. HIDE DEF i, b, w
<1>7. HKGood(edited)
  <2>1. ASSUME i # 0 PROVE HKGood(HK!Regrab(w))
    BY <1>2, <1>5, <1>6, <2>1, HKRebinds
  <2> QED
    BY <1>1, <2>1
<1>. HIDE DEF edited
<1>8. HKGood(closed)
  BY <1>7, HKSettles DEF HKGood
<1>. HIDE DEF closed
<1>9. st' \in HKState /\ SameTable(closed, st')
  BY <1>3, <1>8, HKShows DEF HKGood
<1> QED
  BY <1>8, <1>9, HKSame DEF HKInv

(* :hotkeys, typed or run by a rule while an overlay is open. *)
LEMMA HKAfter ==
    ASSUME NEW h, HKGood(h), NEW typed
    PROVE  HKGood(HK!AfterCommand(h, typed))
<1>. DEFINE g == [h EXCEPT !.text = "", !.selected = 1]  t == HK!AfterCommand(h, typed)
<1>1. h \in HKState
  BY DEF HKGood
<1>2. g \in HKState /\ SameTable(h, g)
  BY <1>1 DEF HKState, SameTable
<1>3. t = HK!Refilter(g) \/ t = HK!EnterTab(h)
  BY DEF HK!AfterCommand
<1>. HIDE DEF g, t
<1>4. HKGood(g)
  BY <1>2, HKSame
<1>5. CASE t = HK!Refilter(g)
  <2>1. t \in HKState /\ SameTable(g, t)
    BY <1>2, <1>5, HKShows
  <2> QED
    BY <1>4, <2>1, HKSame DEF t
<1>6. CASE t = HK!EnterTab(h)
  <2>1. t \in HKState /\ SameTable(h, t)
    BY <1>1, <1>6, HKShows
  <2> QED
    BY <2>1, HKSame DEF t
<1> QED
  BY <1>3, <1>5, <1>6

LEMMA HKCommandSteps ==
    ASSUME HKInv, NEW key \in Spellings, NEW typed \in BOOLEAN, NEW ok \in Saves,
           \/ HK!UnbindCommand(key, typed, ok)
           \/ \E command \in Commands : HK!BindCommand(key, command, typed, ok)
    PROVE  HKInv'
<1>1. HKGood(st) /\ st \in HKState
  BY DEF HKInv, HKGood
<1>2. st.bindings \in Seq(HKBinding) /\ Distinct(st.bindings) /\ st.bindings \in HKBindings
  BY <1>1 DEF HKState, HKBindings
<1>3. ASSUME NEW command \in Commands, HK!BindCommand(key, command, typed, ok) PROVE HKInv'
  <2>. DEFINE b == IF HK!CanBind(st.bindings, key) THEN HK!Bound(st.bindings, key, command)
                   ELSE st.bindings
              w == HK!Save([st EXCEPT !.bindings = b], ok)
  <2>1. ~st.rebind.asking
    BY <1>3 DEF HK!BindCommand, HK!MayRun
  <2>2. b \in HKBindings
    BY <1>2, HKBounds DEF HKBindings
  <2>3. st' = HK!AfterCommand(HK!Regrab(w), typed)
    <3>1. st = [st EXCEPT !.bindings = st.bindings]
      BY <1>1 DEF HKState
    <3>2. [st EXCEPT !.bindings = b] =
              IF HK!CanBind(st.bindings, key)
              THEN [st EXCEPT !.bindings = HK!Bound(st.bindings, key, command)] ELSE st
      BY <3>1
    <3> QED
      BY <1>3, <3>2 DEF HK!BindCommand
  <2>4. w = HK!Save([st EXCEPT !.bindings = b], ok)
    OBVIOUS
  <2>. HIDE DEF b, w
  <2>5. HKGood(HK!Regrab(w))
    BY <2>1, <2>2, <2>4, HKRebinds
  <2> QED
    BY <2>3, <2>5, HKAfter DEF HKInv
<1>4. ASSUME HK!UnbindCommand(key, typed, ok) PROVE HKInv'
  <2>. DEFINE b == HK!Unbound(st.bindings, key)
              w == HK!Save([st EXCEPT !.bindings = b], ok)
              removed == IF key \in HK!Keys(st.bindings) THEN HK!Regrab(w) ELSE st
  <2>1. ~st.rebind.asking
    BY <1>4 DEF HK!UnbindCommand, HK!MayRun
  <2>2. b \in HKBindings
    BY <1>2, HKUnbinds DEF HKBindings
  <2>3. st' = HK!AfterCommand(removed, typed)
    BY <1>4 DEF HK!UnbindCommand
  <2>4. w = HK!Save([st EXCEPT !.bindings = b], ok)
    OBVIOUS
  <2>. HIDE DEF b, w
  <2>5. HKGood(HK!Regrab(w))
    BY <2>1, <2>2, <2>4, HKRebinds
  <2>6. HKGood(removed)
    BY <1>1, <2>5
  <2>. HIDE DEF removed
  <2> QED
    BY <2>3, <2>6, HKAfter DEF HKInv
<1> QED
  BY <1>3, <1>4

(* A key that is taken ends the capture, or asks whether to replace it.     *)
LEMMA HKTakes ==
    ASSUME HKInv, st.overlay \in {"add", "rebind"}, NEW b \in HKBindings, NEW ok, NEW key,
           NEW w, w = HK!Save([st EXCEPT !.bindings = b], ok)
    PROVE  /\ HKGood(HK!HideOverlay(w))
           /\ HKGood(HK!SelectKey(HK!HideOverlay(w), key))
<1>. DEFINE c == HK!HideOverlay(w)  t == HK!SelectKey(c, key)
<1>1. st \in HKState /\ HKCapture(st)
  BY DEF HKInv, HKGood
<1>2. w \in HKState /\ HKKeeps(st, w)
  BY <1>1, HKWrites
<1>3. /\ w.capture <=> w.overlay \in {"add", "rebind"}
      /\ w.capture
      /\ w.rebind.active \/ w.rebind.asking => w.overlay = "rebind"
  BY <1>1, <1>2 DEF HKCapture, HKKeeps
<1>4. HKGood(c)
  BY <1>2, <1>3, HKCloses
<1>. HIDE DEF c
<1>5. t \in HKState /\ SameTable(c, t)
  BY <1>4, HKShows DEF HKGood
<1> QED
  BY <1>4, <1>5, HKSame DEF c, t

LEMMA HKShortcutStep ==
    ASSUME HotkeysFit, HKInv, NEW c \in Combos, NEW ok \in Saves, HK!Shortcut(c, ok) PROVE HKInv'
<1>. DEFINE key == Canonical[c]  existing == HK!Find(st.bindings, key)
<1>1. HKGood(st) /\ st \in HKState /\ HKCapture(st)
  BY DEF HKInv, HKGood
<1>2. st.bindings \in Seq(HKBinding) /\ Distinct(st.bindings)
  BY <1>1 DEF HKState, HKBindings
<1>3. key \in Spellings
  BY DEF HotkeysFit
<1>4. ~st.dialog /\ st.overlay \in {"add", "rebind"} /\ ~st.rebind.asking
  BY DEF HK!Shortcut
<1>5. st.capture
  BY <1>1, <1>4 DEF HKCapture
<1>6. IF st.rebind.active
      THEN IF existing = st.rebind.index \/ key = st.rebind.key THEN st' = HK!HideOverlay(st)
           ELSE IF existing # 0
           THEN st' = [st EXCEPT !.rebind.asking = TRUE, !.rebind.conflict = existing,
                                 !.rebind.pending = key]
           ELSE st' = HK!ApplyRebind(st, key, ok)
      ELSE IF existing # 0 \/ ~HK!CanBind(st.bindings, key) THEN st' = st
      ELSE st' = HK!SelectKey(HK!HideOverlay(HK!Save(
                     [st EXCEPT !.bindings = HK!Bound(st.bindings, key, HK!NoCommand)], ok)), key)
  BY <1>5 DEF HK!Shortcut
<1>7. /\ existing \in 0..Len(st.bindings)
      /\ existing # 0 => st.bindings[existing].key = key
      /\ existing = 0 => \A i \in 1..Len(st.bindings) : st.bindings[i].key # key
  BY <1>2, HKFinds
<1>. HIDE DEF key, existing
<1>8. ASSUME st' = HK!HideOverlay(st) PROVE HKInv'
  BY <1>1, <1>5, <1>8, HKSettles DEF HKInv
<1>9. ASSUME st.rebind.active, existing # 0,
             st' = [st EXCEPT !.rebind.asking = TRUE, !.rebind.conflict = existing,
                              !.rebind.pending = key]
      PROVE  HKInv'
  <2>. DEFINE r == [st.rebind EXCEPT !.asking = TRUE, !.conflict = existing, !.pending = key]
  <2>1. st.rebind \in HKRebind /\ existing \in Nat /\ existing \in DOMAIN st.bindings
    <3>1. st.rebind \in HKRebind
      BY <1>1 DEF HKState
    <3>2. DOMAIN st.bindings = 1..Len(st.bindings) /\ Len(st.bindings) \in Nat
      BY <1>2
    <3>3. existing \in Nat /\ existing \in 1..Len(st.bindings)
      BY <1>7, <1>9, <3>2
    <3>. QED  BY <3>1, <3>2, <3>3
  <2>2. r \in HKRebind /\ r.conflict = existing /\ r.pending = key
    BY <1>3, <2>1 DEF HKRebind, HKText
  <2>3. st' = [st EXCEPT !.rebind = r]
    BY <1>1, <1>9 DEF HKState
  <2>. HIDE DEF r
  <2>4. /\ st' \in HKState /\ st'.bindings = st.bindings /\ st'.grabs = st.grabs
        /\ st'.held = st.held /\ st'.dialog = st.dialog /\ st'.overlay = st.overlay
        /\ st'.capture = st.capture /\ st'.rebind = r
    BY <1>1, <2>2, <2>3 DEF HKState
  <2>5. HKHeld(st') /\ HKGrabs(st')
    BY <1>1, <2>4 DEF HKGood, HKHeld, HKGrabs
  <2>6. HKCapture(st')
    BY <1>1, <1>7, <1>9, <2>1, <2>2, <2>4 DEF HKCapture
  <2> QED
    BY <2>4, <2>5, <2>6 DEF HKInv, HKGood
<1>10. ASSUME st.rebind.active, existing = 0, st' = HK!ApplyRebind(st, key, ok) PROVE HKInv'
  <2>. DEFINE i == st.rebind.index
              b == IF i \in DOMAIN st.bindings THEN [st.bindings EXCEPT ![i].key = key] ELSE st.bindings
              w == HK!Save([st EXCEPT !.bindings = b], ok)
  <2>1. \A j \in DOMAIN st.bindings : st.bindings[j].key # key
    BY <1>2, <1>7, <1>10
  <2>2. b \in HKBindings
    BY <1>2, <1>3, <2>1, HKRenames DEF HKBindings
  <2>3. st' = HK!SelectKey(HK!HideOverlay(w), key)
    BY <1>10 DEF HK!ApplyRebind
  <2>4. w = HK!Save([st EXCEPT !.bindings = b], ok)
    OBVIOUS
  <2>. HIDE DEF b, w
  <2> QED
    BY <1>4, <2>2, <2>3, <2>4, HKTakes DEF HKInv
<1>11. ASSUME existing = 0,
              st' = HK!SelectKey(HK!HideOverlay(HK!Save(
                        [st EXCEPT !.bindings = HK!Bound(st.bindings, key, HK!NoCommand)], ok)), key)
       PROVE  HKInv'
  <2>. DEFINE b == HK!Bound(st.bindings, key, HK!NoCommand)
              w == HK!Save([st EXCEPT !.bindings = b], ok)
  <2>1. b \in HKBindings
    BY <1>2, <1>3, HKBounds DEF HKBindings
  <2>2. st' = HK!SelectKey(HK!HideOverlay(w), key) /\ w = HK!Save([st EXCEPT !.bindings = b], ok)
    BY <1>11
  <2>. HIDE DEF b, w
  <2> QED
    BY <1>4, <2>1, <2>2, HKTakes DEF HKInv
<1>12. ASSUME st' = st PROVE HKInv'
  BY <1>1, <1>12 DEF HKInv
<1> QED
  BY <1>6, <1>8, <1>9, <1>10, <1>11, <1>12

(* The binding in the way is removed first, so that no key is bound twice.  *)
LEMMA HKConfirmStep == ASSUME HKInv, NEW ok \in Saves, HK!ConfirmReplace(ok) PROVE HKInv'
<1>. DEFINE i == st.rebind.conflict
            left == IF i \in DOMAIN st.bindings THEN HK!Unbound(st.bindings, st.bindings[i].key)
                    ELSE st.bindings
            j == HK!Find(left, st.rebind.key)
            b == IF j = 0 THEN left ELSE [left EXCEPT ![j].key = st.rebind.pending]
            w == HK!Save([st EXCEPT !.bindings = b], ok)
            closed == HK!HideOverlay(w)
<1>1. st \in HKState /\ HKCapture(st) /\ st.rebind.asking
  BY DEF HKInv, HKGood, HK!ConfirmReplace
<1>2. st.bindings \in Seq(HKBinding) /\ Distinct(st.bindings)
  BY <1>1 DEF HKState, HKBindings
<1>3. st.overlay = "rebind" /\ i \in DOMAIN st.bindings /\ st.bindings[i].key = st.rebind.pending
  BY <1>1 DEF HKCapture
<1>4. st.rebind.pending \in Spellings
  <2>1. st.bindings[i] \in HKBinding
    BY <1>2, <1>3
  <2> QED
    BY <1>3, <2>1 DEF HKBinding
<1>5. st' = HK!SelectKey(closed, closed.rebind.pending)
  <2>1. HK!Save(IF j = 0 THEN [st EXCEPT !.bindings = left]
                ELSE [st EXCEPT !.bindings = [left EXCEPT ![j].key = st.rebind.pending]], ok) = w
    OBVIOUS
  <2> QED
    BY Zenon DEF HK!ConfirmReplace
<1>6. left = HK!Unbound(st.bindings, st.rebind.pending)
  BY <1>3
<1>. HIDE DEF left
<1>7. left \in Seq(HKBinding) /\ Distinct(left) /\ \A k \in DOMAIN left : left[k].key # st.rebind.pending
  BY <1>2, <1>6, HKUnbinds
<1>8. j \in 0..Len(left) /\ Len(left) \in Nat
  BY <1>7, HKFinds
<1>. HIDE DEF j
<1>9. b \in HKBindings
  <2>1. CASE j = 0
    BY <1>7, <2>1 DEF HKBindings
  <2>2. CASE j # 0
    <3>1. j \in DOMAIN left
      BY <1>7, <1>8, <2>2
    <3> QED
      BY <1>4, <1>7, <2>2, <3>1, HKRenames DEF HKBindings
  <2> QED
    BY <2>1, <2>2
<1>10. w = HK!Save([st EXCEPT !.bindings = b], ok)
  OBVIOUS
<1>. HIDE DEF b, w
<1>11. HKGood(HK!SelectKey(closed, closed.rebind.pending))
  BY <1>3, <1>9, <1>10, HKTakes
<1> QED
  BY <1>5, <1>11 DEF HKInv

(* Leaving, cancelling, trying again, and the start of the program.         *)
LEMMA HKEndSteps == ASSUME HKInv, HK!Cancel \/ HK!LeaveTab \/ HK!Retry PROVE HKInv'
<1>1. HKGood(st) /\ st \in HKState
  BY DEF HKInv, HKGood
<1>2. ASSUME HK!Cancel PROVE HKInv'
  BY <1>1, <1>2, HKSettles DEF HK!Cancel, HKInv, HKGood
<1>3. ASSUME HK!LeaveTab PROVE HKInv'
  <2>. DEFINE g == [st EXCEPT !.onTab = FALSE, !.text = "", !.rows = <<>>, !.selected = 1]
  <2>1. g \in HKState /\ SameTable(st, g)
    <3>1. <<>> \in Seq(HKRow) /\ "" \in Commands \cup {""} /\ 1 \in Nat
      OBVIOUS
    <3>2. g \in HKState
      BY <1>1, <3>1 DEF HKState
    <3>3. SameTable(st, g)
      BY <1>1 DEF HKState, SameTable
    <3>. QED  BY <3>2, <3>3
  <2>2. st' = HK!HideOverlay(g)
    BY <1>3 DEF HK!LeaveTab
  <2>. HIDE DEF g
  <2>3. HKGood(g)
    BY <1>1, <2>1, HKSame
  <2> QED
    BY <2>2, <2>3, HKSettles DEF HKInv, HKGood
<1>4. ASSUME HK!Retry PROVE HKInv'
  <2>1. st' = HK!TryGrab(st)
    BY <1>4 DEF HK!Retry
  <2>2. /\ st' \in HKState /\ HKHeld(st')
        /\ st'.bindings = st.bindings /\ st'.file = st.file /\ st'.grabs = st.grabs
        /\ st'.overlay = st.overlay /\ st'.capture = st.capture /\ st'.rebind = st.rebind
    BY <1>1, <2>1, HKTries
  <2> QED
    BY <1>1, <2>2 DEF HKInv, HKGood, HKGrabs, HKCapture
<1> QED
  BY <1>2, <1>3, <1>4

LEMMA HKStarts ==
    ASSUME HotkeysFit, NEW file \in {HK!Missing, HK!Corrupt} \cup HKBindings,
           NEW foreign \in SUBSET Contended, NEW ok
    PROVE  HKGood(HK!Start(file, foreign, ok))
<1>1. ASSUME NEW b \in HKBindings, NEW f \in {HK!Missing, HK!Corrupt} \cup HKBindings
      PROVE  HKGood(HK!Fresh(b, f, foreign))
  <2>. DEFINE g == [bindings |-> b, file |-> f, grabs |-> HK!Grabbed(b),
                    held |-> {}, foreign |-> foreign, dialog |-> FALSE, overlay |-> "none",
                    capture |-> FALSE, rebind |-> HK!NoRebind, editing |-> "",
                    rows |-> <<>>, text |-> "", selected |-> 1, onTab |-> FALSE]
              t == HK!Fresh(b, f, foreign)
  <2>1. HK!Grabbed(b) \in Seq(HKBinding)
    BY HKLoads DEF HKBindings
  <2>2. g \in HKState
    BY <2>1, HKNoRebind DEF HKState, HKText
  <2>3. /\ g.bindings = b /\ g.grabs = HK!Grabbed(b) /\ g.overlay = "none" /\ ~g.capture
        /\ g.rebind = HK!NoRebind
    OBVIOUS
  <2>4. t = HK!TryGrab(g)
    BY DEF HK!Fresh
  <2>. HIDE DEF g, t
  <2>5. /\ t \in HKState /\ HKHeld(t)
        /\ t.bindings = g.bindings /\ t.file = g.file /\ t.grabs = g.grabs
        /\ t.overlay = g.overlay /\ t.capture = g.capture /\ t.rebind = g.rebind
    BY <2>2, <2>4, HKTries
  <2> QED
    BY <2>3, <2>5, HKNoRebind DEF HKGood, HKGrabs, HKCapture, t
<1>2. Defaults \in HKBindings
  BY DEF HotkeysFit, HKBindings
<1>3. ASSUME file \in HKBindings PROVE HK!Loaded(file) \in HKBindings
  BY <1>3, HKLoads DEF HKBindings
<1> QED
  BY <1>1, <1>2, <1>3 DEF HK!Start

(* No text is bound twice; unless a shortcut is being captured the grabs    *)
(* are those of the bindings, held all or none; and no capture outlives its *)
(* overlay: whichever way an overlay ends, a save or a grab fails.          *)
LEMMA HotkeysHold == ASSUME HotkeysFit PROVE HK!Spec => []HK!HotkeysInStep
<1>1. HK!Init => HKInv
  <2>1. ASSUME NEW file \in {HK!Missing, HK!Corrupt, <<>>}, st = HK!Start(file, {}, TRUE) PROVE HKInv
    <3>1. <<>> \in Seq(HKBinding)
      OBVIOUS
    <3>2. Distinct(<<>>)
      BY DEF Distinct
    <3>3. <<>> \in HKBindings
      BY <3>1, <3>2 DEF HKBindings
    <3>4. file \in {HK!Missing, HK!Corrupt} \cup HKBindings
      BY Zenon, <3>3
    <3>. QED  BY <2>1, <3>4, HKStarts DEF HKInv
  <2> QED
    BY <2>1 DEF HK!Init
<1>2. HKInv /\ [HK!Next]_st => HKInv'
  <2>1. ASSUME HKInv, NEW ok \in Saves, HK!Restart(ok) PROVE HKInv'
    <3>1. st.file \in {HK!Missing, HK!Corrupt} \cup HKBindings /\ st.foreign \in SUBSET Contended
      BY <2>1 DEF HKInv, HKGood, HKState
    <3> QED
      BY <2>1, <3>1, HKStarts DEF HK!Restart, HKInv
  <2>2. ASSUME HKInv, UNCHANGED st PROVE HKInv'
    BY <2>2 DEF HKInv
  <2> QED
    BY <2>1, <2>2, HKViewSteps, HKStartSteps, HKDeleteStep, HKSaveEditStep, HKCommandSteps,
       HKShortcutStep, HKConfirmStep, HKEndSteps DEF HK!Next
<1>3. HKInv => HK!HotkeysInStep
  BY DEF HKInv, HKGood, HKState, HKBindings, Distinct, HKHeld, HKGrabs, HKCapture,
         HK!HotkeysInStep, HK!NoKeyTwice, HK!GrabsFollow, HK!HeldFollow, HK!CaptureEnds
<1> QED
  BY <1>1, <1>2, <1>3, PTL DEF HK!Spec

-----------------------------------------------------------------------------
(* The Bluetooth tab: its devices, the calls to BlueZ and the rows. *)
BTFields == {"bus", "question", "loading", "devs", "rows", "row", "calls", "last", "tab", "text", "query"}
BTDevice == [listed : BOOLEAN, gen : Nat, op : Nat, state : {"none", "connected", "disconnected", "failed"}, linked : BOOLEAN]
BTCall == [id : Nat \ {0}, path : Devices, kind : {BT!Connect, BT!Disconnect}, gen : Nat, cancelled : BOOLEAN, lost : BOOLEAN]

BTFits(s) ==
    /\ DOMAIN s = BTFields
    /\ s.bus \in {"failed", "unasked", "acquiring", "ready"} /\ s.loading \in BOOLEAN
    /\ s.devs \in [Devices -> BTDevice] /\ s.last \in Nat /\ s.query \in BTQueries
    /\ s.calls \subseteq BTCall

(* A call has a number of its own; the one that a device waits for is there *)
(* and has its count; and a call whose device was listed ever since is not  *)
(* ahead of the count, and is what the device waits for if it has it.       *)
BTIds(s) ==
    /\ \A c \in s.calls : c.id <= s.last
    /\ \A b, c \in s.calls : b.id = c.id => b = c
BTAsked(s) ==
    \A d \in Devices : s.devs[d].op # BT!None =>
        s.devs[d].listed
        /\ \E c \in s.calls : c.id = s.devs[d].op /\ c.path = d /\ c.gen = s.devs[d].gen
BTFresh(s) ==
    \A c \in s.calls : ~c.lost =>
        LET e == s.devs[c.path]
        IN  e.listed /\ c.gen <= e.gen /\ (c.gen = e.gen => e.op = c.id /\ ~c.cancelled)
BTRows(s) == \A n \in DOMAIN s.rows : s.rows[n] \in Devices /\ s.devs[s.rows[n]].listed
BTLoads(s) == s.loading => s.bus = "acquiring" \/ s.question # "none"
BTGood(s) == BTFits(s) /\ BTIds(s) /\ BTAsked(s) /\ BTFresh(s) /\ BTRows(s) /\ BTLoads(s)
BTInv == BTGood(st)

(* Steps of the tab and of the bus: devices keep the count, the call and    *)
(* the listing, and calls and rows stay.                                    *)
BTLike(s, t) ==
    /\ BTFits(t) /\ t.last = s.last /\ t.calls = s.calls
    /\ \A d \in Devices : /\ t.devs[d].listed = s.devs[d].listed
                          /\ t.devs[d].gen = s.devs[d].gen /\ t.devs[d].op = s.devs[d].op

LEMMA BTKeeps ==
    ASSUME NEW s, BTGood(s), NEW t, BTLike(s, t), BTRows(t), BTLoads(t)
    PROVE  BTGood(t)
<1>1. \A c \in s.calls : c.path \in Devices
  BY DEF BTGood, BTFits, BTCall
<1>2. BTIds(t)
  BY DEF BTGood, BTIds, BTLike
<1>3. BTAsked(t)
  BY DEF BTGood, BTAsked, BTLike
<1>4. BTFresh(t)
  <2>. SUFFICES ASSUME NEW c \in t.calls, ~c.lost
                PROVE  LET e == t.devs[c.path] IN
                       e.listed /\ c.gen <= e.gen /\ (c.gen = e.gen => e.op = c.id /\ ~c.cancelled)
    BY DEF BTFresh
  <2>1. c \in s.calls /\ c.path \in Devices
    BY <1>1 DEF BTLike
  <2>2. LET e == s.devs[c.path] IN
        e.listed /\ c.gen <= e.gen /\ (c.gen = e.gen => e.op = c.id /\ ~c.cancelled)
    BY <2>1 DEF BTGood, BTFresh
  <2> QED
    BY <2>1, <2>2 DEF BTLike
<1> QED
  BY <1>2, <1>3, <1>4 DEF BTGood, BTLike

(* Nothing of the devices or calls changes. *)
BTEven(s, t) ==
    DOMAIN t = BTFields /\ t.devs = s.devs /\ t.calls = s.calls /\ t.last = s.last /\ t.query = s.query
LEMMA BTStays ==
    ASSUME NEW s, BTGood(s), NEW t, BTEven(s, t), t.rows = s.rows,
           t.bus \in {"failed", "unasked", "acquiring", "ready"}, t.loading \in BOOLEAN, BTLoads(t)
    PROVE  BTGood(t)
<1>1. BTLike(s, t)
  BY DEF BTLike, BTEven, BTGood, BTFits
<1>2. BTRows(t)
  BY DEF BTEven, BTGood, BTRows
<1> QED
  BY <1>1, <1>2, BTKeeps

LEMMA BTPrunes ==
    ASSUME NEW s, BTGood(s), NEW old
    PROVE  BTGood(BT!Pruned(s, old))
<1>. DEFINE f == [d \in Devices |-> IF d \in old /\ s.devs[d].op = BT!None
                                    THEN [s.devs[d] EXCEPT !.state = "none"] ELSE s.devs[d]]
            t == [s EXCEPT !.devs = f]
<1>1. BT!Pruned(s, old) = t
  BY DEF BT!Pruned, BTGood, BTFits, BTFields
<1>2. \A d \in Devices : /\ f[d] \in BTDevice /\ f[d].listed = s.devs[d].listed
                         /\ f[d].gen = s.devs[d].gen /\ f[d].op = s.devs[d].op
  <2>. SUFFICES ASSUME NEW d \in Devices
                PROVE  /\ f[d] \in BTDevice /\ f[d].listed = s.devs[d].listed
                       /\ f[d].gen = s.devs[d].gen /\ f[d].op = s.devs[d].op
    OBVIOUS
  <2>1. s.devs[d] \in BTDevice
    BY DEF BTGood, BTFits
  <2>2. f[d] = s.devs[d] \/ f[d] = [s.devs[d] EXCEPT !.state = "none"]
    OBVIOUS
  <2>. HIDE DEF f
  <2> QED
    BY <2>1, <2>2 DEF BTDevice
<1>3. f \in [Devices -> BTDevice]
  BY <1>2
<1>. HIDE DEF f
<1>4. /\ DOMAIN t = BTFields /\ t.devs = f /\ t.last = s.last /\ t.calls = s.calls
      /\ t.bus = s.bus /\ t.loading = s.loading /\ t.query = s.query /\ t.rows = s.rows
      /\ t.question = s.question
  BY DEF BTGood, BTFits, BTFields
<1>. HIDE DEF t
<1>5. BTFits(t)
  BY <1>3, <1>4 DEF BTGood, BTFits
<1>6. BTLike(s, t)
  BY <1>2, <1>4, <1>5 DEF BTLike
<1>7. BTRows(t) /\ BTLoads(t)
  BY <1>2, <1>4 DEF BTGood, BTRows, BTLoads
<1> QED
  BY <1>1, <1>6, <1>7, BTKeeps

LEMMA BTRefilters ==
    ASSUME DevicesFit, NEW s, BTFits(s)
    PROVE  LET t == BT!Refiltered(s)
           IN  t = [s EXCEPT !.rows = t.rows] /\ BTRows(t)
<1>. DEFINE all == Found[s.query]  S == {n \in DOMAIN all : s.devs[all[n]].listed}
            rows == BT!Picked(all, S)  t == [s EXCEPT !.rows = rows]
<1>1. all \in Seq(Devices)
  BY DEF DevicesFit, BTFits
<1>2. S \subseteq Nat /\ IsFiniteSet(S)
  BY <1>1, Subplaces
<1>3. DOMAIN rows = 1..BT!Cardinality(S) /\ \A n \in DOMAIN rows : rows[n] = all[BT!Nth(S, n)]
  BY DEF BT!Picked
<1>4. BT!Cardinality(S) = Cardinality(S) /\ \A n : BT!Nth(S, n) = Nth(S, n)
  BY Zenon DEF BT!Cardinality, Cardinality, BT!Nth, Nth
<1>5. \A n \in DOMAIN rows : Nth(S, n) \in S
  BY <1>2, <1>3, <1>4, NthIsThere
<1>6. BT!Refiltered(s) = t
  BY Zenon DEF BT!Refiltered
<1>. HIDE DEF rows
<1>7. \A n \in DOMAIN rows : rows[n] \in Devices /\ s.devs[rows[n]].listed
  <2>. SUFFICES ASSUME NEW n \in DOMAIN rows
                PROVE  rows[n] \in Devices /\ s.devs[rows[n]].listed
    OBVIOUS
  <2>. DEFINE k == Nth(S, n)
  <2>1. rows[n] = all[k] /\ k \in S
    BY Zenon, <1>3, <1>4, <1>5
  <2>. HIDE DEF k
  <2>2. k \in DOMAIN all /\ s.devs[all[k]].listed
    BY <2>1
  <2>3. all[k] \in Devices
    BY <1>1, <2>2
  <2> QED
    BY Zenon, <2>1, <2>2, <2>3
<1>8. t.rows = rows /\ t.devs = s.devs
  BY DEF BTFits, BTFields
<1>. HIDE DEF t
<1> QED
  BY <1>6, <1>7, <1>8 DEF BTRows, t

(* restore_selection moves the marker only. *)
LEMMA BTRestores ==
    ASSUME NEW s, BTGood(s), NEW d PROVE BTGood(BT!Restored(s, d))
<1>1. \E n : BT!Restored(s, d) = [s EXCEPT !.row = n]
  BY DEF BT!Restored
<1>2. PICK n : BT!Restored(s, d) = [s EXCEPT !.row = n]
  BY <1>1
<1>. DEFINE t == [s EXCEPT !.row = n]
<1>3. BTEven(s, t) /\ t.rows = s.rows /\ t.bus = s.bus /\ t.loading = s.loading /\ t.question = s.question
  BY DEF BTEven, BTGood, BTFits, BTFields
<1>. HIDE DEF t
<1>4. BTGood(t)
  BY <1>3, BTStays DEF BTGood, BTFits, BTLoads
<1> QED
  BY <1>2, <1>4 DEF t

(* The bus and the list are asked for. *)
LEMMA BTRefreshes ==
    ASSUME NEW s, BTGood(s) PROVE BTGood(BT!Refresh(s))
<1>. DEFINE f == [s EXCEPT !.loading = FALSE]
            u == [s EXCEPT !.loading = TRUE, !.bus = "acquiring"]
            a == [s EXCEPT !.loading = TRUE]
            q == [s EXCEPT !.question = "asked", !.loading = TRUE]
<1>0. DOMAIN s = BTFields /\ s.loading \in BOOLEAN
      /\ s.bus \in {"failed", "unasked", "acquiring", "ready"}
  BY DEF BTGood, BTFits
<1>1. BTGood(f)
  <2>1. BTEven(s, f) /\ f.rows = s.rows /\ f.bus = s.bus /\ f.loading = FALSE
    BY <1>0 DEF BTEven, BTFields
  <2>. HIDE DEF f
  <2> QED
    BY <1>0, <2>1, BTStays DEF BTLoads
<1>2. BTGood(u)
  <2>1. BTEven(s, u) /\ u.rows = s.rows /\ u.bus = "acquiring" /\ u.loading = TRUE
    BY <1>0 DEF BTEven, BTFields
  <2>. HIDE DEF u
  <2> QED
    BY <2>1, BTStays DEF BTLoads
<1>3. ASSUME s.bus = "acquiring" PROVE BTGood(a)
  <2>1. BTEven(s, a) /\ a.rows = s.rows /\ a.bus = "acquiring" /\ a.loading = TRUE
    BY <1>0, <1>3 DEF BTEven, BTFields
  <2>. HIDE DEF a
  <2> QED
    BY <2>1, BTStays DEF BTLoads
<1>4. BTGood(q)
  <2>1. BTEven(s, q) /\ q.rows = s.rows /\ q.bus = s.bus /\ q.loading = TRUE /\ q.question = "asked"
    BY <1>0 DEF BTEven, BTFields
  <2>. HIDE DEF q
  <2> QED
    BY <1>0, <2>1, BTStays DEF BTLoads
<1>5. \/ s.bus = "failed" /\ BT!Refresh(s) = f
      \/ s.bus = "unasked" /\ BT!Refresh(s) = u
      \/ s.bus = "acquiring" /\ BT!Refresh(s) = a
      \/ s.bus = "ready" /\ (BT!Refresh(s) = s \/ BT!Refresh(s) = q)
  BY <1>0 DEF BT!Refresh
<1>. HIDE DEF f, u, a, q
<1> QED
  BY <1>1, <1>2, <1>3, <1>4, <1>5

(* on_entry_changed and hide_window. *)
LEMMA BTChanges ==
    ASSUME DevicesFit, NEW s, BTGood(s), NEW text \in BTQueries, NEW old
    PROVE  LET p == BT!Pruned(s, old)
           IN  BTGood(BT!Refiltered([p EXCEPT !.text = text, !.query = text]))
<1>. DEFINE p == BT!Pruned(s, old)
            c == [p EXCEPT !.text = text, !.query = text]
            t == BT!Refiltered(c)
<1>1. BTGood(p)
  BY BTPrunes
<1>. HIDE DEF p
<1>2. /\ DOMAIN c = BTFields /\ c.query = text
      /\ c.devs = p.devs /\ c.calls = p.calls /\ c.last = p.last
      /\ c.bus = p.bus /\ c.loading = p.loading /\ c.question = p.question
  BY <1>1 DEF BTGood, BTFits, BTFields
<1>. HIDE DEF c
<1>3. BTFits(c)
  BY <1>1, <1>2 DEF BTGood, BTFits
<1>4. BTGood(t)
  <2>1. t = [c EXCEPT !.rows = t.rows] /\ BTRows(t)
    BY <1>3, BTRefilters
  <2>. HIDE DEF t
  <2>2. /\ DOMAIN t = BTFields /\ t.query = c.query
        /\ t.devs = c.devs /\ t.calls = c.calls /\ t.last = c.last
        /\ t.bus = c.bus /\ t.loading = c.loading /\ t.question = c.question
    BY <1>2, <2>1 DEF BTFields
  <2>3. BTFits(t)
    BY <1>3, <2>2 DEF BTFits
  <2>4. BTLike(p, t)
    BY <1>2, <2>2, <2>3 DEF BTLike
  <2>5. BTLoads(t)
    BY <1>1, <1>2, <2>2 DEF BTGood, BTLoads
  <2> QED
    BY <1>1, <2>1, <2>4, <2>5, BTKeeps
<1> QED
  BY <1>4 DEF t, c, p

(* The list of devices that BlueZ gives. *)
LEMMA BTApplies ==
    ASSUME DevicesFit, NEW s, BTGood(s), NEW there \in SUBSET Devices, NEW linked \in SUBSET there
    PROVE  BTGood(BT!ApplySnapshot(BT!Gone(s, there), there, linked))
<1>. DEFINE mark(c) == [c EXCEPT !.lost = @ \/ c.path \notin there]
            calls == {mark(c) : c \in s.calls}
            g == [s EXCEPT !.calls = calls]
            f == [d \in Devices |-> IF d \in there
                                    THEN [s.devs[d] EXCEPT !.listed = TRUE, !.linked = d \in linked]
                                    ELSE BT!NotListed]
            t == [g EXCEPT !.devs = f]
            r == BT!Refiltered(t)
<1>0. DOMAIN s = BTFields /\ s.calls \subseteq BTCall /\ s.devs \in [Devices -> BTDevice]
  BY DEF BTGood, BTFits
<1>1. g.devs = s.devs
  BY <1>0 DEF BTFields
<1>2. BT!Gone(s, there) = g
  BY Zenon DEF BT!Gone
<1>3. BT!ApplySnapshot(g, there, linked) = r
      \/ BT!ApplySnapshot(g, there, linked) = BT!Restored(r, BT!SelectedOf(g))
  <2>1. t = [g EXCEPT !.devs = [d \in Devices |-> IF d \in there
                                    THEN [@[d] EXCEPT !.listed = TRUE, !.linked = d \in linked]
                                    ELSE BT!NotListed]]
    BY <1>1
  <2>. HIDE DEF t
  <2> QED
    BY <2>1 DEF BT!ApplySnapshot
<1>4. ASSUME NEW d \in Devices
      PROVE  /\ f[d] \in BTDevice
             /\ d \in there => f[d].listed /\ f[d].gen = s.devs[d].gen /\ f[d].op = s.devs[d].op
             /\ d \notin there => ~f[d].listed /\ f[d].op = BT!None
  <2>1. s.devs[d] \in BTDevice
    BY <1>0
  <2>2. CASE d \in there
    <3>. DEFINE l == d \in linked
    <3>1. f[d] = [s.devs[d] EXCEPT !.listed = TRUE, !.linked = l]
      BY <2>2
    <3>2. l \in BOOLEAN
      OBVIOUS
    <3>. HIDE DEF f, l
    <3> QED
      BY <2>1, <2>2, <3>1, <3>2 DEF BTDevice
  <2>3. CASE d \notin there
    <3>1. f[d] = BT!NotListed
      BY <2>3
    <3>. HIDE DEF f
    <3> QED
      BY <2>3, <3>1 DEF BTDevice, BT!NotListed, BT!None
  <2> QED
    BY <2>2, <2>3
<1>5. /\ \A c \in calls : \E b \in s.calls :
             /\ c \in BTCall /\ c.id = b.id /\ c.path = b.path /\ c.gen = b.gen
             /\ c.cancelled = b.cancelled /\ (~c.lost => ~b.lost /\ c.path \in there)
             /\ c = mark(b)
      /\ \A b \in s.calls : \E c \in calls : c.id = b.id /\ c.path = b.path /\ c.gen = b.gen
  <2>1. ASSUME NEW b \in s.calls
        PROVE  LET c == mark(b) IN
               /\ c \in BTCall /\ c.id = b.id /\ c.path = b.path /\ c.gen = b.gen
               /\ c.cancelled = b.cancelled /\ (~c.lost => ~b.lost /\ c.path \in there)
    <3>. DEFINE l == b.lost \/ b.path \notin there
                c == [b EXCEPT !.lost = l]
    <3>1. b \in BTCall /\ l \in BOOLEAN
      BY <1>0
    <3>2. ~l => ~b.lost /\ b.path \in there
      OBVIOUS
    <3>. HIDE DEF l
    <3>3. c \in BTCall /\ c.id = b.id /\ c.path = b.path /\ c.gen = b.gen
          /\ c.cancelled = b.cancelled /\ c.lost = l
      BY <3>1 DEF BTCall
    <3>4. ~c.lost => ~b.lost /\ c.path \in there
      BY <3>2, <3>3
    <3>5. mark(b) = c
      BY Zenon DEF l
    <3>. HIDE DEF c, mark
    <3> QED
      BY Zenon, <3>3, <3>4, <3>5
  <2>2. \A b \in s.calls : mark(b) \in calls
    OBVIOUS
  <2>3. \A c \in calls : \E b \in s.calls : c = mark(b)
    OBVIOUS
  <2>. HIDE DEF mark, calls
  <2>4. ASSUME NEW c \in calls
        PROVE  \E b \in s.calls :
                 /\ c \in BTCall /\ c.id = b.id /\ c.path = b.path /\ c.gen = b.gen
                 /\ c.cancelled = b.cancelled /\ (~c.lost => ~b.lost /\ c.path \in there)
                 /\ c = mark(b)
    <3>1. PICK b \in s.calls : c = mark(b)
      BY <2>3
    <3> QED
      BY Zenon, <2>1, <3>1
  <2>5. ASSUME NEW b \in s.calls
        PROVE  \E c \in calls : c.id = b.id /\ c.path = b.path /\ c.gen = b.gen
    <3>1. mark(b) \in calls /\ mark(b).id = b.id /\ mark(b).path = b.path /\ mark(b).gen = b.gen
      BY <2>1, <2>2
    <3> QED
      BY <3>1
  <2> QED
    BY Zenon, <2>4, <2>5
<1>6. f \in [Devices -> BTDevice]
  BY <1>4
<1>7. calls \subseteq BTCall
  BY <1>5
<1>. HIDE DEF mark, calls, f
<1>8. /\ DOMAIN t = BTFields /\ t.devs = f /\ t.calls = calls /\ t.last = s.last
      /\ t.bus = s.bus /\ t.loading = s.loading /\ t.question = s.question /\ t.query = s.query
  BY <1>0 DEF BTFields
<1>. HIDE DEF t
<1>9. BTFits(t)
  BY <1>6, <1>7, <1>8 DEF BTGood, BTFits
<1>10. r = [t EXCEPT !.rows = r.rows] /\ BTRows(r)
  BY <1>9, BTRefilters
<1>. HIDE DEF r
<1>11. /\ DOMAIN r = BTFields /\ r.devs = f /\ r.calls = calls /\ r.last = s.last
       /\ r.bus = s.bus /\ r.loading = s.loading /\ r.question = s.question /\ r.query = s.query
  BY <1>8, <1>10 DEF BTFields
<1>12. BTFits(r)
  BY <1>8, <1>9, <1>11 DEF BTFits
<1>13. BTIds(r)
  <2>1. \A c \in calls : c.id <= s.last
    BY <1>5 DEF BTGood, BTIds
  <2>2. ASSUME NEW c \in calls, NEW d \in calls, c.id = d.id PROVE c = d
    <3>1. PICK a \in s.calls : c.id = a.id /\ c = mark(a)
      BY <1>5
    <3>2. PICK b \in s.calls : d.id = b.id /\ d = mark(b)
      BY <1>5
    <3>3. a = b
      BY <2>2, <3>1, <3>2 DEF BTGood, BTIds
    <3> QED
      BY Zenon, <3>1, <3>2, <3>3
  <2> QED
    BY <1>11, <2>1, <2>2 DEF BTIds
<1>14. BTAsked(r)
  <2>. SUFFICES ASSUME NEW d \in Devices, f[d].op # BT!None
                PROVE  f[d].listed /\ \E c \in calls : c.id = f[d].op /\ c.path = d /\ c.gen = f[d].gen
    BY <1>11 DEF BTAsked
  <2>1. d \in there /\ f[d].listed /\ f[d].gen = s.devs[d].gen /\ f[d].op = s.devs[d].op
    BY <1>4
  <2>2. PICK b \in s.calls : b.id = s.devs[d].op /\ b.path = d /\ b.gen = s.devs[d].gen
    BY <2>1 DEF BTGood, BTAsked
  <2> QED
    BY <1>5, <2>1, <2>2
<1>15. BTFresh(r)
  <2>. SUFFICES ASSUME NEW c \in calls, ~c.lost
                PROVE  LET e == f[c.path] IN
                       e.listed /\ c.gen <= e.gen /\ (c.gen = e.gen => e.op = c.id /\ ~c.cancelled)
    BY <1>11 DEF BTFresh
  <2>1. PICK b \in s.calls : /\ c.id = b.id /\ c.path = b.path /\ c.gen = b.gen
                             /\ c.cancelled = b.cancelled /\ ~b.lost /\ c.path \in there
    BY <1>5
  <2>2. LET e == s.devs[b.path] IN
        e.listed /\ b.gen <= e.gen /\ (b.gen = e.gen => e.op = b.id /\ ~b.cancelled)
    BY <2>1 DEF BTGood, BTFresh
  <2>3. LET e == f[c.path] IN e.listed /\ e.gen = s.devs[b.path].gen /\ e.op = s.devs[b.path].op
    BY <1>4, <2>1
  <2> QED
    BY <2>1, <2>2, <2>3
<1>16. BTLoads(r)
  BY <1>11 DEF BTGood, BTLoads
<1>17. BTGood(r)
  BY <1>10, <1>12, <1>13, <1>14, <1>15, <1>16 DEF BTGood
<1> QED
  BY <1>2, <1>3, <1>17, BTRestores

(* An operation is asked of a device that is listed. *)
LEMMA BTOperates ==
    ASSUME DevicesFit, NEW s, BTGood(s), NEW d \in Devices, s.devs[d].listed,
           NEW kind \in {BT!Connect, BT!Disconnect}
    PROVE  BTGood(BT!Operation(s, d, kind))
<1>. DEFINE gen == s.devs[d].gen + 1
            id == s.last + 1
            asked == [id |-> id, path |-> d, kind |-> kind, gen |-> gen,
                      cancelled |-> FALSE, lost |-> FALSE]
            mark(c) == [c EXCEPT !.cancelled = @ \/ c.id = s.devs[d].op]
            marked == {mark(c) : c \in s.calls}
            f == [s.devs EXCEPT ![d] = [s.devs[d] EXCEPT !.gen = gen, !.op = id, !.state = "none"]]
            t == [s EXCEPT !.devs = f, !.calls = marked \cup {asked}, !.last = id]
<1>0. /\ DOMAIN s = BTFields /\ s.calls \subseteq BTCall /\ s.devs \in [Devices -> BTDevice]
      /\ s.last \in Nat /\ s.devs[d] \in BTDevice /\ s.devs[d].gen \in Nat
  BY DEF BTGood, BTFits, BTDevice
<1>1. BT!Operation(s, d, kind) = t
  <2>1. BT!Cancelled(s.calls, s.devs[d].op) = marked
    BY Zenon DEF BT!Cancelled
  <2>. HIDE DEF marked
  <2> QED
    BY <1>0, <2>1 DEF BT!Operation, BTFields
<1>2. gen \in Nat /\ gen > s.devs[d].gen /\ id \in Nat \ {0} /\ id > s.last
  BY <1>0
<1>3. /\ asked \in BTCall /\ asked.id = id /\ asked.path = d /\ asked.gen = gen
      /\ ~asked.cancelled /\ ~asked.lost
  BY <1>2 DEF BTCall
<1>. HIDE DEF gen, id, asked
<1>4. /\ f \in [Devices -> BTDevice]
      /\ f[d].listed = s.devs[d].listed /\ f[d].gen = gen /\ f[d].op = id
      /\ \A e \in Devices : e # d => f[e] = s.devs[e]
  <2>. DEFINE g == [s.devs[d] EXCEPT !.gen = gen, !.op = id, !.state = "none"]
  <2>1. g \in BTDevice /\ g.listed = s.devs[d].listed /\ g.gen = gen /\ g.op = id
    BY <1>0, <1>2 DEF BTDevice
  <2>2. f = [s.devs EXCEPT ![d] = g]
    OBVIOUS
  <2>. HIDE DEF f, g
  <2> QED
    BY <1>0, <2>1, <2>2
<1>. HIDE DEF f
<1>5. ASSUME NEW b \in s.calls
      PROVE  /\ mark(b) \in BTCall /\ mark(b).id = b.id /\ mark(b).path = b.path
             /\ mark(b).gen = b.gen /\ mark(b).lost = b.lost
             /\ b.id # s.devs[d].op => mark(b).cancelled = b.cancelled
  <2>. DEFINE l == b.cancelled \/ b.id = s.devs[d].op
              c == [b EXCEPT !.cancelled = l]
  <2>1. b \in BTCall /\ l \in BOOLEAN
    BY <1>0
  <2>2. b.id # s.devs[d].op => l = b.cancelled
    BY <2>1 DEF BTCall
  <2>. HIDE DEF l
  <2>3. c \in BTCall /\ c.id = b.id /\ c.path = b.path /\ c.gen = b.gen
        /\ c.lost = b.lost /\ c.cancelled = l
    BY <2>1 DEF BTCall
  <2>4. mark(b) = c
    BY Zenon DEF l
  <2>. HIDE DEF c, mark
  <2> QED
    BY Zenon, <2>2, <2>3, <2>4
<1>6. (\A b \in s.calls : mark(b) \in marked) /\ \A c \in marked : \E b \in s.calls : c = mark(b)
  OBVIOUS
<1>. HIDE DEF mark, marked
<1>7. /\ DOMAIN t = BTFields /\ t.devs = f /\ t.calls = marked \cup {asked} /\ t.last = id
      /\ t.bus = s.bus /\ t.loading = s.loading /\ t.question = s.question /\ t.query = s.query
      /\ t.rows = s.rows
  BY <1>0 DEF BTFields
<1>. HIDE DEF t
<1>8. marked \subseteq BTCall
  BY <1>5, <1>6
<1>9. BTFits(t)
  BY <1>2, <1>3, <1>4, <1>7, <1>8 DEF BTGood, BTFits
<1>10. \A b \in s.calls : b.id \in Nat \ {0} /\ b.id <= s.last /\ b.path \in Devices /\ b.gen \in Nat
  BY <1>0 DEF BTGood, BTIds, BTCall
<1>11. BTIds(t)
  <2>1. \A c \in marked : c.id <= s.last /\ c.id \in Nat
    BY <1>5, <1>6, <1>10
  <2>2. ASSUME NEW b \in marked, NEW c \in marked, b.id = c.id PROVE b = c
    <3>1. PICK x \in s.calls : b = mark(x) /\ b.id = x.id
      BY <1>5, <1>6
    <3>2. PICK y \in s.calls : c = mark(y) /\ c.id = y.id
      BY <1>5, <1>6
    <3>3. x = y
      BY <2>2, <3>1, <3>2 DEF BTGood, BTIds
    <3> QED
      BY Zenon, <3>1, <3>2, <3>3
  <2>3. \A c \in marked : c.id # asked.id
    BY <1>0, <1>2, <1>3, <2>1
  <2>4. \A c \in marked \cup {asked} : c.id <= id
    BY <1>0, <1>2, <1>3, <2>1
  <2>5. \A b, c \in marked \cup {asked} : b.id = c.id => b = c
    BY <2>2, <2>3
  <2> QED
    BY <1>7, <2>4, <2>5 DEF BTIds
<1>12. BTAsked(t)
  <2>. SUFFICES ASSUME NEW e \in Devices, f[e].op # BT!None
                PROVE  f[e].listed
                       /\ \E c \in marked \cup {asked} : c.id = f[e].op /\ c.path = e /\ c.gen = f[e].gen
    BY <1>7 DEF BTAsked
  <2>1. CASE e = d
    BY <1>3, <1>4, <2>1
  <2>2. CASE e # d
    <3>1. f[e] = s.devs[e]
      BY <1>4, <2>2
    <3>2. s.devs[e].listed
          /\ \E b \in s.calls : b.id = s.devs[e].op /\ b.path = e /\ b.gen = s.devs[e].gen
      BY <3>1 DEF BTGood, BTAsked
    <3>3. PICK b \in s.calls : b.id = s.devs[e].op /\ b.path = e /\ b.gen = s.devs[e].gen
      BY <3>2
    <3>4. mark(b) \in marked /\ mark(b).id = b.id /\ mark(b).path = b.path /\ mark(b).gen = b.gen
      BY <1>5, <1>6
    <3> QED
      BY <3>1, <3>2, <3>3, <3>4
  <2> QED
    BY <2>1, <2>2
<1>13. BTFresh(t)
  <2>. SUFFICES ASSUME NEW c \in marked \cup {asked}, ~c.lost
                PROVE  LET e == f[c.path] IN
                       e.listed /\ c.gen <= e.gen /\ (c.gen = e.gen => e.op = c.id /\ ~c.cancelled)
    BY <1>7 DEF BTFresh
  <2>1. CASE c = asked
    <3>1. c.id = id /\ c.path = d /\ c.gen = gen /\ ~c.cancelled
      BY <1>3, <2>1
    <3>2. f[d].listed /\ f[d].gen = gen /\ f[d].op = id /\ gen <= gen
      BY <1>2, <1>4
    <3> QED
      BY Zenon, <3>1, <3>2
  <2>2. CASE c \in marked
    <3>1. PICK b \in s.calls : c = mark(b)
      BY <1>6, <2>2
    <3>2. c.id = b.id /\ c.path = b.path /\ c.gen = b.gen /\ ~b.lost
      BY <1>5, <3>1
    <3>3. LET e == s.devs[b.path] IN
          e.listed /\ b.gen <= e.gen /\ (b.gen = e.gen => e.op = b.id /\ ~b.cancelled)
      BY <3>2 DEF BTGood, BTFresh
    <3>4. b.path \in Devices /\ b.gen \in Nat /\ b.id # BT!None
      BY <1>10 DEF BT!None
    <3>5. CASE b.path = d
      <4>1. b.gen < gen
        BY <1>0, <1>2, <3>3, <3>4, <3>5
      <4>2. f[c.path].listed /\ f[c.path].gen = gen
        BY <1>4, <3>2, <3>5
      <4>3. c.gen <= gen /\ c.gen # gen
        BY <1>2, <3>2, <3>4, <4>1
      <4> QED
        BY Zenon, <4>2, <4>3
    <3>6. CASE b.path # d
      <4>1. f[b.path] = s.devs[b.path]
        BY <1>4, <3>4, <3>6
      <4>2. b.id # s.devs[d].op
        <5>. SUFFICES ASSUME b.id = s.devs[d].op PROVE FALSE
          OBVIOUS
        <5>1. PICK a \in s.calls : a.id = s.devs[d].op /\ a.path = d
          BY <3>4 DEF BTGood, BTAsked
        <5> QED
          BY <3>6, <5>1 DEF BTGood, BTIds
      <4>3. c.cancelled = b.cancelled
        BY <1>5, <3>1, <4>2
      <4> QED
        BY <3>2, <3>3, <4>1, <4>3
    <3> QED
      BY <3>5, <3>6
  <2> QED
    BY <2>1, <2>2
<1>14. BTRows(t)
  <2>. SUFFICES ASSUME NEW n \in DOMAIN s.rows PROVE s.rows[n] \in Devices /\ f[s.rows[n]].listed
    BY <1>7 DEF BTRows
  <2>1. s.rows[n] \in Devices /\ s.devs[s.rows[n]].listed
    BY DEF BTGood, BTRows
  <2> QED
    BY <1>4, <2>1
<1>15. BTLoads(t)
  BY <1>7 DEF BTGood, BTLoads
<1>16. BTGood(t)
  BY <1>9, <1>11, <1>12, <1>13, <1>14, <1>15 DEF BTGood
<1> QED
  BY <1>1, <1>16

(* An answer to a call ends it; the device it was asked of waits no more,   *)
(* if that is what it waited for.                                           *)
BTEnded(s, c, t) ==
    /\ BTFits(t) /\ t.last = s.last /\ t.calls = s.calls \ {c} /\ t.rows = s.rows
    /\ t.bus = s.bus /\ t.loading = s.loading /\ t.question = s.question
    /\ \A d \in Devices : /\ t.devs[d].listed = s.devs[d].listed /\ t.devs[d].gen = s.devs[d].gen
                          /\ t.devs[d].op = IF s.devs[d].op = c.id THEN BT!None ELSE s.devs[d].op

LEMMA BTEnds ==
    ASSUME NEW s, BTGood(s), NEW c \in s.calls, NEW t, BTEnded(s, c, t) PROVE BTGood(t)
<1>0. \A b \in s.calls : b.path \in Devices /\ b.id # BT!None
  BY DEF BTGood, BTFits, BTCall, BT!None
<1>1. BTIds(t)
  BY DEF BTGood, BTIds, BTEnded
<1>2. BTAsked(t)
  <2>. SUFFICES ASSUME NEW d \in Devices, t.devs[d].op # BT!None
                PROVE  t.devs[d].listed
                       /\ \E b \in t.calls : b.id = t.devs[d].op /\ b.path = d /\ b.gen = t.devs[d].gen
    BY DEF BTAsked
  <2>1. t.devs[d].op = s.devs[d].op /\ s.devs[d].op # c.id
    BY DEF BTEnded
  <2>2. s.devs[d].listed
        /\ \E b \in s.calls : b.id = s.devs[d].op /\ b.path = d /\ b.gen = s.devs[d].gen
    BY <2>1 DEF BTGood, BTAsked
  <2> QED
    BY <2>1, <2>2 DEF BTEnded
<1>3. BTFresh(t)
  <2>. SUFFICES ASSUME NEW b \in t.calls, ~b.lost
                PROVE  LET e == t.devs[b.path] IN
                       e.listed /\ b.gen <= e.gen /\ (b.gen = e.gen => e.op = b.id /\ ~b.cancelled)
    BY DEF BTFresh
  <2>1. b \in s.calls /\ b # c /\ b.path \in Devices
    BY <1>0 DEF BTEnded
  <2>2. LET e == s.devs[b.path] IN
        e.listed /\ b.gen <= e.gen /\ (b.gen = e.gen => e.op = b.id /\ ~b.cancelled)
    BY <2>1 DEF BTGood, BTFresh
  <2>3. b.id # c.id
    BY <2>1 DEF BTGood, BTIds
  <2> QED
    BY <2>1, <2>2, <2>3 DEF BTEnded
<1>4. BTRows(t)
  BY DEF BTGood, BTRows, BTEnded
<1>5. BTLoads(t)
  BY DEF BTGood, BTLoads, BTEnded
<1> QED
  BY <1>1, <1>2, <1>3, <1>4, <1>5 DEF BTGood, BTEnded

(* What a device waits for is the call with its path and its count. *)
LEMMA BTWaits ==
    ASSUME NEW s, BTGood(s), NEW c \in s.calls, NEW d \in Devices, s.devs[d].op = c.id
    PROVE  c.path = d /\ s.devs[d].listed /\ s.devs[d].gen = c.gen
<1>1. c.id # BT!None
  BY DEF BTGood, BTFits, BTCall, BT!None
<1>2. s.devs[d].listed /\ \E b \in s.calls : b.id = s.devs[d].op /\ b.path = d /\ b.gen = s.devs[d].gen
  BY <1>1 DEF BTGood, BTAsked
<1> QED
  BY <1>2 DEF BTGood, BTIds

LEMMA BTAnswers ==
    ASSUME BTGood(st), NEW c \in st.calls, BT!OnDeviceOpComplete(c) \/ BT!OnDeviceOpFailed(c)
    PROVE  BTGood(st')
<1>. DEFINE p == c.path
            op == IF st.devs[p].op = c.id THEN BT!None ELSE st.devs[p].op
            f == [st.devs EXCEPT ![p].op = op]
            calls == st.calls \ {c}
            dropped == [st EXCEPT !.calls = calls]
            completed == [st EXCEPT !.calls = calls, !.devs = f]
<1>0. /\ DOMAIN st = BTFields /\ st.devs \in [Devices -> BTDevice] /\ p \in Devices
      /\ st.calls \subseteq BTCall /\ st.devs[p] \in BTDevice
  BY DEF BTGood, BTFits, BTCall
<1>1. ASSUME ~BT!Counts(c) PROVE BTGood(dropped)
  <2>1. /\ DOMAIN dropped = BTFields /\ dropped.devs = st.devs /\ dropped.calls = calls
        /\ dropped.last = st.last /\ dropped.rows = st.rows /\ dropped.bus = st.bus
        /\ dropped.loading = st.loading /\ dropped.question = st.question
        /\ dropped.query = st.query
    BY <1>0 DEF BTFields
  <2>. HIDE DEF dropped
  <2>2. BTFits(dropped)
    BY <2>1 DEF BTGood, BTFits
  <2>3. \A d \in Devices : st.devs[d].op # c.id
    BY <1>1, BTWaits DEF BT!Counts
  <2>4. BTEnded(st, c, dropped)
    BY <2>1, <2>2, <2>3 DEF BTEnded
  <2> QED
    BY <2>4, BTEnds
<1>2. op \in Nat
  BY <1>0 DEF BTDevice, BT!None
<1>3. ASSUME NEW l \in BOOLEAN, NEW x \in {"none", "connected", "disconnected", "failed"},
             NEW t, DOMAIN t = BTFields, t.devs = [f EXCEPT ![p].linked = l, ![p].state = x],
             t.calls = calls, t.last = st.last, t.rows = st.rows, t.bus = st.bus,
             t.loading = st.loading, t.question = st.question, t.query = st.query
      PROVE  BTGood(t)
  <2>. DEFINE g == [st.devs[p] EXCEPT !.op = op, !.linked = l, !.state = x]
  <2>1. t.devs = [st.devs EXCEPT ![p] = g]
    BY <1>0, <1>3
  <2>2. g \in BTDevice /\ g.listed = st.devs[p].listed /\ g.gen = st.devs[p].gen /\ g.op = op
    BY <1>0, <1>2 DEF BTDevice
  <2>. HIDE DEF g
  <2>3. t.devs \in [Devices -> BTDevice] /\ t.devs[p] = g
        /\ \A d \in Devices : d # p => t.devs[d] = st.devs[d]
    BY <1>0, <2>1, <2>2
  <2>4. BTFits(t)
    BY <1>3, <2>3 DEF BTGood, BTFits
  <2>5. \A d \in Devices : d # p => st.devs[d].op # c.id
    BY BTWaits
  <2>6. BTEnded(st, c, t)
    BY <1>3, <2>2, <2>3, <2>4, <2>5 DEF BTEnded
  <2> QED
    BY <2>6, BTEnds
<1>4. f[p].linked \in BOOLEAN /\ f[p].state \in {"none", "connected", "disconnected", "failed"}
      /\ f = [f EXCEPT ![p].linked = f[p].linked, ![p].state = f[p].state]
  BY <1>0, <1>2 DEF BTDevice
<1>5. BT!Completed(st, c) = completed /\ BT!Dropped(st, c) = dropped
  BY <1>0 DEF BT!Completed, BT!Dropped, BTFields
<1>6. /\ DOMAIN completed = BTFields /\ completed.devs = f /\ completed.calls = calls
      /\ completed.last = st.last /\ completed.rows = st.rows /\ completed.bus = st.bus
      /\ completed.loading = st.loading /\ completed.question = st.question
      /\ completed.query = st.query
  BY <1>0 DEF BTFields
<1>7. \/ ~BT!Counts(c) /\ st' = dropped
      \/ st' = completed
      \/ \E l \in BOOLEAN, x \in {"connected", "disconnected"} :
             st' = [completed EXCEPT !.devs[p].linked = l, !.devs[p].state = x]
      \/ st' = [completed EXCEPT !.devs[p].state = "failed"]
  BY <1>5 DEF BT!OnDeviceOpComplete, BT!OnDeviceOpFailed
<1>. HIDE DEF completed, dropped, calls
<1>8. ASSUME st' = completed PROVE BTGood(st')
  <2>1. /\ DOMAIN st' = BTFields /\ st'.devs = [f EXCEPT ![p].linked = f[p].linked, ![p].state = f[p].state]
        /\ st'.calls = calls /\ st'.last = st.last /\ st'.rows = st.rows /\ st'.bus = st.bus
        /\ st'.loading = st.loading /\ st'.question = st.question /\ st'.query = st.query
    BY Zenon, <1>4, <1>6, <1>8
  <2>. HIDE DEF f
  <2> QED
    BY <1>3, <1>4, <2>1
<1>9. ASSUME NEW l \in BOOLEAN, NEW x \in {"connected", "disconnected"},
             st' = [completed EXCEPT !.devs[p].linked = l, !.devs[p].state = x]
      PROVE  BTGood(st')
  <2>1. /\ DOMAIN st' = BTFields /\ st'.devs = [f EXCEPT ![p].linked = l, ![p].state = x]
        /\ st'.calls = calls /\ st'.last = st.last /\ st'.rows = st.rows /\ st'.bus = st.bus
        /\ st'.loading = st.loading /\ st'.question = st.question /\ st'.query = st.query
    BY <1>6, <1>9 DEF BTFields
  <2>. HIDE DEF f
  <2> QED
    BY <1>3, <2>1
<1>10. CASE st' = [completed EXCEPT !.devs[p].state = "failed"]
  <2>1. /\ DOMAIN st' = BTFields /\ st'.devs = [f EXCEPT ![p].state = "failed"]
        /\ st'.calls = calls /\ st'.last = st.last /\ st'.rows = st.rows /\ st'.bus = st.bus
        /\ st'.loading = st.loading /\ st'.question = st.question /\ st'.query = st.query
    BY <1>6, <1>10 DEF BTFields
  <2>2. [f EXCEPT ![p].state = "failed"]
        = [f EXCEPT ![p].linked = f[p].linked, ![p].state = "failed"]
    BY <1>0, <1>2 DEF BTDevice
  <2>. HIDE DEF f
  <2> QED
    BY <1>3, <1>4, <2>1, <2>2
<1> QED
  BY <1>1, <1>7, <1>8, <1>9, <1>10

LEMMA AnswersHold == ASSUME DevicesFit PROVE BT!Spec => []BT!AnswersCount
<1>1. BT!Init => BTInv
  <2>. SUFFICES ASSUME BT!Init PROVE BTGood(st)
    BY DEF BTInv
  <2>1. \A d \in Devices : st.devs[d] = BT!NotListed
    BY DEF BT!Init
  <2>2. BTFits(st)
    BY DEF BT!Init, BTFits, BTFields, BTDevice, BTQueries, BT!NotListed, BT!None
  <2>3. st.calls = {} /\ st.rows = <<>> /\ ~st.loading
    BY DEF BT!Init
  <2> QED
    BY <2>1, <2>2, <2>3 DEF BTGood, BTIds, BTAsked, BTFresh, BTRows, BTLoads, BT!NotListed
<1>2. BTInv /\ [BT!Next]_st => BTInv'
  <2>. SUFFICES ASSUME BTGood(st), [BT!Next]_st PROVE BTGood(st')
    BY DEF BTInv
  <2>0. /\ DOMAIN st = BTFields /\ st.bus \in {"failed", "unasked", "acquiring", "ready"}
        /\ st.loading \in BOOLEAN
    BY DEF BTGood, BTFits
  <2>1. ASSUME BT!OnBusReady PROVE BTGood(st')
    <3>. DEFINE s == [st EXCEPT !.bus = "ready"]
                t == BT!Refresh(s)
    <3>1. st' = t /\ st.bus = "acquiring"
      BY <2>1 DEF BT!OnBusReady
    <3>2. BTEven(st, s) /\ s.rows = st.rows /\ s.bus = "ready" /\ s.loading = st.loading
          /\ s.question = st.question
      BY <2>0 DEF BTEven, BTFields
    <3>. DEFINE q == [s EXCEPT !.question = "asked", !.loading = TRUE]
    <3>3. BTEven(st, q) /\ q.rows = st.rows /\ q.bus = "ready" /\ q.loading = TRUE
          /\ q.question = "asked"
      BY <2>0 DEF BTEven, BTFields
    <3>4. t = IF st.question # "none" THEN s ELSE q
      BY <3>2 DEF BT!Refresh
    <3>. HIDE DEF s, t, q
    <3>5. BTGood(q)
      BY <3>3, BTStays DEF BTLoads
    <3>6. ASSUME st.question # "none" PROVE BTGood(s)
      BY <2>0, <3>2, <3>6, BTStays DEF BTLoads
    <3> QED
      BY <3>1, <3>4, <3>5, <3>6
  <2>2. ASSUME BT!OnBusFailed \/ BT!OnRefreshRefused \/ BT!LeaveTab \/ BT!CommandAndBack
               \/ \E n : BT!Select(n)
        PROVE  BTGood(st')
    <3>1. /\ BTEven(st, st') /\ st'.rows = st.rows
          /\ st'.bus \in {"failed", "unasked", "acquiring", "ready"} /\ st'.loading \in BOOLEAN
          /\ \/ ~st'.loading
             \/ st'.loading = st.loading /\ st'.bus = st.bus
                /\ (st.question # "none" => st'.question # "none")
      BY <2>0, <2>2 DEF BT!OnBusFailed, BT!OnRefreshRefused, BT!CompleteRefresh, BT!LeaveTab,
         BT!CommandAndBack, BT!Select, BTEven, BTFields
    <3>2. BTLoads(st')
      BY <3>1 DEF BTGood, BTLoads
    <3> QED
      BY <3>1, <3>2, BTStays
  <2>3. ASSUME BT!OnRefreshComplete PROVE BTGood(st')
    <3>. DEFINE s == BT!CompleteRefresh(st)
    <3>1. BTGood(s)
      <4>1. BTEven(st, s) /\ s.rows = st.rows /\ s.bus = st.bus /\ s.loading = FALSE
        BY <2>0 DEF BT!CompleteRefresh, BTEven, BTFields
      <4>. HIDE DEF s
      <4> QED
        BY <2>0, <4>1, BTStays DEF BTLoads
    <3>2. PICK there, linked, old :
             there \in SUBSET Devices /\ linked \in SUBSET there /\ st' = BT!ApplySnapshot(BT!Gone(BT!Pruned(s, old), there), there, linked)
      BY <2>3 DEF BT!OnRefreshComplete
    <3>. HIDE DEF s
    <3>3. BTGood(BT!Pruned(s, old))
      BY <3>1, BTPrunes
    <3> QED
      BY <3>2, <3>3, BTApplies
  <2>4. ASSUME NEW c \in st.calls, BT!OnDeviceOpComplete(c) \/ BT!OnDeviceOpFailed(c)
        PROVE  BTGood(st')
    BY <2>4, BTAnswers
  <2>5. ASSUME NEW kind \in {BT!Connect, BT!Disconnect}, BT!Ask(kind) PROVE BTGood(st')
    <3>1. /\ st.row \in DOMAIN st.rows /\ st' = BT!Operation(st, st.rows[st.row], kind)
      BY <2>5 DEF BT!Ask, BT!OnRow
    <3>2. st.rows[st.row] \in Devices /\ st.devs[st.rows[st.row]].listed
      BY <3>1 DEF BTGood, BTRows
    <3> QED
      BY <3>1, <3>2, BTOperates
  <2>6. ASSUME BT!Toggle PROVE BTGood(st')
    <3>1. \E kind \in {BT!Connect, BT!Disconnect} : BT!Ask(kind)
      BY <2>6 DEF BT!Toggle
    <3> QED
      BY <2>5, <3>1
  <2>7. ASSUME NEW old, BT!EnterTab(old) PROVE BTGood(st')
    <3>. DEFINE s == [st EXCEPT !.tab = "bluetooth", !.text = BT!Empty, !.row = 1]
    <3>1. BTEven(st, s) /\ s.rows = st.rows /\ s.bus = st.bus /\ s.loading = st.loading
          /\ s.question = st.question
      BY <2>0 DEF BTEven, BTFields
    <3>2. st' = BT!Refresh(BT!Pruned(s, old))
      BY <2>7 DEF BT!EnterTab
    <3>. HIDE DEF s
    <3>3. BTGood(s)
      BY <2>0, <3>1, BTStays DEF BTGood, BTLoads
    <3>4. BTGood(BT!Pruned(s, old))
      BY <3>3, BTPrunes
    <3> QED
      BY <3>2, <3>4, BTRefreshes
  <2>8. ASSUME NEW old, BT!Tick(old) PROVE BTGood(st')
    <3>1. BTGood(BT!Pruned(st, old))
      BY BTPrunes
    <3> QED
      BY <2>8, <3>1, BTRefreshes DEF BT!Tick
  <2>9. ASSUME NEW text \in BTQueries, NEW old PROVE BTGood(BT!OnQueryChanged(text, old))
    <3>. DEFINE t == BT!Refiltered([BT!Pruned(st, old) EXCEPT !.text = text, !.query = text])
    <3>1. BTGood(t)
      BY BTChanges
    <3>2. BT!OnQueryChanged(text, old) = st
          \/ BT!OnQueryChanged(text, old) = BT!Restored(t, BT!SelectedOf(st))
      BY DEF BT!OnQueryChanged
    <3>. HIDE DEF t
    <3> QED
      BY <3>1, <3>2, BTRestores
  <2>10. ASSUME NEW old, BT!HideWindow(old) PROVE BTGood(st')
    <3>. DEFINE h == BT!OnQueryChanged(BT!Empty, old)
    <3>1. BTGood(h)
      BY <2>9 DEF BTQueries
    <3>2. st' = [h EXCEPT !.tab = "other",
                          !.question = IF h.question = "asked" THEN "cancelled" ELSE h.question]
      BY <2>10 DEF BT!HideWindow
    <3>. HIDE DEF h
    <3>3. /\ BTEven(h, st') /\ st'.rows = h.rows /\ st'.bus = h.bus /\ st'.loading = h.loading
          /\ (h.question # "none" => st'.question # "none")
      BY <3>1, <3>2 DEF BTGood, BTFits, BTEven, BTFields
    <3> QED
      BY <3>1, <3>3, BTStays DEF BTGood, BTFits, BTLoads
  <2>11. ASSUME NEW text \in BTQueries, NEW old, BT!TypeText(text, old) PROVE BTGood(st')
    BY <2>9, <2>11 DEF BT!TypeText
  <2>12. ASSUME BT!RefreshKey PROVE BTGood(st')
    BY <2>12, BTRefreshes DEF BT!RefreshKey
  <2> QED
    BY <2>1, <2>2, <2>3, <2>4, <2>5, <2>6, <2>7, <2>8, <2>10, <2>11, <2>12 DEF BT!Next, BTQueries
<1>3. BTInv => BT!AnswersCount
  <2>. SUFFICES ASSUME BTGood(st) PROVE BT!AnswersCount
    BY DEF BTInv
  <2>1. ASSUME NEW c \in st.calls, BT!Counts(c), ~c.lost
        PROVE  st.devs[c.path].op = c.id /\ ~c.cancelled
    BY <2>1 DEF BTGood, BTFresh, BT!Counts
  <2>2. ASSUME NEW d \in BT!Listed(st), st.devs[d].op # BT!None
        PROVE  \E c \in st.calls : c.id = st.devs[d].op /\ c.path = d
    BY <2>2 DEF BTGood, BTAsked, BT!Listed
  <2>3. \A n \in DOMAIN st.rows : st.rows[n] \in BT!Listed(st)
    BY DEF BTGood, BTRows, BT!Listed
  <2>4. BTLoads(st)
    BY DEF BTGood
  <2> QED
    BY <2>1, <2>2, <2>3, <2>4 DEF BT!AnswersCount, BTLoads
<1> QED
  BY <1>1, <1>2, <1>3, PTL DEF BT!Spec

-----------------------------------------------------------------------------
(* The entry of the command line and that of the run modal. *)

CLLine == CL!Lines \cup {CL!Empty}
CLState == [mode : {"normal", "command", "run"}, line : CLLine, edited : BOOLEAN,
            history : Seq(CLLine), at : Nat, cands : Seq(CLLine), light : Nat,
            help : BOOLEAN, offset : Nat, ran : Seq(CLLine),
            runs : Seq(CLLine), row : Nat, launched : Seq(CLLine)]
CLOffered(s) ==
    /\ s.mode = "command" => s.cands = CL!Candidates(s.line)
    /\ s.mode # "command" => s.cands = <<>>
    /\ s.cands # <<>> => s.light \in DOMAIN s.cands
CLRecalled(s) ==
    /\ s.at <= Len(s.history)
    /\ s.mode = "command" /\ s.at > 0 /\ ~s.edited => s.line = s.history[s.at]
    /\ s.mode # "command" => s.at = 0 /\ ~s.help
CLRows(s) == s.mode = "run" /\ ~s.edited => s.row \in DOMAIN s.runs /\ s.line = s.runs[s.row]
CLPage(s) == s.offset = 0 \/ s.offset + PageLines <= HelpLines
CLRecent(s) == CL!IsRecent(s.history, s.ran) /\ CL!IsRecent(s.runs, s.launched)
CLGood(s) ==
    s \in CLState /\ CLOffered(s) /\ CLRecalled(s) /\ CLRows(s) /\ CLPage(s) /\ CLRecent(s)
CLInv == CLGood(st)

LEMMA CLMost ==
    ASSUME NEW n \in Nat, NEW most \in Nat
    PROVE  CL!AtMost(n, most) \in 0..n /\ CL!AtMost(n, most) <= most
BY DEF CL!AtMost

LEMMA CLCounts == \A S : CL!Cardinality(S) = Cardinality(S)
BY Zenon DEF CL!Cardinality, Cardinality

LEMMA CLCompletes ==
    ASSUME LinesFit, NEW line \in CLLine
    PROVE  CL!Candidates(line) \in Seq(CLLine)
<1>. DEFINE B == Begins[line]
            k == CL!AtMost(Cardinality(B), MaxCandidates)
<1>1. CASE line \notin DOMAIN Begins
  <2>1. CL!Candidates(line) = <<>>
    BY Zenon, <1>1 DEF CL!Candidates
  <2> QED
    BY <2>1
<1>2. CASE line \in DOMAIN Begins
  <2>1. B \subseteq Names /\ Names \subseteq Nat /\ IsFiniteSet(Names) /\ MaxCandidates \in Nat
    BY Zenon, <1>2 DEF LinesFit
  <2>2. IsFiniteSet(B) /\ B \subseteq Nat
    BY <2>1, FS_Subset
  <2>3. Cardinality(B) \in Nat /\ \A n \in 1..Cardinality(B) : Nth(B, n) \in B
    BY <2>2, NthIsThere
  <2>4. CL!Candidates(line) = [n \in 1..k |-> CL!Nth(B, n)]
    BY Zenon, <1>2, CLCounts DEF CL!Candidates
  <2>5. \A n : CL!Nth(B, n) = Nth(B, n)
    BY Zenon, CLCounts DEF CL!Nth, Nth
  <2>6. k \in 0..Cardinality(B)
    BY <2>1, <2>3, CLMost
  <2>7. B \subseteq CLLine
    BY Zenon, <2>1 DEF CLLine, CL!Lines
  <2>. HIDE DEF B
  <2>8. \A n \in 1..k : CL!Nth(B, n) \in CLLine
    <3>. HIDE DEF k
    <3>1. \A n \in 1..k : n \in 1..Cardinality(B)
      BY <2>3, <2>6
    <3> QED
      BY Zenon, <3>1, <2>3, <2>5, <2>7
  <2>. HIDE DEF k
  <2> QED
    BY <2>3, <2>4, <2>6, <2>8
<1> QED
  BY <1>1, <1>2

LEMMA CLNothing == ASSUME LinesFit PROVE CL!Candidates(CL!Empty) = <<>>
<1>1. CASE CL!Empty \notin DOMAIN Begins
  BY Zenon, <1>1 DEF CL!Candidates
<1>2. CASE CL!Empty \in DOMAIN Begins
  <2>1. CL!Cardinality(Begins[CL!Empty]) = 0 /\ MaxCandidates \in Nat
    <3>1. Begins[CL!Empty] = {} /\ MaxCandidates \in Nat
      BY Zenon, <1>2 DEF LinesFit
    <3>2. Cardinality({}) = 0
      BY FS_EmptySet
    <3> QED
      BY Zenon, <3>1, <3>2, CLCounts
  <2>2. CL!AtMost(0, MaxCandidates) = 0
    BY <2>1 DEF CL!AtMost
  <2>3. CL!Candidates(CL!Empty) = [n \in 1..0 |-> CL!Nth(Begins[CL!Empty], n)]
    BY Zenon, <1>2, <2>1, <2>2 DEF CL!Candidates
  <2>. DEFINE f(n) == CL!Nth(Begins[CL!Empty], n)
  <2>. HIDE DEF f
  <2>4. [n \in 1..0 |-> f(n)] = <<>>
    OBVIOUS
  <2> QED
    BY Zenon, <2>3, <2>4 DEF f
<1> QED
  BY <1>1, <1>2

-----------------------------------------------------------------------------
(* The histories. *)

(* A line that is run again changes nothing but the place of the last run;  *)
(* another one is one change more.                                          *)
LEMMA CLChanges ==
    ASSUME NEW ran \in Seq(CLLine), NEW line \in CLLine
    PROVE  LET D == CL!Changes(ran) last == Len(ran)
               E == CL!Changes(Append(ran, line))
           IN  /\ D \subseteq 1..last /\ IsFiniteSet(D)
               /\ ran # <<>> => last \in D
               /\ E = IF ran # <<>> /\ ran[last] = line THEN (D \ {last}) \cup {last + 1}
                      ELSE D \cup {last + 1}
<1>. DEFINE D == CL!Changes(ran)
            last == Len(ran)
            more == Append(ran, line)
            E == CL!Changes(more)
<1>1. last \in Nat /\ DOMAIN ran = 1..last /\ Len(more) = last + 1 /\ DOMAIN more = 1..(last + 1)
  OBVIOUS
<1>2. more[last + 1] = line /\ \A n \in 1..last : more[n] = ran[n]
  OBVIOUS
<1>3. D = {n \in 1..last : n = last \/ ran[n + 1] # ran[n]}
  BY <1>1 DEF CL!Changes
<1>4. /\ E \subseteq 1..(last + 1)
      /\ \A n \in 1..(last + 1) : n \in E <=> n = last + 1 \/ more[n + 1] # more[n]
  <2>. DEFINE differs(n) == more[n + 1] # more[n]
  <2>1. E = {n \in DOMAIN more : n = Len(more) \/ differs(n)}
    BY Zenon DEF CL!Changes
  <2>2. DOMAIN more = 1..(last + 1) /\ Len(more) = last + 1
    BY <1>1
  <2>. HIDE DEF more, last, E, differs
  <2>3. E = {n \in 1..(last + 1) : n = last + 1 \/ differs(n)}
    BY <2>1, <2>2
  <2>4. /\ E \subseteq 1..(last + 1)
        /\ \A n \in 1..(last + 1) : n \in E <=> n = last + 1 \/ differs(n)
    BY <2>3
  <2> QED
    BY <2>4 DEF differs
<1>. HIDE DEF D, E, more
<1>5. D \subseteq 1..last /\ IsFiniteSet(D)
  <2>1. D \subseteq 1..last
    BY <1>3
  <2>2. IsFiniteSet(1..last)
    BY <1>1, FS_Interval
  <2> QED
    BY Zenon, <2>1, <2>2, FS_Subset
<1>6. ran # <<>> => last >= 1
  OBVIOUS
<1>. HIDE DEF last
<1>7. ran # <<>> => last \in D
  BY <1>1, <1>3, <1>6
<1>8. \A n \in 1..(last - 1) : n \in E <=> n \in D
  BY <1>1, <1>2, <1>3, <1>4
<1>9. last + 1 \in E
  BY <1>1, <1>4
<1>10. last \in E <=> last \in 1..last /\ line # ran[last]
  BY <1>1, <1>2, <1>4
<1>11. last \in D <=> last \in 1..last
  BY <1>1, <1>3
<1>12. E \subseteq 1..(last + 1)
  BY <1>4
<1>13. ran # <<>> <=> last \in 1..last
  <2>1. ran = <<>> => last = 0
    BY DEF last
  <2> QED
    BY <1>1, <1>6, <2>1
<1>14. D \subseteq 1..(last + 1) /\ last + 1 \in 1..(last + 1)
  BY <1>1, <1>5
<1>15. E = IF ran # <<>> /\ ran[last] = line THEN (D \ {last}) \cup {last + 1}
           ELSE D \cup {last + 1}
  <2>1. ASSUME ran # <<>>, ran[last] = line PROVE E = (D \ {last}) \cup {last + 1}
    <3>1. last \notin E
      BY <1>10, <2>1
    <3>2. \A n \in 1..(last + 1) : n \in E <=> (n \in D /\ n # last) \/ n = last + 1
      BY <1>1, <1>5, <1>8, <1>9, <3>1
    <3> QED
      BY Zenon, <1>12, <1>14, <3>2
  <2>2. ASSUME ~(ran # <<>> /\ ran[last] = line) PROVE E = D \cup {last + 1}
    <3>1. last \in 1..last => last \in E /\ last \in D
      BY <1>10, <1>11, <1>13, <2>2
    <3>2. \A n \in 1..(last + 1) : n \in E <=> n \in D \/ n = last + 1
      BY <1>1, <1>5, <1>8, <1>9, <3>1
    <3> QED
      BY Zenon, <1>12, <1>14, <3>2
  <2> QED
    BY Zenon, <2>1, <2>2
<1> QED
  BY Zenon, <1>5, <1>7, <1>15 DEF D, E, more, last
(* What add_to_history makes of a history that was recent.                  *)
LEMMA CLRemembers ==
    ASSUME LinesFit, NEW history \in Seq(CLLine), NEW ran \in Seq(CLLine), NEW line \in CLLine,
           line # CL!Empty, CL!IsRecent(history, ran)
    PROVE  /\ CL!Remembered(history, line) \in Seq(CLLine)
           /\ CL!IsRecent(CL!Remembered(history, line), Append(ran, line))
<1>. DEFINE D == CL!Changes(ran)
            last == Len(ran)
            more == Append(ran, line)
            E == CL!Changes(more)
            new == CL!Remembered(history, line)
            since(n) == {m \in D : m >= n}
            sinceNow(n) == {m \in E : m >= n}
            k == Cardinality(D)
<1>1. /\ last \in Nat /\ DOMAIN ran = 1..last /\ more[last + 1] = line
      /\ \A n \in 1..last : more[n] = ran[n]
  OBVIOUS
<1>2. D \subseteq 1..last /\ IsFiniteSet(D) /\ (ran # <<>> => last \in D)
  BY Zenon, CLChanges
<1>3. E = IF ran # <<>> /\ ran[last] = line THEN (D \ {last}) \cup {last + 1}
          ELSE D \cup {last + 1}
  BY Zenon, CLChanges
<1>4. MaxHistory \in Nat
  BY Zenon DEF LinesFit
<1>5. /\ \A n \in 1..(Len(history) - 1) : history[n] # history[n + 1]
      /\ Len(history) = CL!AtMost(k, MaxHistory)
      /\ \A n \in D : Cardinality(since(n)) <= MaxHistory => history[Cardinality(since(n))] = ran[n]
  BY Zenon, CLCounts DEF CL!IsRecent, CL!Since
<1>. HIDE DEF D, E, more, last
<1>6. k \in Nat /\ (ran # <<>> => k > 0)
  BY <1>2, FS_CardinalityType, FS_EmptySet
<1>7. last + 1 \notin D /\ \A n : last + 1 \notin since(n)
  BY <1>1, <1>2
<1>8. IsFiniteSet(E)
  <2>1. IsFiniteSet(D \ {last}) /\ IsFiniteSet({last + 1})
    BY <1>2, FS_Subset, FS_Singleton
  <2> QED
    BY Zenon, <1>2, <1>3, <2>1, FS_Union
<1>9. \A n : IsFiniteSet(since(n)) /\ IsFiniteSet(sinceNow(n)) /\ Cardinality(since(n)) \in Nat
  <2>1. \A n : since(n) \subseteq D /\ sinceNow(n) \subseteq E
    OBVIOUS
  <2> QED
    BY Zenon, <1>2, <1>8, <2>1, FS_Subset, FS_CardinalityType
<1>10. \A n \in D : Cardinality(since(n)) \in 1..k
  <2>1. ASSUME NEW n \in D PROVE Cardinality(since(n)) \in 1..k
    <3>1. since(n) \subseteq D /\ n \in since(n)
      BY <1>1, <1>2
    <3>. HIDE DEF since
    <3>2. Cardinality(since(n)) <= k
      BY <1>2, <3>1, FS_Subset
    <3>3. Cardinality(since(n)) # 0
      BY <1>9, <3>1, FS_EmptySet
    <3>4. k \in Nat /\ Cardinality(since(n)) \in Nat
      BY Zenon, <1>6, <1>9
    <3>. HIDE DEF k
    <3> QED
      BY <3>2, <3>3, <3>4
  <2> QED
    BY Zenon, <2>1
<1>11. sinceNow(last + 1) = {last + 1} /\ Cardinality({last + 1}) = 1
  <2>1. \A m \in E : m >= last + 1 <=> m = last + 1
    BY <1>1, <1>2, <1>3
  <2>2. last + 1 \in E
    BY Zenon, <1>3
  <2>3. sinceNow(last + 1) = {last + 1}
    BY Zenon, <2>1, <2>2
  <2> QED
    BY Zenon, <2>3, FS_Singleton
<1>12. ran # <<>> => since(last) = {last} /\ Cardinality({last}) = 1
  <2>1. ASSUME ran # <<>> PROVE since(last) = {last}
    <3>1. \A m \in D : m >= last <=> m = last
      BY <1>1, <1>2
    <3> QED
      BY Zenon, <1>2, <2>1, <3>1
  <2> QED
    BY Zenon, <2>1, FS_Singleton
<1>13. ran # <<>> /\ MaxHistory # 0 => history # <<>> /\ history[1] = ran[last]
  <2>1. ASSUME ran # <<>>, MaxHistory # 0 PROVE history # <<>> /\ history[1] = ran[last]
    <3>1. Len(history) > 0
      BY <1>4, <1>5, <1>6, <2>1 DEF CL!AtMost
    <3>2. Cardinality(since(last)) = 1
      BY Zenon, <1>12, <2>1
    <3>3. last \in D
      BY Zenon, <1>2, <2>1
    <3>. HIDE DEF since
    <3> QED
      BY <1>4, <1>5, <2>1, <3>1, <3>2, <3>3
  <2> QED
    BY Zenon, <2>1
<1>14. history # <<>> => ran # <<>> /\ MaxHistory # 0
  <2>1. ASSUME history # <<>> PROVE k > 0 /\ MaxHistory # 0
    <3>1. Len(history) > 0
      BY <2>1
    <3> QED
      BY <1>4, <1>5, <1>6, <3>1 DEF CL!AtMost
  <2>2. ASSUME k > 0 PROVE ran # <<>>
    <3>1. k # 0
      BY <1>6, <2>2
    <3>2. D # {}
      BY Zenon, <3>1, FS_EmptySet
    <3>3. PICK n \in D : TRUE
      BY Zenon, <3>2
    <3>4. last # 0
      <4>1. n \in 1..last
        BY Zenon, <1>2
      <4> QED
        BY <1>1, <4>1
    <3> QED
      BY <3>4 DEF last
  <2> QED
    BY Zenon, <2>1, <2>2
<1>. DEFINE Good == /\ new \in Seq(CLLine)
                    /\ \A n \in 1..(Len(new) - 1) : new[n] # new[n + 1]
                    /\ Len(new) = CL!AtMost(Cardinality(E), MaxHistory)
                    /\ \A n \in E : Cardinality(sinceNow(n)) <= MaxHistory =>
                           new[Cardinality(sinceNow(n))] = more[n]
<1>15. ASSUME history # <<>>, history[1] = line PROVE Good
  <2>1. new = history
    BY Zenon, <1>15 DEF CL!Remembered
  <2>2. ran # <<>> /\ ran[last] = line
    BY Zenon, <1>13, <1>14, <1>15
  <2>3. E = (D \ {last}) \cup {last + 1} /\ last \in D
    BY Zenon, <1>2, <1>3, <2>2
  <2>4. ASSUME NEW S \in SUBSET D, last \in S, IsFiniteSet(S)
        PROVE  Cardinality((S \ {last}) \cup {last + 1}) = Cardinality(S)
    <3>1. IsFiniteSet(S \ {last}) /\ Cardinality(S \ {last}) = Cardinality(S) - 1
      BY Zenon, <2>4, FS_RemoveElement
    <3>2. last + 1 \notin S \ {last}
      BY Zenon, <1>7
    <3>3. Cardinality((S \ {last}) \cup {last + 1}) = Cardinality(S) - 1 + 1
      BY Zenon, <3>1, <3>2, FS_AddElement
    <3>4. Cardinality(S) \in Nat
      BY <2>4, FS_CardinalityType
    <3> QED
      BY <3>3, <3>4
  <2>5. Cardinality(E) = k
    BY Zenon, <1>2, <2>3, <2>4
  <2>6. ASSUME NEW n \in E, Cardinality(sinceNow(n)) <= MaxHistory
        PROVE  new[Cardinality(sinceNow(n))] = more[n]
    <3>1. CASE n = last + 1
      BY Zenon, <1>1, <1>11, <1>15, <2>1, <3>1
    <3>2. CASE n # last + 1
      <4>1. n \in D /\ n # last
        BY Zenon, <2>3, <3>2
      <4>2. n \in 1..last /\ n < last
        BY <1>1, <1>2, <4>1
      <4>3. sinceNow(n) = (since(n) \ {last}) \cup {last + 1}
        <5>1. \A m : m \in sinceNow(n) <=> m \in (since(n) \ {last}) \cup {last + 1}
          <6>1. last + 1 >= n
            BY <1>1, <4>2
          <6> QED
            BY Zenon, <2>3, <6>1
        <5> QED
          BY Zenon, <5>1
      <4>4. last \in since(n) /\ since(n) \in SUBSET D
        BY <1>1, <2>3, <4>2
      <4>5. Cardinality(sinceNow(n)) = Cardinality(since(n))
        BY Zenon, <1>9, <2>4, <4>3, <4>4
      <4>6. more[n] = ran[n]
        BY Zenon, <1>1, <4>2
      <4> QED
        BY Zenon, <1>5, <2>1, <2>6, <4>1, <4>5, <4>6
    <3> QED
      BY Zenon, <3>1, <3>2
  <2> QED
    BY Zenon, <1>5, <2>1, <2>5, <2>6
<1>16. ASSUME MaxHistory = 0 PROVE Good
  <2>1. history = <<>>
    BY Zenon, <1>14, <1>16
  <2>2. CL!AtMost(1, 0) = 0 /\ Len(<<>>) = 0 /\ 0 + 1 = 1
    BY DEF CL!AtMost
  <2>3. new = SubSeq(<<line>> \o <<>>, 1, 0)
    BY Zenon, <1>16, <2>1, <2>2 DEF CL!Remembered
  <2>4. new = <<>>
    <3>1. SubSeq(<<line>> \o <<>>, 1, 0) = <<>>
      OBVIOUS
    <3> QED
      BY Zenon, <2>3, <3>1
  <2>5. CL!AtMost(Cardinality(E), MaxHistory) = 0
    BY <1>8, <1>16, FS_CardinalityType DEF CL!AtMost
  <2>6. ASSUME NEW n \in E PROVE ~(Cardinality(sinceNow(n)) <= MaxHistory)
    <3>1. n >= n
      BY <1>1, <1>2, <1>3
    <3>2. sinceNow(n) # {}
      BY Zenon, <3>1
    <3>3. Cardinality(sinceNow(n)) # 0 /\ Cardinality(sinceNow(n)) \in Nat
      BY Zenon, <1>9, <3>2, FS_EmptySet, FS_CardinalityType
    <3>. HIDE DEF sinceNow
    <3> QED
      BY <1>16, <3>3
  <2>. HIDE DEF new, sinceNow
  <2>7. new \in Seq(CLLine) /\ \A n \in 1..(Len(new) - 1) : new[n] # new[n + 1]
    BY <2>4
  <2> QED
    BY Zenon, <2>2, <2>4, <2>5, <2>6, <2>7
<1>17. ASSUME MaxHistory # 0, ~(history # <<>> /\ history[1] = line) PROVE Good
  <2>. DEFINE L == CL!AtMost(Len(history) + 1, MaxHistory)
  <2>1. new = SubSeq(<<line>> \o history, 1, L)
    BY Zenon, <1>17 DEF CL!Remembered
  <2>2. L \in 1..(Len(history) + 1)
    BY <1>4, <1>17 DEF CL!AtMost
  <2>3. /\ new \in Seq(CLLine) /\ Len(new) = L /\ new[1] = line
        /\ \A n \in 2..L : new[n] = history[n - 1]
    <3>. HIDE DEF new, L
    <3> QED
      BY <2>1, <2>2
  <2>4. E = D \cup {last + 1}
    BY Zenon, <1>3, <1>13, <1>17
  <2>5. Cardinality(E) = k + 1
    BY Zenon, <1>2, <1>7, <2>4, FS_AddElement
  <2>6. L = CL!AtMost(k + 1, MaxHistory)
    <3>1. Len(history) = CL!AtMost(k, MaxHistory)
      BY Zenon, <1>5
    <3>. HIDE DEF k
    <3> QED
      BY <1>4, <1>6, <1>17, <3>1 DEF CL!AtMost
  <2>7. \A n \in 1..(L - 1) : new[n] # new[n + 1]
    <3>. HIDE DEF new, L
    <3>1. ASSUME NEW n \in 1..(L - 1) PROVE new[n] # new[n + 1]
      <4>1. n + 1 \in 2..L /\ new[n + 1] = history[n] /\ history # <<>>
        BY <2>2, <2>3
      <4>2. CASE n = 1
        BY <1>17, <2>3, <4>1, <4>2
      <4>3. CASE n # 1
        <5>1. n \in 2..L /\ n - 1 \in 1..(Len(history) - 1) /\ n - 1 + 1 = n
          BY <2>2, <4>3
        <5>2. history[n - 1] # history[n]
          BY <1>5, <5>1
        <5> QED
          BY Zenon, <2>3, <4>1, <5>1, <5>2
      <4> QED
        BY Zenon, <4>2, <4>3
    <3> QED
      BY Zenon, <3>1
  <2>8. ASSUME NEW n \in E, Cardinality(sinceNow(n)) <= MaxHistory
        PROVE  new[Cardinality(sinceNow(n))] = more[n]
    <3>1. CASE n = last + 1
      BY Zenon, <1>1, <1>11, <2>3, <3>1
    <3>2. CASE n # last + 1
      <4>1. n \in D
        BY Zenon, <2>4, <3>2
      <4>2. n \in 1..last
        BY Zenon, <1>2, <4>1
      <4>3. sinceNow(n) = since(n) \cup {last + 1}
        <5>1. last + 1 >= n
          BY <1>1, <4>2
        <5>2. \A m : m \in sinceNow(n) <=> m \in since(n) \cup {last + 1}
          BY Zenon, <2>4, <5>1
        <5> QED
          BY Zenon, <5>2
      <4>. DEFINE c == Cardinality(since(n))
      <4>4. Cardinality(sinceNow(n)) = c + 1
        <5>1. last + 1 \notin since(n) /\ IsFiniteSet(since(n))
          BY Zenon, <1>7, <1>9
        <5>. HIDE DEF since, sinceNow
        <5> QED
          BY Zenon, <4>3, <5>1, FS_AddElement
      <4>5. c \in 1..k
        BY Zenon, <1>10, <4>1
      <4>6. c <= MaxHistory => history[c] = ran[n]
        BY Zenon, <1>5, <4>1
      <4>7. more[n] = ran[n]
        BY Zenon, <1>1, <4>2
      <4>8. c + 1 <= MaxHistory
        BY Zenon, <2>8, <4>4
      <4>. HIDE DEF c, k
      <4>9. c <= MaxHistory /\ c + 1 \in 2..L /\ c + 1 - 1 = c
        <5>1. c \in Nat /\ c >= 1 /\ c <= k /\ c <= MaxHistory
          BY <1>4, <1>6, <4>5, <4>8
        <5>2. c + 1 <= CL!AtMost(k + 1, MaxHistory) /\ CL!AtMost(k + 1, MaxHistory) \in Nat
          BY <1>4, <1>6, <4>8, <5>1 DEF CL!AtMost
        <5>3. Len(history) + 1 \in Nat
          OBVIOUS
        <5>. HIDE DEF L
        <5> QED
          BY <2>6, <5>1, <5>2
      <4>10. new[c + 1] = history[c]
        <5>. DEFINE m == c + 1
        <5>. HIDE DEF L
        <5>1. m \in 2..L /\ m - 1 = c
          BY <4>5, <4>9
        <5>. HIDE DEF new, m
        <5>2. new[m] = history[m - 1]
          BY Zenon, <2>3, <5>1
        <5> QED
          BY Zenon, <5>1, <5>2 DEF m
      <4> QED
        BY Zenon, <4>4, <4>6, <4>7, <4>9, <4>10
    <3> QED
      BY Zenon, <3>1, <3>2
  <2>. HIDE DEF L, k, new
  <2> QED
    BY Zenon, <2>3, <2>5, <2>6, <2>7, <2>8
<1>18. Good
  BY Zenon, <1>15, <1>16, <1>17
<1> QED
  BY Zenon, <1>18, CLCounts DEF CL!IsRecent, CL!Since, E, more

-----------------------------------------------------------------------------
(* The handlers. *)

CLSame(s, t) ==
    /\ t.mode = s.mode /\ t.edited = s.edited /\ t.history = s.history /\ t.at = s.at
    /\ t.help = s.help /\ t.offset = s.offset /\ t.ran = s.ran /\ t.runs = s.runs
    /\ t.row = s.row /\ t.launched = s.launched

LEMMA CLNames == CL!Empty \in CLLine
BY DEF CLLine

(* gtk_entry_set_text: the candidates are those of the new text.            *)
LEMMA CLWrites ==
    ASSUME LinesFit, NEW s \in CLState, NEW line \in CLLine,
           s.mode # "command" => s.cands = <<>>,
           s.mode = "command" /\ s.line = line => CLOffered(s)
    PROVE  LET t == CL!WithLine(s, line)
           IN  t \in CLState /\ t.line = line /\ CLSame(s, t) /\ CLOffered(t)
<1>. DEFINE t == CL!WithLine(s, line)
<1>1. CASE s.mode # "command"
  <2>1. t = [s EXCEPT !.line = line]
    BY Zenon, <1>1 DEF CL!WithLine
  <2>2. t \in CLState /\ t.line = line /\ CLSame(s, t) /\ t.cands = s.cands
    BY <2>1 DEF CLState, CLSame
  <2>. HIDE DEF t
  <2>3. CLOffered(t)
    BY <1>1, <2>2 DEF CLOffered, CLSame
  <2> QED
    BY Zenon, <2>2, <2>3 DEF t
<1>2. CASE s.mode = "command" /\ s.line = line
  <2>1. t = [s EXCEPT !.line = line]
    BY Zenon, <1>2 DEF CL!WithLine
  <2>2. t \in CLState /\ t.line = line /\ CLSame(s, t) /\ t.cands = s.cands /\ t.light = s.light
    BY <2>1 DEF CLState, CLSame
  <2>. HIDE DEF t
  <2>3. CLOffered(t)
    BY Zenon, <1>2, <2>2 DEF CLOffered, CLSame
  <2> QED
    BY Zenon, <2>2, <2>3 DEF t
<1>3. CASE s.mode = "command" /\ s.line # line
  <2>. DEFINE c == CL!Candidates(line)
  <2>1. t = [s EXCEPT !.line = line, !.cands = c, !.light = 1]
    BY Zenon, <1>3 DEF CL!WithLine
  <2>2. c \in Seq(CLLine)
    BY Zenon, CLCompletes
  <2>. HIDE DEF c, t
  <2>3. t.line = line /\ CLSame(s, t) /\ t.cands = c /\ t.light = 1
    BY <2>1 DEF CLState, CLSame
  <2>5. t \in CLState
    BY <2>1, <2>2 DEF CLState
  <2>4. CLOffered(t)
    <3>1. c # <<>> => 1 \in DOMAIN c
      BY <2>2
    <3>2. t.mode = "command"
      BY Zenon, <1>3, <2>3 DEF CLSame
    <3> QED
      BY Zenon, <2>3, <3>1, <3>2 DEF CLOffered, c
  <2> QED
    BY Zenon, <2>3, <2>4, <2>5 DEF t
<1> QED
  BY Zenon, <1>1, <1>2, <1>3

(* Entering, clearing and leaving the command line. *)
CLLoose(s) == s \in CLState /\ CLOffered(s) /\ CLPage(s) /\ CLRecent(s)

LEMMA CLClears ==
    ASSUME LinesFit, NEW s, CLLoose(s), s.mode # "run", s.mode = "normal" => ~s.help
    PROVE  CLGood(CL!ClearCommandLine(s))
<1>. DEFINE u == CL!WithLine(s, CL!Empty)
            t == CL!ClearCommandLine(s)
<1>1. u \in CLState /\ CLSame(s, u) /\ CLOffered(u)
  BY Zenon, CLWrites, CLNames DEF CLLoose, CLOffered
<1>2. t = [u EXCEPT !.at = 0]
  BY Zenon DEF CL!ClearCommandLine
<1>. HIDE DEF u, t
<1>3. /\ t \in CLState /\ t.at = 0 /\ t.mode = s.mode /\ t.help = s.help /\ t.offset = s.offset
      /\ t.history = s.history /\ t.ran = s.ran /\ t.runs = s.runs /\ t.launched = s.launched
      /\ t.cands = u.cands /\ t.light = u.light /\ t.line = u.line /\ t.mode = u.mode
  BY <1>1, <1>2 DEF CLState, CLSame
<1>4. CLOffered(t)
  BY Zenon, <1>1, <1>3 DEF CLOffered
<1>5. CLPage(t) /\ CLRecent(t)
  BY Zenon, <1>3 DEF CLLoose, CLPage, CLRecent
<1>6. t.mode \in {"normal", "command"} /\ (t.mode = "normal" => ~t.help)
  BY <1>3 DEF CLLoose, CLState
<1>7. CLRecalled(t)
  <2>1. 0 <= Len(t.history) /\ ~(0 > 0)
    BY <1>3 DEF CLState
  <2> QED
    BY Zenon, <1>3, <1>6, <2>1 DEF CLRecalled
<1>8. CLRows(t)
  BY <1>6 DEF CLRows
<1> QED
  BY Zenon, <1>3, <1>4, <1>5, <1>7, <1>8 DEF CLGood, t

LEMMA CLLeaves ==
    ASSUME LinesFit, NEW s, CLLoose(s), s.mode = "command"
    PROVE  LET t == CL!ExitCommandMode(s)
           IN  CLGood(t) /\ CLLoose(t) /\ t.mode = "normal" /\ ~t.help
<1>. DEFINE t == CL!ExitCommandMode(s)
            u == [s EXCEPT !.mode = "normal", !.help = FALSE, !.offset = 0, !.at = 0,
                           !.cands = <<>>, !.light = 1, !.edited = FALSE]
<1>1. t = CL!WithLine(u, CL!Empty)
  BY Zenon DEF CL!ExitCommandMode
<1>2. /\ u.mode = "normal" /\ ~u.help /\ u.offset = 0 /\ u.at = 0
      /\ u.cands = <<>> /\ u.light = 1 /\ u.history = s.history /\ u.ran = s.ran
      /\ u.runs = s.runs /\ u.launched = s.launched
  BY DEF CLLoose, CLState
<1>3. u \in CLState
  <2>1. PICK off \in BOOLEAN : off = FALSE
    OBVIOUS
  <2>2. u = [s EXCEPT !.mode = "normal", !.help = off, !.offset = 0, !.at = 0,
                      !.cands = <<>>, !.light = 1, !.edited = off]
    BY Zenon, <2>1
  <2>3. s \in CLState
    BY Zenon DEF CLLoose
  <2>4. <<>> \in Seq(CLLine)
    OBVIOUS
  <2>. HIDE DEF u
  <2> QED
    BY <2>2, <2>3, <2>4 DEF CLState
<1>. HIDE DEF u, t
<1>4. t \in CLState /\ t.line = CL!Empty /\ CLSame(u, t) /\ CLOffered(t)
  <2>1. u.mode # "command"
    BY <1>2
  <2> QED
    BY Zenon, <1>1, <1>2, <1>3, <2>1, CLWrites, CLNames
<1>5. CLPage(t) /\ CLRecent(t)
  BY Zenon, <1>2, <1>4 DEF CLLoose, CLPage, CLRecent, CLSame
<1>6. t.mode = "normal" /\ ~t.help /\ t.at = 0
  BY Zenon, <1>2, <1>4 DEF CLSame
<1>7. CLRecalled(t)
  <2>1. 0 <= Len(t.history) /\ ~(0 > 0)
    BY <1>4 DEF CLState
  <2> QED
    BY Zenon, <1>6, <2>1 DEF CLRecalled
<1>8. CLRows(t)
  BY <1>6 DEF CLRows
<1> QED
  BY Zenon, <1>4, <1>5, <1>6, <1>7, <1>8 DEF CLGood, CLLoose, t

LEMMA CLEnters == ASSUME LinesFit, CLInv, CL!Colon PROVE CLInv'
<1>. DEFINE u == [st EXCEPT !.mode = "command", !.offset = 0]
<1>1. st \in CLState /\ st.mode = "normal"
  BY Zenon DEF CLInv, CLGood, CL!Colon
<1>2. /\ u \in CLState /\ u.mode = "command" /\ u.offset = 0 /\ u.cands = st.cands
      /\ u.at = st.at /\ u.history = st.history /\ u.ran = st.ran /\ u.runs = st.runs
      /\ u.launched = st.launched
  BY <1>1 DEF CLState
<1>3. st' = CL!WithLine(u, CL!Empty)
  BY Zenon DEF CL!Colon, CL!EnterCommandMode
<1>. HIDE DEF u
<1>4. st.cands = <<>> /\ st.at = 0 /\ st.mode # "command"
  <2>1. st.mode # "command"
    BY <1>1
  <2> QED
    BY Zenon, <2>1 DEF CLInv, CLGood, CLOffered, CLRecalled
<1>5. u.line = CL!Empty => CLOffered(u)
  BY Zenon, <1>2, <1>4, CLNothing DEF CLOffered
<1>6. st' \in CLState /\ CLSame(u, st') /\ CLOffered(st')
  BY Zenon, <1>2, <1>3, <1>5, CLWrites, CLNames
<1>7. CLPage(st') /\ CLRecent(st')
  BY Zenon, <1>2, <1>6 DEF CLInv, CLGood, CLPage, CLRecent, CLSame
<1>8. CLRecalled(st')
  <2>1. 0 <= Len(st'.history) /\ ~(0 > 0)
    BY <1>6 DEF CLState
  <2> QED
    BY Zenon, <1>2, <1>4, <1>6, <2>1 DEF CLRecalled, CLSame
<1>9. CLRows(st')
  <2>1. st'.mode # "run"
    BY <1>2, <1>6 DEF CLSame
  <2> QED
    BY Zenon, <2>1 DEF CLRows
<1> QED
  BY Zenon, <1>6, <1>7, <1>8, <1>9 DEF CLInv, CLGood

LEMMA CLEnds == ASSUME LinesFit, CLInv, CL!Escape \/ CL!CtrlU PROVE CLInv'
<1>1. CLLoose(st) /\ st.mode = "command"
  BY Zenon DEF CLInv, CLGood, CLLoose, CL!Escape, CL!CtrlU, CL!InCommand
<1>2. st.mode # "run" /\ st.mode # "normal"
  BY <1>1
<1>3. CASE CL!Escape
  BY Zenon, <1>1, <1>3, CLLeaves DEF CLInv, CL!Escape
<1>4. CASE CL!CtrlU
  BY Zenon, <1>1, <1>2, <1>4, CLClears DEF CLInv, CL!CtrlU
<1> QED
  BY Zenon, <1>3, <1>4

LEMMA CLTypes == ASSUME LinesFit, CLInv, NEW line \in CLLine, CL!Type(line) PROVE CLInv'
<1>. DEFINE u == CL!WithLine(st, line)
<1>1. st \in CLState /\ CLOffered(st) /\ st.mode = "command"
  BY Zenon DEF CLInv, CLGood, CL!Type, CL!InCommand
<1>2. u \in CLState /\ CLSame(st, u) /\ CLOffered(u)
  BY Zenon, <1>1, CLWrites
<1>3. st' = [u EXCEPT !.edited = TRUE]
  BY Zenon DEF CL!Type
<1>. HIDE DEF u
<1>4. PICK on \in BOOLEAN : on = TRUE
  OBVIOUS
<1>5. st' = [u EXCEPT !.edited = on] /\ st'.edited = on
  BY <1>2, <1>3, <1>4 DEF CLState
<1>6. st' \in CLState
  BY <1>2, <1>5 DEF CLState
<1>7. /\ st'.line = u.line /\ st'.cands = u.cands /\ st'.light = u.light /\ st'.mode = u.mode
      /\ st'.at = u.at /\ st'.history = u.history /\ st'.ran = u.ran /\ st'.runs = u.runs
      /\ st'.launched = u.launched /\ st'.offset = u.offset /\ st'.help = u.help
  BY <1>2, <1>3 DEF CLState
<1>8. CLOffered(st')
  BY Zenon, <1>2, <1>7 DEF CLOffered
<1>9. CLPage(st') /\ CLRecent(st')
  BY Zenon, <1>2, <1>7 DEF CLInv, CLGood, CLPage, CLRecent, CLSame
<1>10. CLRecalled(st')
  BY Zenon, <1>1, <1>2, <1>4, <1>5, <1>7 DEF CLInv, CLGood, CLRecalled, CLSame
<1>11. CLRows(st')
  BY Zenon, <1>4, <1>5 DEF CLRows
<1> QED
  BY Zenon, <1>6, <1>8, <1>9, <1>10, <1>11 DEF CLInv, CLGood

LEMMA CLTurns == ASSUME LinesFit, CLInv, CL!PageKeys PROVE CLInv'
<1>1. PICK to \in {st.offset - 1, st.offset + 1, st.offset - PageLines, st.offset + PageLines,
                   0, HelpLines} : CL!HelpKey(to)
  BY Zenon DEF CL!PageKeys
<1>. DEFINE last == IF HelpLines > PageLines THEN HelpLines - PageLines ELSE 0
            o == IF to < 0 THEN 0 ELSE IF to > last THEN last ELSE to
<1>2. st' = [st EXCEPT !.offset = o]
  BY Zenon, <1>1 DEF CL!HelpKey
<1>3. HelpLines \in Nat /\ PageLines \in Nat
  BY Zenon DEF LinesFit
<1>4. st \in CLState
  BY Zenon DEF CLInv, CLGood
<1>5. to \in Int
  <2>1. st.offset \in Nat
    BY <1>4 DEF CLState
  <2> QED
    BY <1>1, <1>3, <2>1
<1>6. o \in Nat /\ (o = 0 \/ o + PageLines <= HelpLines)
  BY <1>3, <1>5
<1>. HIDE DEF o
<1>7. st' \in CLState /\ st'.offset = o
  BY <1>2, <1>4, <1>6 DEF CLState
<1>8. /\ st'.mode = st.mode /\ st'.line = st.line /\ st'.edited = st.edited
      /\ st'.history = st.history /\ st'.at = st.at /\ st'.cands = st.cands
      /\ st'.light = st.light /\ st'.help = st.help /\ st'.ran = st.ran
      /\ st'.runs = st.runs /\ st'.row = st.row /\ st'.launched = st.launched
  BY <1>2, <1>4 DEF CLState
<1> QED
  BY Zenon, <1>6, <1>7, <1>8
  DEF CLInv, CLGood, CLOffered, CLRecalled, CLRows, CLPage, CLRecent

(* Up and Down: the line at the position is in the entry.                   *)
LEMMA CLBrowses ==
    ASSUME LinesFit, CLInv, st.mode = "command", NEW n \in 1..Len(st.history),
           st' = CL!Browsed(st, n)
    PROVE  CLInv'
<1>. DEFINE line == st.history[n]
            u == [st EXCEPT !.at = n]
            v == CL!WithLine(u, line)
<1>1. st \in CLState /\ CLOffered(st)
  BY Zenon DEF CLInv, CLGood
<1>2. st.history \in Seq(CLLine)
  BY <1>1 DEF CLState
<1>3. line \in CLLine /\ n \in Nat /\ n <= Len(st.history)
  BY <1>2
<1>. HIDE DEF line
<1>4. /\ u \in CLState /\ u.at = n /\ u.mode = st.mode /\ u.line = st.line /\ u.cands = st.cands
      /\ u.light = st.light /\ u.history = st.history /\ u.ran = st.ran /\ u.runs = st.runs
      /\ u.launched = st.launched /\ u.offset = st.offset
  BY <1>1, <1>3 DEF CLState
<1>. HIDE DEF u
<1>5. CLOffered(u)
  BY Zenon, <1>1, <1>4 DEF CLOffered
<1>6. u.mode = "command"
  BY Zenon, <1>4
<1>7. v \in CLState /\ v.line = line /\ CLSame(u, v) /\ CLOffered(v)
  BY Zenon, <1>3, <1>4, <1>5, <1>6, CLWrites
<1>8. st' = [v EXCEPT !.edited = FALSE]
  BY Zenon DEF CL!Browsed, u, line
<1>. HIDE DEF v
<1>9. PICK off \in BOOLEAN : off = FALSE
  OBVIOUS
<1>10. st' = [v EXCEPT !.edited = off]
  BY Zenon, <1>8, <1>9
<1>11. st' \in CLState
  BY <1>7, <1>10 DEF CLState
<1>12. /\ st'.line = v.line /\ st'.cands = v.cands /\ st'.light = v.light /\ st'.mode = v.mode
       /\ st'.at = v.at /\ st'.history = v.history /\ st'.ran = v.ran /\ st'.runs = v.runs
       /\ st'.launched = v.launched /\ st'.offset = v.offset
  BY <1>7, <1>8 DEF CLState
<1>13. CLOffered(st')
  BY Zenon, <1>7, <1>12 DEF CLOffered
<1>14. CLPage(st') /\ CLRecent(st')
  BY Zenon, <1>4, <1>7, <1>12 DEF CLInv, CLGood, CLPage, CLRecent, CLSame
<1>15. st'.mode = "command" /\ st'.at = n /\ st'.history = st.history /\ st'.line = line
  BY Zenon, <1>4, <1>6, <1>7, <1>12 DEF CLSame
<1>16. CLRecalled(st')
  BY Zenon, <1>3, <1>15 DEF CLRecalled, line
<1>17. CLRows(st')
  <2>1. st'.mode # "run"
    BY <1>15
  <2> QED
    BY Zenon, <2>1 DEF CLRows
<1> QED
  BY Zenon, <1>11, <1>13, <1>14, <1>16, <1>17 DEF CLInv, CLGood

LEMMA CLRecalls == ASSUME LinesFit, CLInv, CL!Up \/ CL!Down PROVE CLInv'
<1>1. st \in CLState /\ st.mode = "command" /\ st.at <= Len(st.history) /\ CLLoose(st)
  BY Zenon DEF CLInv, CLGood, CLLoose, CLRecalled, CL!Up, CL!Down, CL!InCommand
<1>2. st.at \in Nat /\ Len(st.history) \in Nat /\ (st.history # <<>> => Len(st.history) > 0)
  BY <1>1 DEF CLState
<1>3. CASE CL!Up
  <2>. DEFINE n == IF st.at < Len(st.history) THEN st.at + 1 ELSE st.at
  <2>1. st.history # <<>> /\ st' = CL!Browsed(st, n)
    BY Zenon, <1>3 DEF CL!Up
  <2>2. n \in 1..Len(st.history)
    BY <1>1, <1>2, <2>1
  <2>. HIDE DEF n
  <2> QED
    BY Zenon, <1>1, <2>1, <2>2, CLBrowses
<1>4. CASE CL!Down /\ st.at > 1
  <2>1. st' = CL!Browsed(st, st.at - 1)
    BY Zenon, <1>4 DEF CL!Down
  <2>2. st.at - 1 \in 1..Len(st.history)
    BY <1>1, <1>2, <1>4
  <2> QED
    BY Zenon, <1>1, <2>1, <2>2, CLBrowses
<1>5. CASE CL!Down /\ ~(st.at > 1)
  <2>1. st' = CL!ClearCommandLine(st)
    BY Zenon, <1>5 DEF CL!Down
  <2>2. st.mode # "run" /\ st.mode # "normal"
    BY <1>1
  <2> QED
    BY Zenon, <1>1, <2>1, <2>2, CLClears DEF CLInv
<1> QED
  BY Zenon, <1>3, <1>4, <1>5

LEMMA Wraps ==
    ASSUME NEW n \in Nat, NEW by \in {1, -1}, NEW len \in Nat, len > 0
    PROVE  ((n - 1 + by) % len) + 1 \in 1..len
<1>1. n - 1 + by \in Int
  OBVIOUS
<1>. DEFINE m == n - 1 + by
<1>. HIDE DEF m
<1>2. m % len \in 0..(len - 1)
  BY <1>1 DEF m
<1> QED
  BY <1>2 DEF m

LEMMA CLHighlights == ASSUME LinesFit, CLInv, NEW by \in {1, -1}, CL!Highlight(by) PROVE CLInv'
<1>. DEFINE n == ((st.light - 1 + by) % Len(st.cands)) + 1
<1>1. st \in CLState /\ st.cands # <<>> /\ st.mode = "command"
  BY Zenon DEF CLInv, CLGood, CL!Highlight, CL!InCommand
<1>2. /\ st.light \in Nat /\ Len(st.cands) \in Nat /\ Len(st.cands) > 0
      /\ DOMAIN st.cands = 1..Len(st.cands)
  BY <1>1 DEF CLState
<1>3. st' = [st EXCEPT !.light = n]
  BY Zenon DEF CL!Highlight
<1>4. n \in 1..Len(st.cands)
  BY Zenon, <1>2, Wraps
<1>. HIDE DEF n
<1>5. st' \in CLState /\ st'.light = n
  <2>1. n \in Nat
    BY <1>2, <1>4
  <2> QED
    BY <1>1, <1>3, <2>1 DEF CLState
<1>6. /\ st'.mode = st.mode /\ st'.line = st.line /\ st'.edited = st.edited
      /\ st'.history = st.history /\ st'.at = st.at /\ st'.cands = st.cands
      /\ st'.help = st.help /\ st'.ran = st.ran /\ st'.offset = st.offset
      /\ st'.runs = st.runs /\ st'.row = st.row /\ st'.launched = st.launched
  BY <1>1, <1>3 DEF CLState
<1>7. CLOffered(st')
  BY Zenon, <1>2, <1>4, <1>5, <1>6 DEF CLInv, CLGood, CLOffered
<1> QED
  BY Zenon, <1>5, <1>6, <1>7
  DEF CLInv, CLGood, CLRecalled, CLRows, CLPage, CLRecent

-----------------------------------------------------------------------------
(* A line is run. *)

LEMMA CLHandles ==
    ASSUME LinesFit, NEW s, CLLoose(s), s.mode = "command",
           NEW how \in {"help", "error", "fails", "done", "left"}
    PROVE  CLGood(CL!Handled(s, how))
<1>1. ASSUME NEW t, t \in CLState, t.mode = s.mode, t.cands = s.cands, t.light = s.light,
             t.line = s.line, t.offset \in {0, s.offset}, t.history = s.history, t.ran = s.ran,
             t.runs = s.runs, t.launched = s.launched
      PROVE  CLGood(CL!ClearCommandLine(t))
  <2>1. CLOffered(t) /\ CLRecent(t)
    BY Zenon, <1>1 DEF CLLoose, CLOffered, CLRecent
  <2>2. CLPage(t)
    BY <1>1 DEF CLLoose, CLPage
  <2>3. t.mode # "run" /\ t.mode # "normal"
    BY <1>1
  <2> QED
    BY Zenon, <1>1, <2>1, <2>2, <2>3, CLClears DEF CLLoose
<1>2. s \in CLState
  BY Zenon DEF CLLoose
<1>3. PICK on \in BOOLEAN : on = TRUE
  OBVIOUS
<1>4. CASE how = "help"
  <2>. DEFINE t == CL!ShowHelp(s)
  <2>1. t = [s EXCEPT !.help = on, !.offset = 0]
    BY Zenon, <1>3 DEF CL!ShowHelp
  <2>. HIDE DEF t
  <2>2. /\ t \in CLState /\ t.mode = s.mode /\ t.cands = s.cands /\ t.light = s.light
        /\ t.line = s.line /\ t.offset \in {0, s.offset} /\ t.history = s.history
        /\ t.ran = s.ran /\ t.runs = s.runs /\ t.launched = s.launched
    BY <1>2, <2>1 DEF CLState
  <2>3. CL!Handled(s, how) = CL!ClearCommandLine(t)
    BY <1>4 DEF CL!Handled, t
  <2> QED
    BY Zenon, <1>1, <2>2, <2>3
<1>5. CASE how = "error"
  <2>. DEFINE t == CL!ShowError(s)
  <2>1. t = [s EXCEPT !.help = on]
    BY Zenon, <1>3 DEF CL!ShowError
  <2>. HIDE DEF t
  <2>2. /\ t \in CLState /\ t.mode = s.mode /\ t.cands = s.cands /\ t.light = s.light
        /\ t.line = s.line /\ t.offset \in {0, s.offset} /\ t.history = s.history
        /\ t.ran = s.ran /\ t.runs = s.runs /\ t.launched = s.launched
    BY <1>2, <2>1 DEF CLState
  <2>3. CL!Handled(s, how) = CL!ClearCommandLine(t)
    BY <1>5 DEF CL!Handled, t
  <2> QED
    BY Zenon, <1>1, <2>2, <2>3
<1>6. CASE how = "fails"
  <2>1. CL!Handled(s, how) = CL!ClearCommandLine(s)
    BY <1>6 DEF CL!Handled
  <2>2. s.offset \in {0, s.offset}
    OBVIOUS
  <2> QED
    BY Zenon, <1>1, <1>2, <2>1, <2>2
<1>7. CASE how = "done"
  <2>1. CL!Handled(s, how) = CL!ExitCommandMode(s)
    BY <1>7 DEF CL!Handled
  <2> QED
    BY Zenon, <2>1, CLLeaves
<1>8. CASE how = "left"
  <2>. DEFINE t == CL!ExitCommandMode(s)
  <2>1. CL!Handled(s, how) = CL!ClearCommandLine(t)
    BY <1>8 DEF CL!Handled
  <2>2. CLLoose(t) /\ t.mode = "normal" /\ ~t.help
    BY Zenon, CLLeaves
  <2>. HIDE DEF t
  <2>3. t.mode # "run"
    BY <2>2
  <2> QED
    BY Zenon, <2>1, <2>2, <2>3, CLClears
<1> QED
  BY Zenon, <1>4, <1>5, <1>6, <1>7, <1>8

LEMMA CLRuns == ASSUME LinesFit, CLInv, CL!Enter PROVE CLInv'
<1>. DEFINE c == CL!Chosen
            s == [st EXCEPT !.history = CL!Remembered(@, c),
                            !.ran = IF c = CL!Empty THEN @ ELSE Append(@, c)]
            h == CL!Remembered(st.history, c)
            r == IF c = CL!Empty THEN st.ran ELSE Append(st.ran, c)
<1>1. st \in CLState /\ st.mode = "command" /\ CLLoose(st)
  BY Zenon DEF CLInv, CLGood, CLLoose, CL!Enter, CL!InCommand
<1>2. /\ st.history \in Seq(CLLine) /\ st.ran \in Seq(CLLine) /\ st.cands \in Seq(CLLine)
      /\ st.line \in CLLine
  BY <1>1 DEF CLState
<1>3. c \in CLLine
  <2>1. CASE st.cands # <<>> /\ st.line \notin Spaced
    <3>1. c = st.cands[st.light] /\ st.light \in DOMAIN st.cands
      BY Zenon, <1>1, <2>1 DEF CL!Chosen, CLLoose, CLOffered
    <3>. HIDE DEF c
    <3> QED
      BY <1>2, <3>1
  <2>2. CASE ~(st.cands # <<>> /\ st.line \notin Spaced)
    BY Zenon, <1>2, <2>2 DEF CL!Chosen
  <2> QED
    BY Zenon, <2>1, <2>2
<1>4. PICK how \in {"help", "error", "fails", "done", "left"} : st' = CL!Handled(s, how)
  BY Zenon DEF CL!Enter
<1>. HIDE DEF c
<1>5. h \in Seq(CLLine) /\ r \in Seq(CLLine) /\ CL!IsRecent(h, r)
  <2>1. CL!IsRecent(st.history, st.ran)
    BY Zenon DEF CLInv, CLGood, CLRecent
  <2>2. CASE c = CL!Empty
    <3>1. h = st.history /\ r = st.ran
      BY Zenon, <2>2 DEF CL!Remembered
    <3> QED
      BY Zenon, <1>2, <2>1, <3>1
  <2>3. CASE c # CL!Empty
    <3>1. r = Append(st.ran, c)
      BY Zenon, <2>3
    <3>2. Append(st.ran, c) \in Seq(CLLine)
      BY <1>2, <1>3
    <3> QED
      BY Zenon, <1>2, <1>3, <2>1, <2>3, <3>1, <3>2, CLRemembers
  <2> QED
    BY Zenon, <2>2, <2>3
<1>6. s = [st EXCEPT !.history = h, !.ran = r]
  BY Zenon
<1>. HIDE DEF h, r, s
<1>7. /\ s \in CLState /\ s.history = h /\ s.ran = r /\ s.mode = st.mode /\ s.cands = st.cands
      /\ s.light = st.light /\ s.line = st.line /\ s.offset = st.offset /\ s.runs = st.runs
      /\ s.launched = st.launched
  BY <1>1, <1>5, <1>6 DEF CLState
<1>8. CLLoose(s)
  BY Zenon, <1>1, <1>5, <1>7 DEF CLLoose, CLOffered, CLPage, CLRecent
<1>9. CLGood(CL!Handled(s, how))
  BY Zenon, <1>1, <1>7, <1>8, CLHandles
<1> QED
  BY Zenon, <1>4, <1>9 DEF CLInv

-----------------------------------------------------------------------------
(* The run modal. *)

LEMMA CLOpens == ASSUME LinesFit, CLInv, CL!Exclamation PROVE CLInv'
<1>. DEFINE e == CL!ExitCommandMode(st)
<1>1. CLGood(e) /\ e.mode = "normal"
  <2>1. CASE st.mode = "normal"
    <3>1. st.mode # "command"
      BY <2>1
    <3>2. e = st
      BY Zenon, <3>1 DEF CL!ExitCommandMode
    <3> QED
      BY Zenon, <2>1, <3>2 DEF CLInv
  <2>2. CASE st.mode = "command"
    <3>1. CLLoose(st)
      BY Zenon DEF CLInv, CLGood, CLLoose
    <3> QED
      BY Zenon, <2>2, <3>1, CLLeaves
  <2>3. st.mode \in {"normal", "command"}
    BY Zenon DEF CL!Exclamation
  <2> QED
    BY <2>1, <2>2, <2>3
<1>2. st' = [e EXCEPT !.mode = "run", !.line = CL!Empty, !.row = 1, !.edited = TRUE]
  BY Zenon DEF CL!Exclamation
<1>. HIDE DEF e
<1>3. e \in CLState /\ e.mode # "command"
  BY <1>1 DEF CLGood
<1>4. PICK on \in BOOLEAN : on = TRUE
  OBVIOUS
<1>5. st' = [e EXCEPT !.mode = "run", !.line = CL!Empty, !.row = 1, !.edited = on]
  BY Zenon, <1>2, <1>4
<1>6. st' \in CLState
  BY <1>3, <1>5, CLNames DEF CLState
<1>7. /\ st'.mode = "run" /\ st'.edited = on /\ st'.cands = e.cands /\ st'.light = e.light
      /\ st'.at = e.at /\ st'.help = e.help /\ st'.history = e.history /\ st'.ran = e.ran
      /\ st'.runs = e.runs /\ st'.launched = e.launched /\ st'.offset = e.offset
  BY <1>3, <1>5 DEF CLState
<1>8. st'.mode # "command"
  BY <1>7
<1>9. CLOffered(st')
  BY Zenon, <1>1, <1>3, <1>7, <1>8 DEF CLGood, CLOffered
<1>10. CLRecalled(st')
  BY Zenon, <1>1, <1>3, <1>7, <1>8 DEF CLGood, CLRecalled
<1>11. CLRows(st') /\ CLPage(st') /\ CLRecent(st')
  BY Zenon, <1>1, <1>4, <1>7 DEF CLGood, CLRows, CLPage, CLRecent
<1> QED
  BY Zenon, <1>6, <1>9, <1>10, <1>11 DEF CLInv, CLGood

LEMMA CLRunTypes == ASSUME CLInv, NEW line \in CLLine, CL!RunType(line) PROVE CLInv'
<1>1. st \in CLState /\ st.mode = "run" /\ st' = [st EXCEPT !.line = line, !.edited = TRUE]
  BY Zenon DEF CLInv, CLGood, CL!RunType, CL!InRun
<1>2. PICK on \in BOOLEAN : on = TRUE
  OBVIOUS
<1>3. st' = [st EXCEPT !.line = line, !.edited = on]
  BY Zenon, <1>1, <1>2
<1>4. st' \in CLState
  BY <1>1, <1>3 DEF CLState
<1>5. /\ st'.mode = st.mode /\ st'.edited = on /\ st'.cands = st.cands /\ st'.light = st.light
      /\ st'.at = st.at /\ st'.help = st.help /\ st'.history = st.history /\ st'.ran = st.ran
      /\ st'.runs = st.runs /\ st'.launched = st.launched /\ st'.offset = st.offset
  BY <1>1, <1>3 DEF CLState
<1>6. st'.mode # "command" /\ st.mode # "command"
  BY <1>1, <1>5
<1> QED
  BY Zenon, <1>2, <1>4, <1>5, <1>6
  DEF CLInv, CLGood, CLOffered, CLRecalled, CLRows, CLPage, CLRecent

LEMMA CLSelects == ASSUME CLInv, NEW by \in {1, -1}, CL!SelectRow(by) PROVE CLInv'
<1>. DEFINE n == ((st.row - 1 + by) % Len(st.runs)) + 1
            line == st.runs[n]
<1>1. /\ st \in CLState /\ st.mode = "run" /\ st.runs # <<>>
      /\ st' = [st EXCEPT !.row = n, !.line = line, !.edited = FALSE]
  BY Zenon DEF CLInv, CLGood, CL!SelectRow, CL!InRun
<1>2. /\ st.row \in Nat /\ Len(st.runs) \in Nat /\ Len(st.runs) > 0
      /\ DOMAIN st.runs = 1..Len(st.runs) /\ st.runs \in Seq(CLLine)
  BY <1>1 DEF CLState
<1>3. n \in 1..Len(st.runs)
  BY Zenon, <1>2, Wraps
<1>. HIDE DEF n
<1>4. line \in CLLine /\ n \in Nat /\ n \in DOMAIN st.runs
  BY <1>2, <1>3
<1>. HIDE DEF line
<1>5. PICK off \in BOOLEAN : off = FALSE
  OBVIOUS
<1>6. st' = [st EXCEPT !.row = n, !.line = line, !.edited = off]
  BY Zenon, <1>1, <1>5
<1>7. st' \in CLState
  BY <1>1, <1>4, <1>6 DEF CLState
<1>8. /\ st'.mode = st.mode /\ st'.row = n /\ st'.line = line /\ st'.cands = st.cands
      /\ st'.light = st.light /\ st'.at = st.at /\ st'.help = st.help
      /\ st'.history = st.history /\ st'.ran = st.ran /\ st'.runs = st.runs
      /\ st'.launched = st.launched /\ st'.offset = st.offset
  BY <1>1, <1>6 DEF CLState
<1>9. st'.mode # "command" /\ st.mode # "command"
  BY <1>1, <1>8
<1>10. CLRows(st')
  BY Zenon, <1>4, <1>8 DEF CLRows, line
<1> QED
  BY Zenon, <1>7, <1>8, <1>9, <1>10
  DEF CLInv, CLGood, CLOffered, CLRecalled, CLPage, CLRecent

LEMMA CLCloses ==
    ASSUME NEW s \in CLState, s.mode = "run", CLOffered(s), CLRecalled(s), CLPage(s), CLRecent(s)
    PROVE  CLGood(CL!LeaveRun(s))
<1>. DEFINE t == CL!LeaveRun(s)
<1>1. PICK off \in BOOLEAN : off = FALSE
  OBVIOUS
<1>2. t = [s EXCEPT !.mode = "normal", !.line = CL!Empty, !.row = 1, !.edited = off]
  BY Zenon, <1>1 DEF CL!LeaveRun
<1>. HIDE DEF t
<1>3. t \in CLState
  BY <1>2, CLNames DEF CLState
<1>4. /\ t.mode = "normal" /\ t.cands = s.cands /\ t.light = s.light /\ t.at = s.at
      /\ t.help = s.help /\ t.history = s.history /\ t.ran = s.ran /\ t.runs = s.runs
      /\ t.launched = s.launched /\ t.offset = s.offset
  BY <1>2 DEF CLState
<1>5. t.mode # "command" /\ s.mode # "command" /\ t.mode # "run"
  BY <1>4
<1> QED
  BY Zenon, <1>3, <1>4, <1>5
  DEF CLGood, CLOffered, CLRecalled, CLRows, CLPage, CLRecent, t

LEMMA CLLaunches == ASSUME LinesFit, CLInv, CL!RunEscape \/ CL!RunEnter PROVE CLInv'
<1>1. /\ st \in CLState /\ st.mode = "run" /\ CLOffered(st) /\ CLRecalled(st)
      /\ CLPage(st) /\ CLRecent(st)
  BY Zenon DEF CLInv, CLGood, CL!RunEscape, CL!RunEnter, CL!InRun
<1>2. CASE st' = CL!LeaveRun(st)
  BY Zenon, <1>1, <1>2, CLCloses DEF CLInv
<1>3. CASE CL!RunEscape /\ st.line # CL!Empty
  <2>1. st' = [st EXCEPT !.line = CL!Empty, !.edited = TRUE]
    BY Zenon, <1>3 DEF CL!RunEscape
  <2>2. CL!RunType(CL!Empty)
    BY Zenon, <1>1, <2>1 DEF CL!RunType, CL!InRun
  <2> QED
    BY Zenon, <2>2, CLNames, CLRunTypes
<1>4. CASE CL!RunEnter /\ st.line # CL!Empty
  <2>. DEFINE h == CL!Remembered(st.runs, st.line)
              r == Append(st.launched, st.line)
              s == [st EXCEPT !.runs = h, !.launched = r]
  <2>1. st' = CL!LeaveRun(s)
    BY Zenon, <1>4 DEF CL!RunEnter
  <2>2. st.runs \in Seq(CLLine) /\ st.launched \in Seq(CLLine) /\ st.line \in CLLine
    BY <1>1 DEF CLState
  <2>3. h \in Seq(CLLine) /\ CL!IsRecent(h, r)
    BY Zenon, <1>1, <1>4, <2>2, CLRemembers DEF CLRecent
  <2>4. r \in Seq(CLLine)
    BY <2>2
  <2>. HIDE DEF h, r
  <2>5. /\ s \in CLState /\ s.runs = h /\ s.launched = r /\ s.mode = st.mode
        /\ s.line = st.line /\ s.cands = st.cands /\ s.light = st.light /\ s.at = st.at
        /\ s.help = st.help /\ s.history = st.history /\ s.ran = st.ran
        /\ s.offset = st.offset /\ s.edited = st.edited
    BY <1>1, <2>3, <2>4 DEF CLState
  <2>. HIDE DEF s
  <2>6. CLOffered(s) /\ CLRecalled(s) /\ CLPage(s) /\ CLRecent(s)
    BY Zenon, <1>1, <2>3, <2>5 DEF CLOffered, CLRecalled, CLPage, CLRecent
  <2> QED
    BY Zenon, <1>1, <2>1, <2>5, <2>6, CLCloses DEF CLInv
<1> QED
  BY Zenon, <1>2, <1>3, <1>4 DEF CL!RunEscape, CL!RunEnter

LEMMA CLStarts == ASSUME LinesFit, CL!Init PROVE CLInv
<1>1. PICK off \in BOOLEAN : off = FALSE
  OBVIOUS
<1>2. st = [mode |-> "normal", line |-> CL!Empty, edited |-> off, history |-> <<>>, at |-> 0,
            cands |-> <<>>, light |-> 1, help |-> off, offset |-> 0, ran |-> <<>>,
            runs |-> <<>>, row |-> 1, launched |-> <<>>]
  BY Zenon, <1>1 DEF CL!Init
<1>3. st \in CLState
  BY <1>2, CLNames DEF CLState
<1>4. /\ st.mode = "normal" /\ st.history = <<>> /\ st.at = 0 /\ st.cands = <<>> /\ ~st.help
      /\ st.offset = 0 /\ st.ran = <<>> /\ st.runs = <<>> /\ st.launched = <<>>
  BY <1>1, <1>2
<1>5. CLOffered(st) /\ CLRows(st) /\ CLPage(st)
  BY <1>4 DEF CLOffered, CLRows, CLPage
<1>6. CLRecalled(st)
  BY <1>4 DEF CLRecalled
<1>7. CL!IsRecent(<<>>, <<>>)
  <2>1. CL!Changes(<<>>) = {}
    BY DEF CL!Changes
  <2>2. CL!AtMost(0, MaxHistory) = 0
    BY DEF CL!AtMost, LinesFit
  <2>3. Cardinality({}) = 0
    BY FS_EmptySet
  <2>4. Len(<<>>) = 0 /\ 1..(0 - 1) = {}
    OBVIOUS
  <2> QED
    BY Zenon, <2>1, <2>2, <2>3, <2>4, CLCounts DEF CL!IsRecent
<1> QED
  BY Zenon, <1>3, <1>4, <1>5, <1>6, <1>7 DEF CLInv, CLGood, CLRecent

LEMMA CLSteps == ASSUME LinesFit, CLInv, CL!Next PROVE CLInv'
<1>1. CASE CL!Colon \/ CL!Escape \/ CL!CtrlU
  BY Zenon, <1>1, CLEnters, CLEnds
<1>2. CASE CL!Up \/ CL!Down
  BY Zenon, <1>2, CLRecalls
<1>3. CASE CL!Enter
  BY Zenon, <1>3, CLRuns
<1>4. CASE CL!PageKeys
  BY Zenon, <1>4, CLTurns
<1>5. CASE \E line \in CL!Lines \cup {CL!Empty} : CL!Type(line) \/ CL!RunType(line)
  BY Zenon, <1>5, CLTypes, CLRunTypes DEF CLLine
<1>6. CASE \E by \in {1, -1} : CL!Highlight(by) \/ CL!SelectRow(by)
  BY Zenon, <1>6, CLHighlights, CLSelects
<1>7. CASE CL!Exclamation
  BY Zenon, <1>7, CLOpens
<1>8. CASE CL!RunEscape \/ CL!RunEnter
  BY Zenon, <1>8, CLLaunches
<1> QED
  BY Zenon, <1>1, <1>2, <1>3, <1>4, <1>5, <1>6, <1>7, <1>8 DEF CL!Next

-----------------------------------------------------------------------------
(* The executables of PATH.                                                 *)

LEMMA PBOps ==
    ASSUME NEW f, NEW S
    PROVE  /\ PB!Range(f) = Elements(f) /\ PB!Cardinality(S) = Cardinality(S)
           /\ PB!Picked(f, S) = Picked(f, S) /\ PB!Without(f, S) = Without(f, S)
           /\ PB!Sorted(S, f) = Sorted(S, f)
<1>1. PB!Range(f) = Elements(f)
  BY Zenon DEF PB!Range, Elements
<1>2. \A T : PB!Cardinality(T) = Cardinality(T)
  BY Zenon DEF PB!Cardinality, Cardinality
<1>3. \A T, n : PB!Nth(T, n) = Nth(T, n)
  BY Zenon, <1>2 DEF PB!Nth, Nth
<1>4. \A T : PB!Picked(f, T) = Picked(f, T)
  BY Zenon, <1>2, <1>3 DEF PB!Picked, Picked
<1>5. PB!Without(f, S) = Without(f, S)
  BY Zenon, <1>4 DEF PB!Without, Without
<1>6. PB!Sorted(S, f) = Sorted(S, f)
  BY Zenon DEF PB!Sorted, Sorted, PB!Cardinality, Cardinality
<1> QED
  BY Zenon, <1>1, <1>2, <1>4, <1>5, <1>6

(* A cache: files of different names. *)
PBNamed(S) == S \subseteq PathFiles /\ \A f, g \in S : f.name = g.name => f = g
PBCache(c) == Listed(c) /\ PBNamed(Elements(c)) /\ Len(c) <= MaxBins
PBAscends(c) == \A m, n \in DOMAIN c : m < n => c[m].name < c[n].name

LEMMA PBNames == ASSUME NEW f PROVE PB!NameAt(f) = {g.name : g \in Elements(f)}
BY Zenon, PBOps DEF PB!NameAt

LEMMA PBTyped == ASSUME PathFit, NEW f \in PathFiles PROVE f.dir \in Nat /\ f.name \in Nat
BY DEF PathFit

LEMMA PBSame ==
    ASSUME PathFit, NEW f \in PathFiles, NEW g \in PathFiles, f.dir = g.dir, f.name = g.name
    PROVE  f = g
BY DEF PathFit

(* The sort by names. *)
LEMMA PBOrders ==
    ASSUME PathFit, NEW S, PBNamed(S)
    PROVE  Orders(S, [f \in S |-> {g \in S : g.name < f.name}])
<1>. DEFINE b == [f \in S |-> {g \in S : g.name < f.name}]
<1>1. \A f \in S : f.name \in Nat /\ b[f] = {g \in S : g.name < f.name}
  BY PBTyped DEF PBNamed
<1>2. IsFiniteSet(S)
  BY FS_Subset DEF PBNamed, PathFit
<1>. HIDE DEF b
<1>3. \A f \in S : b[f] \subseteq S /\ f \notin b[f]
  BY <1>1
<1>4. \A f, g \in S : f \in b[g] => b[f] \subseteq b[g]
  BY <1>1
<1>5. \A f, g \in S : f # g => f \in b[g] \/ g \in b[f]
  BY <1>1 DEF PBNamed
<1> QED
  BY <1>2, <1>3, <1>4, <1>5 DEF Orders, b

LEMMA PBSorts ==
    ASSUME PathFit, NEW c, Listed(c), PBNamed(Elements(c))
    PROVE  LET s == PB!ByName(c) IN
           Listed(s) /\ Elements(s) = Elements(c) /\ Len(s) = Len(c) /\ PBAscends(s)
<1>. DEFINE S == Elements(c)  b == [f \in S |-> {g \in S : g.name < f.name}]  s == Sorted(S, b)
<1>1. PB!ByName(c) = s
  BY Zenon, PBOps DEF PB!ByName
<1>2. Orders(S, b)
  BY PBOrders
<1>3. \A f \in S : b[f] = {g \in S : g.name < f.name}
  OBVIOUS
<1>. HIDE DEF S, b
<1>4. Listed(s) /\ Elements(s) = S /\ \A m, n \in DOMAIN s : m < n => s[m] \in b[s[n]]
  BY Zenon, <1>2, Sorts
<1>. HIDE DEF s
<1>5. PBAscends(s)
  <2>1. \A n \in DOMAIN s : s[n] \in S
    BY <1>4 DEF Elements
  <2> QED
    BY <1>3, <1>4, <2>1 DEF PBAscends
<1>6. Len(s) = Len(c)
  BY Zenon, <1>4, Counted DEF S
<1> QED
  BY Zenon, <1>1, <1>4, <1>5, <1>6 DEF S

LEMMA PBSorted ==
    ASSUME PathFit, NEW c, Listed(c), PBNamed(Elements(c)), PBAscends(c)
    PROVE  PB!ByName(c) = c
<1>. DEFINE S == Elements(c)  b == [f \in S |-> {g \in S : g.name < f.name}]
<1>1. PB!ByName(c) = Sorted(S, b)
  BY Zenon, PBOps DEF PB!ByName
<1>2. Orders(S, b)
  BY PBOrders
<1>3. \A f \in S : b[f] = {g \in S : g.name < f.name}
  OBVIOUS
<1>4. \A n \in DOMAIN c : c[n] \in S
  BY DEF Elements
<1>. HIDE DEF b
<1>5. \A m, n \in DOMAIN c : m < n => c[m] \in b[c[n]]
  BY <1>3, <1>4 DEF PBAscends
<1> QED
  BY Zenon, <1>1, <1>2, <1>5, SortedIs

(* Removed: the rest keeps its order. *)
LEMMA PBRemoves ==
    ASSUME PathFit, NEW c, PBCache(c), NEW f
    PROVE  LET d == PB!Removed(c, f) IN
           PBCache(d) /\ Elements(d) = Elements(c) \ {f} /\ (PBAscends(c) => PBAscends(d))
<1>. DEFINE J == {n \in DOMAIN c : c[n] \notin {f}}  d == Picked(c, J)  k == Cardinality(J)
<1>1. PB!Removed(c, f) = d
  BY Zenon, PBOps DEF PB!Removed, Without
<1>2. Listed(c) /\ c \in Seq(Elements(c)) /\ J \subseteq DOMAIN c /\ DOMAIN c = 1..Len(c) /\ Len(c) \in Nat
  BY DEF PBCache, Listed
<1>3. Listed(d) /\ Elements(d) = Elements(c) \ {f}
  <2>1. Without(c, {f}) = d
    BY DEF Without
  <2>2. Listed(Without(c, {f})) /\ Elements(Without(c, {f})) = Elements(c) \ {f}
    BY Zenon, <1>2, WithinListed
  <2> QED
    BY Zenon, <2>1, <2>2
<1>. HIDE DEF J
<1>4. /\ Len(d) = k /\ k \in Nat /\ DOMAIN d = 1..k
      /\ \A n \in 1..k : Nth(J, n) \in J /\ d[n] = c[Nth(J, n)]
  BY Zenon, <1>2, Picks
<1>5. J \subseteq Nat /\ IsFiniteSet(J)
  BY Zenon, <1>2, Subplaces
<1>6. \A m, n \in 1..k : m < n => Nth(J, m) < Nth(J, n)
  BY Zenon, <1>5, NthCovers
<1>7. Len(d) <= Len(c)
  <2>. DEFINE l == Len(c)
  <2>0. l \in Nat
    BY <1>2
  <2>. HIDE DEF l
  <2>1. IsFiniteSet(1..l) /\ Cardinality(1..l) = l
    BY <2>0, FS_Interval
  <2>2. J \in SUBSET (1..Len(c))
    BY <1>2
  <2>3. Cardinality(J) <= Len(c)
    BY Zenon, <2>1, <2>2, FS_Subset DEF l
  <2> QED
    BY Zenon, <1>4, <2>3
<1>. HIDE DEF d, k
<1>8. ASSUME PBAscends(c) PROVE PBAscends(d)
  <2> SUFFICES ASSUME NEW m \in 1..k, NEW n \in 1..k, m < n PROVE d[m].name < d[n].name
    BY <1>4 DEF PBAscends
  <2>1. Nth(J, m) \in DOMAIN c /\ Nth(J, n) \in DOMAIN c /\ Nth(J, m) < Nth(J, n)
    BY <1>2, <1>4, <1>6
  <2> QED
    BY <1>4, <1>8, <2>1 DEF PBAscends
<1>9. PBCache(d)
  <2>1. PBNamed(Elements(d))
    BY <1>3 DEF PBCache, PBNamed
  <2>2. Len(d) <= MaxBins
    BY <1>2, <1>4, <1>7 DEF PBCache, PathFit
  <2> QED
    BY <1>3, <2>1, <2>2 DEF PBCache
<1> QED
  BY Zenon, <1>1, <1>3, <1>8, <1>9

(* Added: a file of a new name, in its place. *)
LEMMA PBAdds ==
    ASSUME PathFit, NEW c, PBCache(c), NEW f \in PathFiles
    PROVE  LET d == PB!Added(c, f) IN
           /\ PBCache(d) /\ (PBAscends(c) => PBAscends(d))
           /\ \/ d = c
              \/ PB!Executable(f) /\ Elements(d) = Elements(c) \cup {f}
<1>. DEFINE d == PB!Added(c, f)  j == Append(c, f)
<1>1. CASE ~(Len(c) < MaxBins /\ f.name \notin PB!NameAt(c) /\ PB!Executable(f))
  <2>1. d = c
    BY <1>1 DEF PB!Added
  <2> QED
    BY Zenon, <2>1
<1>2. CASE Len(c) < MaxBins /\ f.name \notin PB!NameAt(c) /\ PB!Executable(f)
  <2>1. d = PB!ByName(j)
    BY <1>2 DEF PB!Added
  <2>2. \A g \in Elements(c) : g.name # f.name
    BY Zenon, <1>2, PBNames
  <2>3. Elements(c) \cap {f} = {}
    BY <2>2
  <2>4. c \in Seq(Elements(c)) /\ Listed(c) /\ Len(c) \in Nat
    BY DEF PBCache, Listed
  <2>5. Listed(<<f>>) /\ Elements(<<f>>) = {f}
    BY DEF Listed, Elements
  <2>6. j = c \o <<f>> /\ Len(j) = Len(c) + 1
    <3>1. c \in Seq(Elements(c) \cup {f})
      BY <2>4, SeqMonotonic
    <3> QED
      BY <2>4, <3>1
  <2>7. Listed(j) /\ Elements(j) = Elements(c) \cup {f}
    BY Zenon, <2>3, <2>4, <2>5, <2>6, JoinsListed
  <2>8. PBNamed(Elements(j))
    BY <2>2, <2>7 DEF PBCache, PBNamed
  <2>. HIDE DEF d, j
  <2>9. Listed(d) /\ Elements(d) = Elements(j) /\ Len(d) = Len(j) /\ PBAscends(d)
    BY Zenon, <2>1, <2>7, <2>8, PBSorts
  <2>10. Len(d) <= MaxBins
    BY <1>2, <2>4, <2>6, <2>9 DEF PathFit
  <2>11. PBCache(d)
    BY Zenon, <2>8, <2>9, <2>10 DEF PBCache
  <2> QED
    BY Zenon, <1>2, <2>7, <2>9, <2>11 DEF d
<1> QED
  BY Zenon, <1>1, <1>2

(* merge_entries: a chunk of different names. *)
LEMMA PBUpto ==
    ASSUME NEW f, Listed(f), NEW n \in Nat
    PROVE  LET u == PB!Upto(f, n) IN
           Listed(u) /\ Elements(u) \subseteq Elements(f) /\ Len(u) <= n
<1>. DEFINE k == IF Len(f) < n THEN Len(f) ELSE n  u == SubSeq(f, 1, k)
<1>1. Len(f) \in Nat /\ DOMAIN f = 1..Len(f) /\ f \in Seq(Elements(f))
  BY DEF Listed
<1>2. PB!Upto(f, n) = u
  BY Zenon DEF PB!Upto
<1>3. k \in Nat /\ k <= Len(f) /\ k <= n
  BY <1>1
<1>. HIDE DEF k
<1>4. u \in Seq(Elements(f)) /\ DOMAIN u = 1..k /\ (\A m \in 1..k : u[m] = f[m] /\ m \in DOMAIN f)
      /\ Len(u) = k
  BY <1>1, <1>3
<1>. HIDE DEF u
<1>5. Elements(u) \subseteq Elements(f)
  BY <1>4 DEF Elements
<1>6. u \in Seq(Elements(u))
  <2>1. \A m \in 1..Len(u) : u[m] \in Elements(u)
    BY <1>4 DEF Elements
  <2> QED
    BY <1>4, <2>1
<1>7. \A m, l \in DOMAIN u : u[m] = u[l] => m = l
  BY <1>4 DEF Listed
<1>8. Listed(u)
  BY <1>6, <1>7 DEF Listed
<1> QED
  BY <1>2, <1>3, <1>4, <1>5, <1>8

LEMMA PBMerges ==
    ASSUME PathFit, NEW c, PBCache(c), NEW h, Listed(h), PBNamed(Elements(h))
    PROVE  LET d == PB!Merged(c, h) IN
           /\ PBCache(d) /\ Elements(c) \subseteq Elements(d)
           /\ Elements(d) \subseteq Elements(c) \cup Elements(h)
           /\ PB!NameAt(h) \subseteq PB!NameAt(d) =>
                  \A f \in Elements(h) : f.name \notin PB!NameAt(c) => f \in Elements(d)
<1>. DEFINE new == {n \in DOMAIN h : /\ h[n].name \notin PB!NameAt(c)
                                     /\ \A m \in 1..(n - 1) : h[m].name # h[n].name}
            p == Picked(h, new)  room == MaxBins - Len(c)  u == PB!Upto(p, room)  d == c \o u
<1>1. PB!Merged(c, h) = d
  BY Zenon, PBOps DEF PB!Merged
<1>2. new \subseteq DOMAIN h /\ \A n \in new : h[n].name \notin PB!NameAt(c)
  OBVIOUS
<1>. HIDE DEF new
<1>3. Listed(p) /\ Elements(p) = {h[n] : n \in new}
  BY Zenon, <1>2, PicksListed
<1>. HIDE DEF p
<1>4. Len(c) \in Nat /\ room \in Nat /\ Listed(c)
  BY DEF PBCache, PathFit, Listed
<1>5. Listed(u) /\ Elements(u) \subseteq Elements(p) /\ Len(u) <= room
  BY Zenon, <1>3, <1>4, PBUpto
<1>. HIDE DEF u
<1>6. \A f \in Elements(u) : f \in Elements(h) /\ f.name \notin PB!NameAt(c)
  <2>1. \A n \in new : h[n] \in Elements(h)
    BY <1>2 DEF Elements
  <2> QED
    BY <1>2, <1>3, <1>5, <2>1
<1>7. \A f \in Elements(u), g \in Elements(c) : f.name # g.name
  BY Zenon, <1>6, PBNames
<1>8. Elements(c) \cap Elements(u) = {}
  BY <1>7
<1>9. Listed(d) /\ Elements(d) = Elements(c) \cup Elements(u)
  BY Zenon, <1>4, <1>5, <1>8, JoinsListed
<1>10. PBCache(d)
  <2>1. PBNamed(Elements(d))
    BY <1>6, <1>7, <1>9 DEF PBNamed, PBCache
  <2>2. Len(d) = Len(c) + Len(u) /\ Len(u) \in Nat
    <3>1. c \in Seq(Elements(c) \cup Elements(u)) /\ u \in Seq(Elements(c) \cup Elements(u))
      BY <1>4, <1>5, SeqMonotonic DEF Listed
    <3> QED
      BY <3>1
  <2>3. Len(d) <= MaxBins
    BY <1>4, <1>5, <2>2 DEF PathFit
  <2> QED
    BY Zenon, <1>9, <2>1, <2>3 DEF PBCache
<1>. HIDE DEF d
<1>11. ASSUME PB!NameAt(h) \subseteq PB!NameAt(d), NEW f \in Elements(h), f.name \notin PB!NameAt(c)
       PROVE  f \in Elements(d)
  <2>1. f.name \in PB!NameAt(h)
    BY Zenon, PBNames
  <2>2. PICK g \in Elements(d) : g.name = f.name
    BY Zenon, <1>11, <2>1, PBNames
  <2>3. g \notin Elements(c)
    BY Zenon, <1>11, <2>2, PBNames
  <2>4. g \in Elements(h)
    BY Zenon, <1>6, <1>9, <2>3
  <2>5. g = f
    BY Zenon, <2>2, <2>4 DEF PBNamed
  <2> QED
    BY Zenon, <2>5
<1>12. Elements(c) \subseteq Elements(d) /\ Elements(d) \subseteq Elements(c) \cup Elements(h)
  BY Zenon, <1>6, <1>9
<1> QED
  BY Zenon, <1>1, <1>10, <1>11, <1>12

-----------------------------------------------------------------------------
(* What the thread, the main loop and the monitors keep.                    *)
PBFields == {"disk", "events", "unread", "chunks", "scan", "cache", "tab", "text", "rows", "changes",
             "touched", "ghosts", "full"}
PBEvents == [type : {"created", "deleted"}, file : PathFiles]
PBTypes(disk, events, unread, chunks, cache) ==
    /\ DOMAIN disk = PathFiles /\ events \in Seq(PBEvents)
    /\ chunks \in Seq(Seq(PathFiles)) /\ unread \subseteq Nat /\ PBCache(cache)

(* The final chunk is the last one, and the scan is over with it. *)
PBPhase(scan, unread, chunks, cache, events) ==
    /\ scan \in {"none", "running", "queued", "done"}
    /\ scan = "none" => cache = <<>> /\ chunks = <<>> /\ events = <<>>
    /\ scan = "running" => \A i \in DOMAIN chunks : chunks[i] # <<>>
    /\ scan = "queued" => chunks # <<>> /\ \A i \in DOMAIN chunks : chunks[i] = <<>> <=> i = Len(chunks)
    /\ scan = "done" => chunks = <<>> /\ PBAscends(cache)
    /\ scan # "running" => unread = {}

(* A chunk is a list of one directory, in the order of PATH. *)
PBChunks(unread, chunks) ==
    /\ \A i \in DOMAIN chunks : Listed(chunks[i]) /\ \A f, g \in Elements(chunks[i]) : f.dir = g.dir
    /\ \A i, j \in DOMAIN chunks :
           i < j => \A f \in Elements(chunks[i]), g \in Elements(chunks[j]) : f.dir < g.dir
    /\ \A i \in DOMAIN chunks, d \in unread : \A f \in Elements(chunks[i]) : f.dir < d

PBExec(disk, f) == disk[f] = "exec"
PBWaits(chunks, f) == \E i \in DOMAIN chunks : f \in Elements(chunks[i])
PBGoes(events, f) == \E i \in DOMAIN events : events[i].type = "deleted" /\ events[i].file = f

(* What nothing happened to is as it was found, and comes in that order.    *)
PBFound(disk, unread, chunks, cache, touched) ==
    /\ \A f \in PathFiles : f.name \notin touched /\ (f \in Elements(cache) \/ PBWaits(chunks, f)) => PBExec(disk, f)
    /\ \A f \in Elements(cache) : f.name \notin touched =>
           /\ \A d \in unread : f.dir < d
           /\ \A g : PBWaits(chunks, g) => f.dir < g.dir
PBTold(events, touched) == \A i \in DOMAIN events : events[i].file.name \in touched
PBThere(disk, events, chunks, cache, ghosts) ==
    \A f \in PathFiles : f \in Elements(cache) \/ PBWaits(chunks, f) =>
        disk[f] # "absent" \/ PBGoes(events, f) \/ f \in ghosts

(* The first file of a name in the order of PATH is not lost.               *)
PBFirst(disk, f) ==
    /\ PBExec(disk, f)
    /\ \A g \in PathFiles : g.name = f.name /\ PBExec(disk, g) => f.dir <= g.dir
PBFirsts(disk, unread, chunks, scan, cache, touched, full) ==
    \A f \in PathFiles : f.name \notin touched /\ PBFirst(disk, f) /\ ~full /\ scan # "none" =>
        f \in Elements(cache) \/ f.dir \in unread \/ PBWaits(chunks, f)

PBGood(s) ==
    /\ DOMAIN s = PBFields /\ PBTypes(s.disk, s.events, s.unread, s.chunks, s.cache)
    /\ PBPhase(s.scan, s.unread, s.chunks, s.cache, s.events) /\ PBChunks(s.unread, s.chunks)
    /\ PBFound(s.disk, s.unread, s.chunks, s.cache, s.touched) /\ PBTold(s.events, s.touched)
    /\ PBThere(s.disk, s.events, s.chunks, s.cache, s.ghosts)
    /\ PBFirsts(s.disk, s.unread, s.chunks, s.scan, s.cache, s.touched, s.full)
PBDrawn(s) == s.tab => s.rows = PB!Filtered(s.cache, s.text)
PBInv == PBGood(st) /\ PBDrawn(st)

(* The entry, the tab and its rows are no matter to the scan.               *)
LEMMA PBViews ==
    ASSUME NEW s, PBGood(s), NEW t, DOMAIN t = PBFields, t.disk = s.disk, t.events = s.events,
           t.unread = s.unread, t.chunks = s.chunks, t.scan = s.scan, t.cache = s.cache,
           t.touched = s.touched, t.ghosts = s.ghosts, t.full = s.full
    PROVE  PBGood(t)
BY Zenon DEF PBGood

LEMMA PBRefreshes ==
    ASSUME NEW s, PBGood(s)
    PROVE  PBGood(PB!Refreshed(s)) /\ PBDrawn(PB!Refreshed(s))
<1>. DEFINE t == PB!Refreshed(s)  u == [s EXCEPT !.rows = PB!Filtered(s.cache, s.text)]
<1>0. DOMAIN s = PBFields
  BY DEF PBGood
<1>1. CASE s.tab
  <2>1. t = u
    BY Zenon, <1>1 DEF PB!Refreshed
  <2>2. /\ DOMAIN u = PBFields /\ u.disk = s.disk /\ u.events = s.events /\ u.unread = s.unread
        /\ u.chunks = s.chunks /\ u.scan = s.scan /\ u.cache = s.cache /\ u.touched = s.touched
        /\ u.ghosts = s.ghosts /\ u.full = s.full /\ u.text = s.text
        /\ u.rows = PB!Filtered(s.cache, s.text)
    BY <1>0 DEF PBFields
  <2>. HIDE DEF u
  <2>3. PBGood(u)
    BY Zenon, <2>2, PBViews
  <2> QED
    BY Zenon, <2>1, <2>2, <2>3 DEF PBDrawn
<1>2. CASE ~s.tab
  <2>1. t = s
    BY Zenon, <1>2 DEF PB!Refreshed
  <2> QED
    BY Zenon, <1>2, <2>1 DEF PBDrawn
<1> QED
  BY Zenon, <1>1, <1>2

LEMMA PBTails ==
    ASSUME NEW chunks, chunks \in Seq(Seq(PathFiles)), chunks # <<>>
    PROVE  /\ 1 \in DOMAIN chunks /\ Head(chunks) = chunks[1] /\ Head(chunks) \in Seq(PathFiles)
           /\ Tail(chunks) \in Seq(Seq(PathFiles)) /\ Len(Tail(chunks)) = Len(chunks) - 1
           /\ DOMAIN Tail(chunks) = 1..(Len(chunks) - 1)
           /\ \A i \in DOMAIN Tail(chunks) : i \in Nat /\ i + 1 \in DOMAIN chunks /\ i + 1 > 1
                                             /\ Tail(chunks)[i] = chunks[i + 1]
           /\ \A f : PBWaits(chunks, f) <=> f \in Elements(Head(chunks)) \/ PBWaits(Tail(chunks), f)
<1>. DEFINE t == Tail(chunks)  n == Len(chunks)
<1>1. n \in Nat /\ n >= 1 /\ DOMAIN chunks = 1..n
  OBVIOUS
<1>2. 1 \in DOMAIN chunks /\ Head(chunks) = chunks[1] /\ Head(chunks) \in Seq(PathFiles)
  BY <1>1
<1>3. t \in Seq(Seq(PathFiles)) /\ Len(t) = n - 1 /\ DOMAIN t = 1..(n - 1)
      /\ \A i \in 1..(n - 1) : t[i] = chunks[i + 1]
  BY <1>1
<1>. HIDE DEF t, n
<1>4. \A i \in DOMAIN t : i \in Nat /\ i + 1 \in DOMAIN chunks /\ i + 1 > 1 /\ t[i] = chunks[i + 1]
  BY <1>1, <1>3
<1>5. \A i \in DOMAIN chunks : i = 1 \/ \E j \in DOMAIN t : t[j] = chunks[i]
  <2> TAKE i \in DOMAIN chunks
  <2>1. CASE i # 1
    <3>1. i - 1 \in 1..(n - 1) /\ (i - 1) + 1 = i
      BY <1>1, <2>1
    <3> QED
      BY <1>3, <3>1
  <2> QED
    BY <2>1
<1>6. \A f : PBWaits(chunks, f) <=> f \in Elements(chunks[1]) \/ PBWaits(t, f)
  BY Zenon, <1>2, <1>4, <1>5 DEF PBWaits
<1> QED
  BY Zenon, <1>2, <1>3, <1>4, <1>6 DEF t, n

LEMMA PBHeads ==
    ASSUME PathFit, NEW chunks, NEW unread, chunks \in Seq(Seq(PathFiles)), chunks # <<>>,
           PBChunks(unread, chunks)
    PROVE  /\ Listed(Head(chunks)) /\ PBNamed(Elements(Head(chunks))) /\ PBChunks(unread, Tail(chunks))
           /\ \A f \in Elements(Head(chunks)) :
                  /\ \A d \in unread : f.dir < d
                  /\ \A g : PBWaits(Tail(chunks), g) => f.dir < g.dir
                  /\ \A g \in Elements(Head(chunks)) : f.dir = g.dir
<1>. DEFINE h == Head(chunks)  t == Tail(chunks)
<1>1. /\ 1 \in DOMAIN chunks /\ h = chunks[1] /\ h \in Seq(PathFiles)
      /\ \A i \in DOMAIN t : i \in Nat /\ i + 1 \in DOMAIN chunks /\ i + 1 > 1 /\ t[i] = chunks[i + 1]
  BY Zenon, PBTails
<1>. HIDE DEF h, t
<1>2. Listed(h) /\ \A f, g \in Elements(h) : f.dir = g.dir
  BY Zenon, <1>1 DEF PBChunks
<1>3. Elements(h) \subseteq PathFiles
  BY <1>1 DEF Elements
<1>4. PBNamed(Elements(h))
  BY Zenon, <1>2, <1>3, PBSame DEF PBNamed
<1>5. PBChunks(unread, t)
  <2>1. \A i \in DOMAIN t : Listed(t[i]) /\ \A f, g \in Elements(t[i]) : f.dir = g.dir
    <3> TAKE i \in DOMAIN t
    <3>1. t[i] = chunks[i + 1] /\ i + 1 \in DOMAIN chunks
      BY Zenon, <1>1
    <3>2. Listed(chunks[i + 1]) /\ \A f, g \in Elements(chunks[i + 1]) : f.dir = g.dir
      BY Zenon, <3>1 DEF PBChunks
    <3> QED
      BY Zenon, <3>1, <3>2
  <2>2. \A i, j \in DOMAIN t : i < j => \A f \in Elements(t[i]), g \in Elements(t[j]) : f.dir < g.dir
    <3> TAKE i, j \in DOMAIN t
    <3> HAVE i < j
    <3>1. i + 1 \in DOMAIN chunks /\ j + 1 \in DOMAIN chunks /\ i + 1 < j + 1
      BY <1>1
    <3>2. \A f \in Elements(chunks[i + 1]), g \in Elements(chunks[j + 1]) : f.dir < g.dir
      BY Zenon, <3>1 DEF PBChunks
    <3> QED
      BY Zenon, <1>1, <3>2
  <2>3. \A i \in DOMAIN t, d \in unread : \A f \in Elements(t[i]) : f.dir < d
    BY Zenon, <1>1 DEF PBChunks
  <2> QED
    BY Zenon, <2>1, <2>2, <2>3 DEF PBChunks
<1>6. ASSUME NEW f \in Elements(h), NEW g, PBWaits(t, g) PROVE f.dir < g.dir
  <2>1. PICK i \in DOMAIN t : g \in Elements(t[i])
    BY Zenon, <1>6 DEF PBWaits
  <2>2. i + 1 \in DOMAIN chunks /\ 1 < i + 1 /\ g \in Elements(chunks[i + 1])
    BY <1>1, <2>1
  <2> QED
    BY Zenon, <1>1, <2>2 DEF PBChunks
<1>7. \A f \in Elements(h), d \in unread : f.dir < d
  BY Zenon, <1>1 DEF PBChunks
<1> QED
  BY Zenon, <1>2, <1>4, <1>5, <1>6, <1>7 DEF h, t

LEMMA PBWaiting ==
    ASSUME NEW chunks, chunks \in Seq(Seq(PathFiles)), NEW f, PBWaits(chunks, f)
    PROVE  f \in PathFiles
<1>1. PICK i \in DOMAIN chunks : f \in Elements(chunks[i])
  BY Zenon DEF PBWaits
<1>2. chunks[i] \in Seq(PathFiles)
  BY <1>1
<1> QED
  BY <1>1, <1>2 DEF Elements

(* A chunk is merged into a cache that then has the files of d. *)
LEMMA PBMergeKeeps ==
    ASSUME PathFit, PBGood(st), st.chunks # <<>>, st.scan # "none",
           NEW now, NEW d, Elements(st.cache) \subseteq Elements(d),
           Elements(d) \subseteq Elements(st.cache) \cup Elements(Head(st.chunks)),
           PB!NameAt(Head(st.chunks)) \subseteq PB!NameAt(d) =>
               \A f \in Elements(Head(st.chunks)) : f.name \notin PB!NameAt(st.cache) => f \in Elements(d)
    PROVE  /\ PBFound(st.disk, st.unread, Tail(st.chunks), d, st.touched)
           /\ PBThere(st.disk, st.events, Tail(st.chunks), d, st.ghosts)
           /\ PBFirsts(st.disk, st.unread, Tail(st.chunks), now, d, st.touched,
                       st.full \/ ~(PB!NameAt(Head(st.chunks)) \subseteq PB!NameAt(d)))
<1>. DEFINE h == Head(st.chunks)  t == Tail(st.chunks)
            more == st.full \/ ~(PB!NameAt(Head(st.chunks)) \subseteq PB!NameAt(d))
<1>0. /\ PBChunks(st.unread, st.chunks) /\ PBFound(st.disk, st.unread, st.chunks, st.cache, st.touched)
      /\ PBThere(st.disk, st.events, st.chunks, st.cache, st.ghosts)
      /\ PBFirsts(st.disk, st.unread, st.chunks, st.scan, st.cache, st.touched, st.full)
  BY Zenon DEF PBGood
<1>1. st.chunks \in Seq(Seq(PathFiles)) /\ Elements(st.cache) \subseteq PathFiles
  BY Zenon DEF PBGood, PBTypes, PBCache, PBNamed
<1>2. \A f : PBWaits(st.chunks, f) <=> f \in Elements(h) \/ PBWaits(t, f)
  BY Zenon, <1>1, PBTails
<1>3. /\ \A f \in Elements(h) : /\ \A e \in st.unread : f.dir < e
                                /\ \A g : PBWaits(t, g) => f.dir < g.dir
                                /\ \A g \in Elements(h) : f.dir = g.dir
  BY Zenon, <1>0, <1>1, PBHeads
<1>4. \A f : PBWaits(st.chunks, f) => f \in PathFiles
  BY Zenon, <1>1, PBWaiting
<1>. HIDE DEF h, t
<1>5. \A f : f \in Elements(d) \/ PBWaits(t, f) => f \in Elements(st.cache) \/ PBWaits(st.chunks, f)
  BY Zenon, <1>2 DEF h
<1>6. PBThere(st.disk, st.events, t, d, st.ghosts)
  BY Zenon, <1>0, <1>5 DEF PBThere
<1>7. PBFound(st.disk, st.unread, t, d, st.touched)
  <2>1. \A f \in PathFiles : f.name \notin st.touched /\ (f \in Elements(d) \/ PBWaits(t, f)) => PBExec(st.disk, f)
    BY Zenon, <1>0, <1>5 DEF PBFound
  <2>2. \A f \in Elements(d) : f \in Elements(st.cache) \/ f \in Elements(h)
    BY Zenon DEF h
  <2>3. \A f \in Elements(d) : f.name \notin st.touched =>
           /\ \A e \in st.unread : f.dir < e
           /\ \A g : PBWaits(t, g) => f.dir < g.dir
    BY Zenon, <1>0, <1>2, <1>3, <2>2 DEF PBFound
  <2> QED
    BY Zenon, <1>0, <2>1, <2>3 DEF PBFound
<1>8. ASSUME NEW f \in PathFiles, f.name \notin st.touched, PBFirst(st.disk, f), ~more
      PROVE  f \in Elements(d) \/ f.dir \in st.unread \/ PBWaits(t, f)
  <2>1. f \in Elements(st.cache) \/ f.dir \in st.unread \/ PBWaits(st.chunks, f)
    BY Zenon, <1>0, <1>8 DEF PBFirsts
  <2>2. ASSUME f \in Elements(h) PROVE f \in Elements(d)
    <3>1. ASSUME NEW g \in Elements(st.cache), g.name = f.name PROVE FALSE
      <4>1. g \in PathFiles /\ g.name \notin st.touched
        BY <1>1, <1>8, <3>1
      <4>2. PBExec(st.disk, g)
        BY Zenon, <1>0, <4>1 DEF PBFound
      <4>3. f.dir <= g.dir
        BY Zenon, <1>8, <3>1, <4>1, <4>2 DEF PBFirst
      <4>4. PBWaits(st.chunks, f)
        BY Zenon, <1>2, <2>2
      <4>5. g.dir < f.dir
        BY Zenon, <1>0, <4>1, <4>4 DEF PBFound
      <4> QED
        BY <4>1, <4>3, <4>5, PBTyped
    <3>2. f.name \notin PB!NameAt(st.cache)
      BY Zenon, <3>1, PBNames
    <3> QED
      BY Zenon, <1>8, <2>2, <3>2 DEF h
  <2> QED
    BY Zenon, <1>2, <2>1, <2>2
<1>9. PBFirsts(st.disk, st.unread, t, now, d, st.touched, more)
  BY Zenon, <1>0, <1>8 DEF PBFirsts
<1> QED
  BY Zenon, <1>6, <1>7, <1>9 DEF t

LEMMA PBPhaseMerges ==
    ASSUME NEW scan, NEW unread, NEW chunks, chunks \in Seq(Seq(PathFiles)), chunks # <<>>, NEW cache,
           NEW events, PBPhase(scan, unread, chunks, cache, events), NEW d,
           Head(chunks) = <<>> => PBAscends(d)
    PROVE  /\ PBPhase(IF Head(chunks) = <<>> THEN "done" ELSE scan, unread, Tail(chunks), d, events)
           /\ scan \in {"running", "queued"}
<1>. DEFINE h == Head(chunks)  t == Tail(chunks)  n == Len(chunks)
<1>1. /\ 1 \in DOMAIN chunks /\ h = chunks[1] /\ t \in Seq(Seq(PathFiles))
      /\ Len(t) = n - 1 /\ DOMAIN t = 1..(n - 1)
      /\ \A i \in DOMAIN t : i \in Nat /\ i + 1 \in DOMAIN chunks /\ i + 1 > 1 /\ t[i] = chunks[i + 1]
  BY Zenon, PBTails
<1>2. n \in Nat /\ n >= 1
  OBVIOUS
<1>. HIDE DEF h, t, n
<1>3. scan \in {"running", "queued"}
  BY DEF PBPhase
<1>4. CASE scan = "running"
  <2>1. h # <<>> /\ \A i \in DOMAIN t : t[i] # <<>>
    BY Zenon, <1>1, <1>4 DEF PBPhase
  <2> QED
    BY Zenon, <1>3, <1>4, <2>1 DEF PBPhase, h, t
<1>5. CASE scan = "queued" /\ h = <<>>
  <2>1. n = 1
    BY <1>1, <1>5 DEF PBPhase, n
  <2>2. t = <<>>
    BY <1>1, <2>1
  <2>3. unread = {} /\ PBAscends(d)
    BY Zenon, <1>5 DEF PBPhase, h
  <2> QED
    BY Zenon, <1>3, <1>5, <2>2, <2>3 DEF PBPhase, h, t
<1>6. CASE scan = "queued" /\ h # <<>>
  <2>1. n # 1
    BY <1>1, <1>6 DEF PBPhase, n
  <2>2. t # <<>>
    BY <1>1, <1>2, <2>1
  <2>3. \A i \in DOMAIN t : t[i] = <<>> <=> i = Len(t)
    <3> TAKE i \in DOMAIN t
    <3>1. chunks[i + 1] = <<>> <=> i + 1 = n
      BY Zenon, <1>1, <1>6 DEF PBPhase, n
    <3> QED
      BY <1>1, <1>2, <3>1
  <2>4. unread = {}
    BY Zenon, <1>6 DEF PBPhase
  <2> QED
    BY Zenon, <1>6, <2>2, <2>3, <2>4 DEF PBPhase, h, t
<1> QED
  BY Zenon, <1>3, <1>4, <1>5, <1>6

LEMMA PBMergeStep == ASSUME PathFit, PBInv, PB!MergeChunk PROVE PBInv'
<1>. DEFINE h == Head(st.chunks)  rest == Tail(st.chunks)
            c == PB!Merged(st.cache, h)  d == IF h = <<>> THEN PB!ByName(c) ELSE c
            now == IF h = <<>> THEN "done" ELSE st.scan
            more == st.full \/ ~(PB!NameAt(h) \subseteq PB!NameAt(c))
            u == [st EXCEPT !.chunks = rest, !.scan = now, !.full = more, !.cache = d]
<1>1. st.chunks # <<>> /\ st' = PB!Refreshed(u)
  BY Zenon DEF PB!MergeChunk
<1>2. /\ DOMAIN st = PBFields /\ PBTypes(st.disk, st.events, st.unread, st.chunks, st.cache)
      /\ PBPhase(st.scan, st.unread, st.chunks, st.cache, st.events) /\ PBChunks(st.unread, st.chunks)
      /\ PBFound(st.disk, st.unread, st.chunks, st.cache, st.touched) /\ PBTold(st.events, st.touched)
      /\ PBThere(st.disk, st.events, st.chunks, st.cache, st.ghosts)
      /\ PBFirsts(st.disk, st.unread, st.chunks, st.scan, st.cache, st.touched, st.full)
  BY Zenon DEF PBInv, PBGood
<1>3. /\ st.chunks \in Seq(Seq(PathFiles)) /\ PBCache(st.cache) /\ DOMAIN st.disk = PathFiles
      /\ st.events \in Seq(PBEvents) /\ st.unread \subseteq Nat
  BY Zenon, <1>2 DEF PBTypes
<1>4. /\ Listed(h) /\ PBNamed(Elements(h)) /\ PBChunks(st.unread, rest)
      /\ rest \in Seq(Seq(PathFiles))
  BY Zenon, <1>1, <1>2, <1>3, PBHeads, PBTails
<1>5. /\ PBCache(c) /\ Elements(st.cache) \subseteq Elements(c)
      /\ Elements(c) \subseteq Elements(st.cache) \cup Elements(h)
      /\ PB!NameAt(h) \subseteq PB!NameAt(c) =>
             \A f \in Elements(h) : f.name \notin PB!NameAt(st.cache) => f \in Elements(c)
  BY Zenon, <1>3, <1>4, PBMerges
<1>. HIDE DEF c
<1>6. PBCache(d) /\ Elements(d) = Elements(c) /\ (h = <<>> => PBAscends(d))
  <2>1. ASSUME h = <<>> PROVE PBCache(d) /\ Elements(d) = Elements(c) /\ PBAscends(d)
    <3>1. LET s == PB!ByName(c) IN
          Listed(s) /\ Elements(s) = Elements(c) /\ Len(s) = Len(c) /\ PBAscends(s)
      BY Zenon, <1>5, PBSorts DEF PBCache
    <3>2. d = PB!ByName(c)
      BY Zenon, <2>1
    <3> QED
      BY Zenon, <1>5, <3>1, <3>2 DEF PBCache
  <2> QED
    BY Zenon, <1>5, <2>1
<1>7. PB!NameAt(d) = PB!NameAt(c)
  BY Zenon, <1>6, PBNames
<1>. HIDE DEF d
<1>8. PBPhase(now, st.unread, rest, d, st.events) /\ st.scan # "none"
  <2>1. PBPhase(now, st.unread, rest, d, st.events) /\ st.scan \in {"running", "queued"}
    BY Zenon, <1>1, <1>2, <1>3, <1>6, PBPhaseMerges
  <2> QED
    BY <2>1
<1>9. /\ PBFound(st.disk, st.unread, rest, d, st.touched)
      /\ PBThere(st.disk, st.events, rest, d, st.ghosts)
      /\ PBFirsts(st.disk, st.unread, rest, now, d, st.touched, more)
  <2>1. /\ Elements(st.cache) \subseteq Elements(d) /\ Elements(d) \subseteq Elements(st.cache) \cup Elements(h)
        /\ PB!NameAt(h) \subseteq PB!NameAt(d) =>
               \A f \in Elements(h) : f.name \notin PB!NameAt(st.cache) => f \in Elements(d)
    BY Zenon, <1>5, <1>6, <1>7
  <2>0. PBGood(st)
    BY Zenon DEF PBInv
  <2>. HIDE DEF now
  <2>2. /\ PBFound(st.disk, st.unread, rest, d, st.touched)
        /\ PBThere(st.disk, st.events, rest, d, st.ghosts)
        /\ PBFirsts(st.disk, st.unread, rest, now, d, st.touched,
                    st.full \/ ~(PB!NameAt(h) \subseteq PB!NameAt(d)))
    BY Zenon, <1>1, <1>8, <2>1, <2>0, PBMergeKeeps
  <2> QED
    BY Zenon, <1>7, <2>2
<1>10. /\ DOMAIN u = PBFields /\ u.disk = st.disk /\ u.events = st.events /\ u.unread = st.unread
       /\ u.chunks = rest /\ u.scan = now /\ u.cache = d /\ u.touched = st.touched
       /\ u.ghosts = st.ghosts /\ u.full = more
  BY <1>2 DEF PBFields
<1>. HIDE DEF u, h, rest, now, more
<1>11. PBTypes(u.disk, u.events, u.unread, u.chunks, u.cache)
  BY Zenon, <1>3, <1>4, <1>6, <1>10 DEF PBTypes
<1>12. PBGood(u)
  BY Zenon, <1>2, <1>4, <1>8, <1>9, <1>10, <1>11 DEF PBGood
<1> QED
  BY Zenon, <1>1, <1>12, PBRefreshes DEF PBInv

(* The thread adds a chunk. *)
LEMMA PBAppends ==
    ASSUME NEW chunks, chunks \in Seq(Seq(PathFiles)), NEW x \in Seq(PathFiles)
    PROVE  LET a == Append(chunks, x)  n == Len(chunks) IN
           /\ a \in Seq(Seq(PathFiles)) /\ Len(a) = n + 1 /\ n \in Nat /\ a # <<>>
           /\ n + 1 \in DOMAIN a /\ a[n + 1] = x
           /\ \A i \in DOMAIN chunks : i \in DOMAIN a /\ a[i] = chunks[i] /\ i < n + 1
           /\ \A i \in DOMAIN a : i \in DOMAIN chunks \/ i = n + 1
           /\ \A f : PBWaits(a, f) <=> PBWaits(chunks, f) \/ f \in Elements(x)
<1>. DEFINE a == Append(chunks, x)  n == Len(chunks)
<1>0. n \in Nat /\ DOMAIN chunks = 1..n
  OBVIOUS
<1>1. /\ a \in Seq(Seq(PathFiles)) /\ Len(a) = n + 1 /\ n \in Nat /\ a # <<>>
      /\ n + 1 \in DOMAIN a /\ a[n + 1] = x
      /\ \A i \in DOMAIN chunks : i \in DOMAIN a /\ a[i] = chunks[i] /\ i < n + 1
      /\ \A i \in DOMAIN a : i \in DOMAIN chunks \/ i = n + 1
  <2>1. /\ a \in Seq(Seq(PathFiles)) /\ Len(a) = n + 1 /\ DOMAIN a = 1..(n + 1) /\ a[n + 1] = x
        /\ \A i \in 1..n : a[i] = chunks[i]
    BY AppendProperties
  <2>. HIDE DEF a, n
  <2>2. \A i \in 1..(n + 1) : i \in 1..n \/ i = n + 1
    BY <1>0
  <2>3. n + 1 \in 1..(n + 1) /\ \A i \in 1..n : i \in 1..(n + 1) /\ i < n + 1
    BY <1>0
  <2>4. a # <<>>
    BY <1>0, <2>1
  <2> QED
    BY Zenon, <1>0, <2>1, <2>2, <2>3, <2>4
<1>. HIDE DEF a, n
<1>2. \A f : PBWaits(a, f) <=> PBWaits(chunks, f) \/ f \in Elements(x)
  BY Zenon, <1>1 DEF PBWaits
<1> QED
  BY Zenon, <1>1, <1>2 DEF a, n

LEMMA PBReadStep == ASSUME PathFit, PBInv, PB!ReadDir PROVE PBInv'
<1>. DEFINE d == CHOOSE n \in st.unread : \A m \in st.unread : n <= m
            here == {f \in PathFiles : f.dir = d /\ PB!Executable(f)}
<1>1. PICK chunk \in PB!Orders(here) :
          st' = [st EXCEPT !.unread = @ \ {d},
                           !.chunks = IF chunk = <<>> THEN @ ELSE Append(@, chunk)]
  BY Zenon DEF PB!ReadDir
<1>2. st.scan = "running" /\ st.unread # {}
  BY Zenon DEF PB!ReadDir
<1>. DEFINE more == IF chunk = <<>> THEN st.chunks ELSE Append(st.chunks, chunk)
            left == st.unread \ {d}
<1>3. /\ DOMAIN st = PBFields /\ PBTypes(st.disk, st.events, st.unread, st.chunks, st.cache)
      /\ PBPhase(st.scan, st.unread, st.chunks, st.cache, st.events) /\ PBChunks(st.unread, st.chunks)
      /\ PBFound(st.disk, st.unread, st.chunks, st.cache, st.touched) /\ PBTold(st.events, st.touched)
      /\ PBThere(st.disk, st.events, st.chunks, st.cache, st.ghosts)
      /\ PBFirsts(st.disk, st.unread, st.chunks, st.scan, st.cache, st.touched, st.full)
      /\ PBDrawn(st)
  BY Zenon DEF PBInv, PBGood
<1>4. /\ st.chunks \in Seq(Seq(PathFiles)) /\ PBCache(st.cache) /\ DOMAIN st.disk = PathFiles
      /\ st.events \in Seq(PBEvents) /\ st.unread \subseteq Nat
  BY Zenon, <1>3 DEF PBTypes
<1>5. d \in st.unread /\ \A m \in st.unread : d <= m
  <2>1. \E n \in st.unread : \A m \in st.unread : n <= m
    BY Zenon, <1>2, <1>4, NatMin
  <2> QED
    BY Zenon, <2>1
<1>. HIDE DEF d
<1>6. Listed(chunk) /\ Elements(chunk) = here /\ chunk \in Seq(PathFiles)
  <2>1. IsFiniteSet(here) /\ here \subseteq PathFiles
    BY FS_Subset DEF PathFit
  <2>. HIDE DEF here
  <2>2. chunk \in [1..Cardinality(here) -> here] /\ \A m, n \in 1..Cardinality(here) : m # n => chunk[m] # chunk[n]
    <3>1. chunk \in [1..Cardinality(here) -> here] /\ PB!IsInjective(chunk)
      BY Zenon, PBOps DEF PB!Orders
    <3>2. \A m, n \in DOMAIN chunk : chunk[m] = chunk[n] => m = n
      BY Zenon, <3>1 DEF PB!IsInjective
    <3> QED
      BY <3>1, <3>2
  <2>3. Listed(chunk) /\ Elements(chunk) = here /\ chunk \in Seq(here)
    BY Zenon, <2>1, <2>2, Arranged
  <2>4. chunk \in Seq(PathFiles)
    BY <2>1, <2>3, SeqMonotonic
  <2> QED
    BY Zenon, <2>3, <2>4
<1>7. \A f : f \in here <=> f \in PathFiles /\ f.dir = d /\ PBExec(st.disk, f)
  BY Zenon DEF PB!Executable, PBExec
<1>. HIDE DEF here
<1>8. \A f : PBWaits(more, f) <=> PBWaits(st.chunks, f) \/ f \in here
  <2>1. CASE chunk = <<>>
    <3>1. \A f : f \notin here
      BY <1>6, <2>1 DEF Elements
    <3> QED
      BY Zenon, <2>1, <3>1
  <2>2. CASE chunk # <<>>
    BY Zenon, <1>4, <1>6, <2>2, PBAppends
  <2> QED
    BY Zenon, <2>1, <2>2
<1>9. more \in Seq(Seq(PathFiles)) /\ (\A i \in DOMAIN more : more[i] # <<>>) /\ PBChunks(left, more)
  <2>1. \A i \in DOMAIN st.chunks : st.chunks[i] # <<>>
    BY Zenon, <1>2, <1>3 DEF PBPhase
  <2>2. PBChunks(left, st.chunks)
    BY Zenon, <1>3 DEF PBChunks
  <2>3. CASE chunk = <<>>
    BY Zenon, <1>4, <2>1, <2>2, <2>3
  <2>4. CASE chunk # <<>>
    <3>. DEFINE n == Len(st.chunks)  a == Append(st.chunks, chunk)
    <3>1. /\ a \in Seq(Seq(PathFiles)) /\ Len(a) = n + 1 /\ n \in Nat
          /\ n + 1 \in DOMAIN a /\ a[n + 1] = chunk
          /\ \A i \in DOMAIN st.chunks : i \in DOMAIN a /\ a[i] = st.chunks[i] /\ i < n + 1
          /\ \A i \in DOMAIN a : i \in DOMAIN st.chunks \/ i = n + 1
      BY Zenon, <1>4, <1>6, PBAppends
    <3>2. more = a
      BY Zenon, <2>4
    <3>. HIDE DEF a, n
    <3>3. \A i \in DOMAIN a : a[i] # <<>>
      BY Zenon, <2>1, <2>4, <3>1
    <3>4. \A f, g \in Elements(chunk) : f.dir = g.dir
      BY Zenon, <1>6, <1>7
    <3>5. \A i \in DOMAIN a : Listed(a[i]) /\ \A f, g \in Elements(a[i]) : f.dir = g.dir
      <4> TAKE i \in DOMAIN a
      <4>1. CASE i = n + 1
        BY Zenon, <1>6, <3>1, <3>4, <4>1
      <4>2. CASE i \in DOMAIN st.chunks
        <5>1. Listed(st.chunks[i]) /\ \A f, g \in Elements(st.chunks[i]) : f.dir = g.dir
          BY Zenon, <1>3, <4>2 DEF PBChunks
        <5> QED
          BY Zenon, <3>1, <4>2, <5>1
      <4> QED
        BY Zenon, <3>1, <4>1, <4>2
    <3>6. \A i, j \in DOMAIN a : i < j => \A f \in Elements(a[i]), g \in Elements(a[j]) : f.dir < g.dir
      <4> TAKE i, j \in DOMAIN a
      <4> HAVE i < j
      <4>1. i \in DOMAIN st.chunks
        <5>1. DOMAIN st.chunks = 1..n /\ DOMAIN a = 1..(n + 1)
          BY <1>4, <3>1 DEF n
        <5> QED
          BY <3>1, <5>1
      <4>2. CASE j \in DOMAIN st.chunks
        <5>1. \A f \in Elements(st.chunks[i]), g \in Elements(st.chunks[j]) : f.dir < g.dir
          BY Zenon, <1>3, <4>1, <4>2 DEF PBChunks
        <5> QED
          BY Zenon, <3>1, <4>1, <4>2, <5>1
      <4>3. CASE j = n + 1
        <5>1. \A f \in Elements(st.chunks[i]) : f.dir < d
          BY Zenon, <1>3, <1>5, <4>1 DEF PBChunks
        <5>2. a[i] = st.chunks[i] /\ a[j] = chunk
          BY Zenon, <3>1, <4>1, <4>3
        <5> QED
          BY Zenon, <1>6, <1>7, <5>1, <5>2
      <4> QED
        BY Zenon, <3>1, <4>2, <4>3
    <3>7. \A i \in DOMAIN a, e \in left : \A f \in Elements(a[i]) : f.dir < e
      <4> TAKE i \in DOMAIN a, e \in left
      <4>1. CASE i \in DOMAIN st.chunks
        <5>1. \A f \in Elements(st.chunks[i]) : f.dir < e
          BY Zenon, <1>3, <4>1 DEF PBChunks
        <5> QED
          BY Zenon, <3>1, <4>1, <5>1
      <4>2. CASE i = n + 1
        <5>1. d < e
          BY <1>4, <1>5
        <5> QED
          BY Zenon, <1>6, <1>7, <3>1, <4>2, <5>1
      <4> QED
        BY Zenon, <3>1, <4>1, <4>2
    <3>8. PBChunks(left, a)
      BY Zenon, <3>5, <3>6, <3>7 DEF PBChunks
    <3>. HIDE DEF more, left
    <3> QED
      BY Zenon, <3>1, <3>2, <3>3, <3>8
  <2> QED
    BY Zenon, <2>3, <2>4
<1>10. PBFound(st.disk, left, more, st.cache, st.touched)
  <2>1. \A f \in PathFiles : f.name \notin st.touched /\ (f \in Elements(st.cache) \/ PBWaits(more, f)) => PBExec(st.disk, f)
    BY Zenon, <1>3, <1>7, <1>8 DEF PBFound
  <2>2. \A f \in Elements(st.cache) : f.name \notin st.touched =>
           /\ \A e \in left : f.dir < e
           /\ \A g : PBWaits(more, g) => f.dir < g.dir
    BY Zenon, <1>3, <1>5, <1>7, <1>8 DEF PBFound
  <2> QED
    BY Zenon, <2>1, <2>2 DEF PBFound
<1>11. PBThere(st.disk, st.events, more, st.cache, st.ghosts)
  <2>1. \A f \in here : st.disk[f] # "absent"
    BY <1>7 DEF PBExec
  <2> QED
    BY Zenon, <1>3, <1>8, <2>1 DEF PBThere
<1>12. PBFirsts(st.disk, left, more, st.scan, st.cache, st.touched, st.full)
  <2>1. \A f \in PathFiles : PBFirst(st.disk, f) /\ f.dir = d => f \in here
    BY Zenon, <1>7 DEF PBFirst
  <2>2. \A f : f.dir \in st.unread => f.dir \in left \/ f.dir = d
    OBVIOUS
  <2> QED
    BY Zenon, <1>3, <1>8, <2>1, <2>2 DEF PBFirsts
<1>13. PBPhase(st.scan, left, more, st.cache, st.events)
  <2>1. st.scan \in {"none", "running", "queued", "done"} /\ st.scan # "none" /\ st.scan # "queued" /\ st.scan # "done"
    BY <1>2
  <2> QED
    BY Zenon, <1>2, <1>9, <2>1 DEF PBPhase
<1>14. /\ DOMAIN st' = PBFields /\ st'.disk = st.disk /\ st'.events = st.events /\ st'.unread = left
       /\ st'.chunks = more /\ st'.scan = st.scan /\ st'.cache = st.cache /\ st'.touched = st.touched
       /\ st'.ghosts = st.ghosts /\ st'.full = st.full /\ st'.tab = st.tab /\ st'.rows = st.rows
       /\ st'.text = st.text
  BY <1>1, <1>3 DEF PBFields
<1>. HIDE DEF more, left
<1>15. PBTypes(st'.disk, st'.events, st'.unread, st'.chunks, st'.cache)
  <2>1. left \subseteq Nat
    BY <1>4 DEF left
  <2> QED
    BY Zenon, <1>4, <1>9, <1>14, <2>1 DEF PBTypes
<1>16. PBGood(st')
  BY Zenon, <1>3, <1>9, <1>10, <1>11, <1>12, <1>13, <1>14, <1>15 DEF PBGood
<1>17. PBDrawn(st')
  BY Zenon, <1>3, <1>14 DEF PBDrawn
<1> QED
  BY Zenon, <1>16, <1>17 DEF PBInv

LEMMA PBEndStep == ASSUME PBInv, PB!EndScan PROVE PBInv'
<1>. DEFINE a == Append(st.chunks, <<>>)  n == Len(st.chunks)
<1>1. st.scan = "running" /\ st.unread = {} /\ st' = [st EXCEPT !.scan = "queued", !.chunks = a]
  BY Zenon DEF PB!EndScan
<1>2. /\ DOMAIN st = PBFields /\ PBTypes(st.disk, st.events, st.unread, st.chunks, st.cache)
      /\ PBPhase(st.scan, st.unread, st.chunks, st.cache, st.events) /\ PBChunks(st.unread, st.chunks)
      /\ PBFound(st.disk, st.unread, st.chunks, st.cache, st.touched) /\ PBTold(st.events, st.touched)
      /\ PBThere(st.disk, st.events, st.chunks, st.cache, st.ghosts)
      /\ PBFirsts(st.disk, st.unread, st.chunks, st.scan, st.cache, st.touched, st.full)
      /\ PBDrawn(st)
  BY Zenon DEF PBInv, PBGood
<1>3. st.chunks \in Seq(Seq(PathFiles)) /\ <<>> \in Seq(PathFiles)
  BY <1>2 DEF PBTypes
<1>4. Listed(<<>>) /\ Elements(<<>>) = {}
  BY DEF Listed, Elements
<1>5. /\ a \in Seq(Seq(PathFiles)) /\ Len(a) = n + 1 /\ n \in Nat /\ a # <<>>
      /\ n + 1 \in DOMAIN a /\ a[n + 1] = <<>>
      /\ \A i \in DOMAIN st.chunks : i \in DOMAIN a /\ a[i] = st.chunks[i] /\ i < n + 1
      /\ \A i \in DOMAIN a : i \in DOMAIN st.chunks \/ i = n + 1
      /\ \A f : PBWaits(a, f) <=> PBWaits(st.chunks, f) \/ f \in Elements(<<>>)
  BY Zenon, <1>3, PBAppends
<1>6. DOMAIN st' = PBFields /\ st'.disk = st.disk /\ st'.events = st.events /\ st'.unread = st.unread
       /\ st'.chunks = a /\ st'.scan = "queued" /\ st'.cache = st.cache /\ st'.touched = st.touched
       /\ st'.ghosts = st.ghosts /\ st'.full = st.full /\ st'.tab = st.tab /\ st'.rows = st.rows
       /\ st'.text = st.text
  BY <1>1, <1>2 DEF PBFields
<1>. HIDE DEF a, n
<1>7. \A f : PBWaits(a, f) <=> PBWaits(st.chunks, f)
  BY Zenon, <1>4, <1>5
<1>8. \A i \in DOMAIN a : a[i] = <<>> <=> i = Len(a)
  <2> TAKE i \in DOMAIN a
  <2>1. CASE i = n + 1
    BY Zenon, <1>5, <2>1
  <2>2. CASE i \in DOMAIN st.chunks
    <3>1. st.chunks[i] # <<>>
      BY Zenon, <1>1, <1>2, <2>2 DEF PBPhase
    <3>2. i # n + 1
      BY <1>5, <2>2
    <3> QED
      BY Zenon, <1>5, <2>2, <3>1, <3>2
  <2> QED
    BY Zenon, <1>5, <2>1, <2>2
<1>9. PBPhase("queued", st.unread, a, st.cache, st.events)
  BY <1>1, <1>5, <1>8 DEF PBPhase
<1>10. PBChunks(st.unread, a)
  <2>1. \A i \in DOMAIN a : Listed(a[i]) /\ \A f, g \in Elements(a[i]) : f.dir = g.dir
    <3> TAKE i \in DOMAIN a
    <3>1. CASE i = n + 1
      BY Zenon, <1>4, <1>5, <3>1
    <3>2. CASE i \in DOMAIN st.chunks
      <4>1. Listed(st.chunks[i]) /\ \A f, g \in Elements(st.chunks[i]) : f.dir = g.dir
        BY Zenon, <1>2, <3>2 DEF PBChunks
      <4> QED
        BY Zenon, <1>5, <3>2, <4>1
    <3> QED
      BY Zenon, <1>5, <3>1, <3>2
  <2>2. \A i, j \in DOMAIN a : i < j => \A f \in Elements(a[i]), g \in Elements(a[j]) : f.dir < g.dir
    <3> TAKE i, j \in DOMAIN a
    <3> HAVE i < j
    <3>1. CASE i = n + 1 \/ j = n + 1
      BY Zenon, <1>4, <1>5, <3>1
    <3>2. CASE i \in DOMAIN st.chunks /\ j \in DOMAIN st.chunks
      <4>1. \A f \in Elements(st.chunks[i]), g \in Elements(st.chunks[j]) : f.dir < g.dir
        BY Zenon, <1>2, <3>2 DEF PBChunks
      <4> QED
        BY Zenon, <1>5, <3>2, <4>1
    <3> QED
      BY Zenon, <1>5, <3>1, <3>2
  <2>3. \A i \in DOMAIN a, d \in st.unread : \A f \in Elements(a[i]) : f.dir < d
    BY Zenon, <1>1
  <2> QED
    BY Zenon, <2>1, <2>2, <2>3 DEF PBChunks
<1>11. PBFound(st.disk, st.unread, a, st.cache, st.touched)
  BY Zenon, <1>2, <1>7 DEF PBFound
<1>12. PBThere(st.disk, st.events, a, st.cache, st.ghosts)
  BY Zenon, <1>2, <1>7 DEF PBThere
<1>13. PBFirsts(st.disk, st.unread, a, "queued", st.cache, st.touched, st.full)
  <2>1. st.scan # "none"
    BY <1>1
  <2> QED
    BY Zenon, <1>2, <1>7, <2>1 DEF PBFirsts
<1>14. PBTypes(st.disk, st.events, st.unread, a, st.cache)
  BY Zenon, <1>2, <1>5 DEF PBTypes
<1>15. PBGood(st')
  BY Zenon, <1>2, <1>6, <1>9, <1>10, <1>11, <1>12, <1>13, <1>14 DEF PBGood
<1>16. PBDrawn(st')
  BY Zenon, <1>2, <1>6 DEF PBDrawn
<1> QED
  BY Zenon, <1>15, <1>16 DEF PBInv

LEMMA PBStart == ASSUME PathFit, PB!Init PROVE PBInv
<1>1. /\ DOMAIN st = PBFields /\ st.disk = [f \in PathFiles |-> IF f \in Initial THEN "exec" ELSE "absent"]
      /\ st.events = <<>> /\ st.unread = {} /\ st.chunks = <<>> /\ st.scan = "none" /\ st.cache = <<>>
      /\ st.tab = FALSE
  BY DEF PB!Init, PBFields
<1>2. \A f : ~PBWaits(<<>>, f)
  BY DEF PBWaits
<1>3. Elements(<<>>) = {} /\ Listed(<<>>) /\ Len(<<>>) <= MaxBins
  BY DEF Elements, Listed, PathFit
<1>4. PBTypes(st.disk, st.events, st.unread, st.chunks, st.cache)
  BY <1>1, <1>3 DEF PBTypes, PBCache, PBNamed
<1>5. PBPhase(st.scan, st.unread, st.chunks, st.cache, st.events) /\ PBChunks(st.unread, st.chunks)
  BY <1>1 DEF PBPhase, PBChunks
<1>6. PBFound(st.disk, st.unread, st.chunks, st.cache, st.touched) /\ PBTold(st.events, st.touched)
      /\ PBThere(st.disk, st.events, st.chunks, st.cache, st.ghosts)
      /\ PBFirsts(st.disk, st.unread, st.chunks, st.scan, st.cache, st.touched, st.full)
  <2>1. PBTold(st.events, st.touched)
    BY <1>1 DEF PBTold
  <2> QED
    BY Zenon, <1>1, <1>2, <1>3, <2>1 DEF PBFound, PBThere, PBFirsts
<1> QED
  BY Zenon, <1>1, <1>4, <1>5, <1>6 DEF PBInv, PBGood, PBDrawn

LEMMA PBEnterStep == ASSUME PathFit, PBInv, PB!EnterTab PROVE PBInv'
<1>. DEFINE first == st.scan = "none"  cache == IF first THEN <<>> ELSE st.cache
            now == IF first THEN "running" ELSE st.scan  left == IF first THEN PB!Dirs ELSE st.unread
<1>1. st' = [st EXCEPT !.scan = now, !.unread = left, !.cache = cache, !.tab = TRUE, !.text = "",
                       !.rows = PB!Filtered(cache, "")]
  BY Zenon DEF PB!EnterTab
<1>2. /\ DOMAIN st = PBFields /\ PBTypes(st.disk, st.events, st.unread, st.chunks, st.cache)
      /\ PBPhase(st.scan, st.unread, st.chunks, st.cache, st.events) /\ PBChunks(st.unread, st.chunks)
      /\ PBFound(st.disk, st.unread, st.chunks, st.cache, st.touched) /\ PBTold(st.events, st.touched)
      /\ PBThere(st.disk, st.events, st.chunks, st.cache, st.ghosts)
      /\ PBFirsts(st.disk, st.unread, st.chunks, st.scan, st.cache, st.touched, st.full)
      /\ PBDrawn(st)
  BY Zenon DEF PBInv, PBGood
<1>3. DOMAIN st' = PBFields /\ st'.disk = st.disk /\ st'.events = st.events /\ st'.unread = left
       /\ st'.chunks = st.chunks /\ st'.scan = now /\ st'.cache = cache /\ st'.touched = st.touched
       /\ st'.ghosts = st.ghosts /\ st'.full = st.full /\ st'.text = ""
       /\ st'.rows = PB!Filtered(cache, "")
  BY <1>1, <1>2 DEF PBFields
<1>4. cache = st.cache
  BY Zenon, <1>2 DEF PBPhase
<1>. HIDE DEF cache
<1>5. PBDrawn(st')
  BY Zenon, <1>3 DEF PBDrawn
<1>6. CASE st.scan # "none"
  <2>1. now = st.scan /\ left = st.unread
    BY Zenon, <1>6
  <2>. HIDE DEF now, left
  <2>2. PBGood(st')
    BY Zenon, <1>2, <1>3, <1>4, <2>1 DEF PBGood
  <2> QED
    BY Zenon, <1>5, <2>2 DEF PBInv
<1>7. CASE st.scan = "none"
  <2>1. now = "running" /\ left = PB!Dirs /\ st.cache = <<>> /\ st.chunks = <<>> /\ st.events = <<>>
    BY Zenon, <1>2, <1>7 DEF PBPhase
  <2>. HIDE DEF now, left
  <2>2. \A f \in PathFiles : f.dir \in PB!Dirs /\ f.dir \in Nat
    BY PBTyped DEF PB!Dirs
  <2>3. PB!Dirs \subseteq Nat
    BY PBTyped DEF PB!Dirs
  <2>4. Elements(<<>>) = {} /\ \A f : ~PBWaits(<<>>, f)
    BY DEF Elements, PBWaits
  <2>5. PBTypes(st.disk, st.events, PB!Dirs, <<>>, <<>>)
    BY Zenon, <1>2, <2>1, <2>3 DEF PBTypes
  <2>6. PBPhase("running", PB!Dirs, <<>>, <<>>, <<>>) /\ PBChunks(PB!Dirs, <<>>)
    BY DEF PBPhase, PBChunks
  <2>7. PBFound(st.disk, PB!Dirs, <<>>, <<>>, st.touched)
        /\ PBThere(st.disk, st.events, <<>>, <<>>, st.ghosts)
        /\ PBFirsts(st.disk, PB!Dirs, <<>>, "running", <<>>, st.touched, st.full)
    BY Zenon, <2>2, <2>4 DEF PBFound, PBThere, PBFirsts
  <2>8. PBGood(st')
    BY Zenon, <1>2, <1>3, <1>4, <2>1, <2>5, <2>6, <2>7 DEF PBGood
  <2> QED
    BY Zenon, <1>5, <2>8 DEF PBInv
<1> QED
  BY Zenon, <1>6, <1>7

LEMMA PBViewSteps ==
    ASSUME PBInv, PB!LeaveTab \/ \E text \in DOMAIN Ranked \cup {""} : PB!QueryChanged(text)
    PROVE  PBInv'
<1>1. \/ st' = [st EXCEPT !.tab = FALSE]
      \/ \E text : st' = [st EXCEPT !.text = text, !.rows = PB!Filtered(st.cache, text)]
  BY Zenon DEF PB!LeaveTab, PB!QueryChanged
<1>2. PBGood(st) /\ PBDrawn(st) /\ DOMAIN st = PBFields
  BY Zenon DEF PBInv, PBGood
<1>3. CASE st' = [st EXCEPT !.tab = FALSE]
  <2>1. /\ DOMAIN st' = PBFields /\ st'.disk = st.disk /\ st'.events = st.events
        /\ st'.unread = st.unread /\ st'.chunks = st.chunks /\ st'.scan = st.scan
        /\ st'.cache = st.cache /\ st'.touched = st.touched /\ st'.ghosts = st.ghosts
        /\ st'.full = st.full /\ ~st'.tab
    BY <1>2, <1>3 DEF PBFields
  <2>2. PBGood(st')
    BY Zenon, <1>2, <2>1 DEF PBGood
  <2> QED
    BY Zenon, <2>1, <2>2 DEF PBInv, PBDrawn
<1>4. ASSUME NEW text, st' = [st EXCEPT !.text = text, !.rows = PB!Filtered(st.cache, text)]
      PROVE  PBInv'
  <2>1. /\ DOMAIN st' = PBFields /\ st'.disk = st.disk /\ st'.events = st.events
        /\ st'.unread = st.unread /\ st'.chunks = st.chunks /\ st'.scan = st.scan
        /\ st'.cache = st.cache /\ st'.touched = st.touched /\ st'.ghosts = st.ghosts
        /\ st'.full = st.full /\ st'.text = text /\ st'.rows = PB!Filtered(st.cache, text)
    BY <1>2, <1>4 DEF PBFields
  <2>2. PBGood(st')
    BY Zenon, <1>2, <2>1 DEF PBGood
  <2> QED
    BY Zenon, <2>1, <2>2 DEF PBInv, PBDrawn
<1> QED
  BY Zenon, <1>1, <1>3, <1>4

(* The monitors. *)
LEMMA PBEventTails ==
    ASSUME NEW events, events \in Seq(PBEvents), events # <<>>
    PROVE  /\ 1 \in DOMAIN events /\ Head(events) = events[1] /\ Head(events) \in PBEvents
           /\ Tail(events) \in Seq(PBEvents)
           /\ \A i \in DOMAIN Tail(events) : i + 1 \in DOMAIN events /\ Tail(events)[i] = events[i + 1]
           /\ \A f : PBGoes(events, f) =>
                  (Head(events).type = "deleted" /\ Head(events).file = f) \/ PBGoes(Tail(events), f)
<1>. DEFINE t == Tail(events)  n == Len(events)
<1>1. n \in Nat /\ n >= 1 /\ DOMAIN events = 1..n
  OBVIOUS
<1>2. 1 \in DOMAIN events /\ Head(events) = events[1] /\ Head(events) \in PBEvents
  BY <1>1
<1>3. t \in Seq(PBEvents) /\ DOMAIN t = 1..(n - 1) /\ \A i \in 1..(n - 1) : t[i] = events[i + 1]
  BY <1>1
<1>. HIDE DEF t, n
<1>4. \A i \in DOMAIN t : i + 1 \in DOMAIN events /\ t[i] = events[i + 1]
  BY <1>1, <1>3
<1>5. \A i \in DOMAIN events : i = 1 \/ \E j \in DOMAIN t : t[j] = events[i]
  <2> TAKE i \in DOMAIN events
  <2>1. CASE i # 1
    <3>1. i - 1 \in 1..(n - 1) /\ (i - 1) + 1 = i
      BY <1>1, <2>1
    <3> QED
      BY <1>3, <3>1
  <2> QED
    BY <2>1
<1>6. \A f : PBGoes(events, f) => (events[1].type = "deleted" /\ events[1].file = f) \/ PBGoes(t, f)
  BY Zenon, <1>5 DEF PBGoes
<1> QED
  BY Zenon, <1>2, <1>3, <1>4, <1>6 DEF t

LEMMA PBEventStep == ASSUME PathFit, PBInv, PB!MonitorEvent PROVE PBInv'
<1>. DEFINE e == Head(st.events)  t == Tail(st.events)
            c == IF e.type = "created" THEN PB!Added(st.cache, e.file) ELSE PB!Removed(st.cache, e.file)
            more == st.full \/ (e.type = "created" /\ Len(st.cache) >= MaxBins)
            left == IF e.type = "created" \/ e.file \notin PB!Queued THEN st.ghosts
                    ELSE st.ghosts \cup {e.file}
            u == [st EXCEPT !.events = t, !.cache = c, !.full = more, !.ghosts = left]
<1>1. st.events # <<>> /\ st' = IF c = st.cache THEN u ELSE PB!Refreshed(u)
  BY Zenon DEF PB!MonitorEvent
<1>2. /\ DOMAIN st = PBFields /\ PBTypes(st.disk, st.events, st.unread, st.chunks, st.cache)
      /\ PBPhase(st.scan, st.unread, st.chunks, st.cache, st.events) /\ PBChunks(st.unread, st.chunks)
      /\ PBFound(st.disk, st.unread, st.chunks, st.cache, st.touched) /\ PBTold(st.events, st.touched)
      /\ PBThere(st.disk, st.events, st.chunks, st.cache, st.ghosts)
      /\ PBFirsts(st.disk, st.unread, st.chunks, st.scan, st.cache, st.touched, st.full)
      /\ PBDrawn(st)
  BY Zenon DEF PBInv, PBGood
<1>3. st.events \in Seq(PBEvents) /\ PBCache(st.cache)
  BY Zenon, <1>2 DEF PBTypes
<1>4. /\ 1 \in DOMAIN st.events /\ e = st.events[1] /\ e \in PBEvents /\ t \in Seq(PBEvents)
      /\ \A i \in DOMAIN t : i + 1 \in DOMAIN st.events /\ t[i] = st.events[i + 1]
      /\ \A f : PBGoes(st.events, f) => (e.type = "deleted" /\ e.file = f) \/ PBGoes(t, f)
  BY Zenon, <1>1, <1>3, PBEventTails
<1>5. e.type \in {"created", "deleted"} /\ e.file \in PathFiles
  BY <1>4 DEF PBEvents
<1>6. e.file.name \in st.touched /\ PBTold(t, st.touched)
  BY Zenon, <1>2, <1>4 DEF PBTold
<1>7. st.scan # "none"
  BY Zenon, <1>1, <1>2 DEF PBPhase
<1>8. \A f : f \in PB!Queued <=> PBWaits(st.chunks, f)
  <2>1. \A f : PB!Range(f) = Elements(f)
    BY Zenon, PBOps
  <2> QED
    BY Zenon, <2>1 DEF PB!Queued, PBWaits
<1>. DEFINE type == e.type  file == e.file
<1>9. \/ type = "created" /\ c = PB!Added(st.cache, file) /\ left = st.ghosts
      \/ /\ type = "deleted" /\ c = PB!Removed(st.cache, file)
         /\ st.ghosts \subseteq left /\ (PBWaits(st.chunks, file) => file \in left)
  <2>1. CASE type = "created"
    BY Zenon, <2>1
  <2>2. CASE type # "created"
    <3>1. type = "deleted"
      BY Zenon, <1>5, <2>2
    <3>2. st.ghosts \subseteq left /\ (file \in PB!Queued => file \in left)
      BY <2>2
    <3> QED
      BY Zenon, <1>8, <2>2, <3>1, <3>2
  <2> QED
    BY Zenon, <2>1, <2>2
<1>10. DOMAIN u = PBFields /\ u.disk = st.disk /\ u.events = t /\ u.unread = st.unread
       /\ u.chunks = st.chunks /\ u.scan = st.scan /\ u.cache = c /\ u.touched = st.touched
       /\ u.ghosts = left /\ u.full = more /\ u.tab = st.tab /\ u.rows = st.rows
       /\ u.text = st.text
  BY <1>2 DEF PBFields
<1>11. st.full => more
  OBVIOUS
<1>. HIDE DEF e, t, c, more, left, type, file, u
<1>12. file \in PathFiles /\ file.name \in st.touched
       /\ \A f : PBGoes(st.events, f) => (type = "deleted" /\ file = f) \/ PBGoes(t, f)
  BY Zenon, <1>4, <1>5, <1>6 DEF file, type
<1>13. /\ PBCache(c) /\ (PBAscends(st.cache) => PBAscends(c))
       /\ PBThere(st.disk, t, st.chunks, c, left)
       /\ \A f : f # file => (f \in Elements(c) <=> f \in Elements(st.cache))
       /\ file \in Elements(st.cache) => file \in Elements(c) \/ type = "deleted"
  <2>1. CASE type = "created" /\ c = PB!Added(st.cache, file) /\ left = st.ghosts
    <3>1. /\ PBCache(c) /\ (PBAscends(st.cache) => PBAscends(c))
          /\ \/ c = st.cache
             \/ PB!Executable(file) /\ Elements(c) = Elements(st.cache) \cup {file}
      BY Zenon, <1>3, <1>12, <2>1, PBAdds
    <3>2. /\ \A f : f # file => (f \in Elements(c) <=> f \in Elements(st.cache))
          /\ file \in Elements(st.cache) => file \in Elements(c)
          /\ file \in Elements(c) => file \in Elements(st.cache) \/ st.disk[file] # "absent"
      <4>1. CASE c = st.cache
        BY Zenon, <4>1
      <4>2. CASE PB!Executable(file) /\ Elements(c) = Elements(st.cache) \cup {file}
        <5>1. st.disk[file] # "absent"
          BY <4>2 DEF PB!Executable
        <5> QED
          BY Zenon, <4>2, <5>1
      <4> QED
        BY Zenon, <3>1, <4>1, <4>2
    <3>3. \A f : PBGoes(st.events, f) => PBGoes(t, f)
      <4>1. type # "deleted"
        BY <2>1
      <4> QED
        BY Zenon, <1>12, <4>1
    <3>4. PBThere(st.disk, t, st.chunks, c, st.ghosts)
      BY Zenon, <1>2, <3>2, <3>3 DEF PBThere
    <3> QED
      BY Zenon, <2>1, <3>1, <3>2, <3>4
  <2>2. CASE type = "deleted" /\ c = PB!Removed(st.cache, file)
    <3>1. PBCache(c) /\ Elements(c) = Elements(st.cache) \ {file} /\ (PBAscends(st.cache) => PBAscends(c))
      BY Zenon, <1>3, <2>2, PBRemoves
    <3>2. file \notin Elements(c) /\ \A f : f # file => (f \in Elements(c) <=> f \in Elements(st.cache))
      BY <3>1
    <3>3. st.ghosts \subseteq left /\ (PBWaits(st.chunks, file) => file \in left)
      <4>1. type # "created"
        BY <2>2
      <4> QED
        BY Zenon, <1>9, <4>1
    <3>4. ASSUME NEW f \in PathFiles, f \in Elements(c) \/ PBWaits(st.chunks, f)
          PROVE  st.disk[f] # "absent" \/ PBGoes(t, f) \/ f \in left
      <4>1. CASE f = file
        BY Zenon, <3>2, <3>3, <3>4, <4>1
      <4>2. CASE f # file
        <5>1. st.disk[f] # "absent" \/ PBGoes(st.events, f) \/ f \in st.ghosts
          BY Zenon, <1>2, <3>2, <3>4, <4>2 DEF PBThere
        <5> QED
          BY Zenon, <1>12, <3>3, <4>2, <5>1
      <4> QED
        BY Zenon, <4>1, <4>2
    <3> QED
      BY Zenon, <2>2, <3>1, <3>2, <3>4 DEF PBThere
  <2> QED
    BY Zenon, <1>9, <2>1, <2>2
<1>14. PBFound(st.disk, st.unread, st.chunks, c, st.touched)
  <2>1. \A f : f.name \notin st.touched => (f \in Elements(c) <=> f \in Elements(st.cache))
    BY Zenon, <1>12, <1>13
  <2> QED
    BY Zenon, <1>2, <2>1 DEF PBFound
<1>15. PBFirsts(st.disk, st.unread, st.chunks, st.scan, c, st.touched, more)
  <2>1. \A f : f.name \notin st.touched => (f \in Elements(c) <=> f \in Elements(st.cache))
    BY Zenon, <1>12, <1>13
  <2> QED
    BY Zenon, <1>2, <1>11, <2>1 DEF PBFirsts
<1>16. PBPhase(st.scan, st.unread, st.chunks, c, t)
  BY Zenon, <1>2, <1>7, <1>13 DEF PBPhase
<1>17. PBTypes(st.disk, t, st.unread, st.chunks, c)
  BY Zenon, <1>2, <1>4, <1>13 DEF PBTypes
<1>18. PBGood(u)
  BY Zenon, <1>2, <1>6, <1>10, <1>13, <1>14, <1>15, <1>16, <1>17 DEF PBGood
<1>19. CASE c = st.cache
  <2>1. st' = u
    BY Zenon, <1>1, <1>19
  <2>2. PBDrawn(u)
    BY Zenon, <1>2, <1>10, <1>19 DEF PBDrawn
  <2> QED
    BY Zenon, <1>18, <2>1, <2>2 DEF PBInv
<1>20. CASE c # st.cache
  <2>1. st' = PB!Refreshed(u)
    BY Zenon, <1>1, <1>20
  <2> QED
    BY Zenon, <1>18, <2>1, PBRefreshes DEF PBInv
<1> QED
  BY Zenon, <1>19, <1>20

LEMMA PBChangeStep ==
    ASSUME PBInv, NEW f \in PathFiles, NEW to, PB!Change(f, to) PROVE PBInv'
<1>. DEFINE type == CASE to = "absent" -> "deleted"
                      [] to # "absent" /\ st.disk[f] = "absent" -> "created"
                      [] OTHER -> "none"
            e == [type |-> type, file |-> f]
            told == IF st.scan = "none" \/ type = "none" THEN st.events ELSE Append(st.events, e)
            d == [st.disk EXCEPT ![f] = to]  touched == st.touched \cup {f.name}
<1>1. st' = [st EXCEPT !.disk = d, !.changes = @ + 1, !.touched = touched, !.events = told]
  BY DEF PB!Change
<1>2. /\ DOMAIN st = PBFields /\ PBTypes(st.disk, st.events, st.unread, st.chunks, st.cache)
      /\ PBPhase(st.scan, st.unread, st.chunks, st.cache, st.events) /\ PBChunks(st.unread, st.chunks)
      /\ PBFound(st.disk, st.unread, st.chunks, st.cache, st.touched) /\ PBTold(st.events, st.touched)
      /\ PBThere(st.disk, st.events, st.chunks, st.cache, st.ghosts)
      /\ PBFirsts(st.disk, st.unread, st.chunks, st.scan, st.cache, st.touched, st.full)
      /\ PBDrawn(st)
  BY Zenon DEF PBInv, PBGood
<1>3. DOMAIN st' = PBFields /\ st'.disk = d /\ st'.events = told /\ st'.unread = st.unread
       /\ st'.chunks = st.chunks /\ st'.scan = st.scan /\ st'.cache = st.cache /\ st'.touched = touched
       /\ st'.ghosts = st.ghosts /\ st'.full = st.full /\ st'.tab = st.tab /\ st'.rows = st.rows
       /\ st'.text = st.text
  BY <1>1, <1>2 DEF PBFields
<1>4. DOMAIN st.disk = PathFiles /\ st.events \in Seq(PBEvents)
  BY Zenon, <1>2 DEF PBTypes
<1>5. DOMAIN d = PathFiles /\ d[f] = to /\ \A g \in PathFiles : g # f => d[g] = st.disk[g]
  BY <1>4
<1>6. /\ type \in {"created", "deleted", "none"} /\ e.type = type /\ e.file = f
      /\ type # "none" => e \in PBEvents
      /\ to = "absent" => type = "deleted"
  <2>1. type \in {"created", "deleted", "none"} /\ (to = "absent" => type = "deleted")
    OBVIOUS
  <2>. HIDE DEF type
  <2> QED
    BY <2>1 DEF PBEvents
<1>7. \A g : g \in touched <=> g \in st.touched \/ g = f.name
  OBVIOUS
<1>. HIDE DEF type, e, d, touched
<1>8. /\ told \in Seq(PBEvents) /\ PBTold(told, touched)
      /\ \A g : PBGoes(st.events, g) => PBGoes(told, g)
      /\ to = "absent" /\ st.scan # "none" => PBGoes(told, f)
  <2>1. PBTold(st.events, touched)
    BY Zenon, <1>2, <1>7 DEF PBTold
  <2>2. CASE st.scan = "none" \/ type = "none"
    <3>1. told = st.events
      BY <2>2
    <3>2. ~(to = "absent" /\ st.scan # "none")
      <4>1. type = "none" => to # "absent"
        BY <1>6
      <4> QED
        BY Zenon, <2>2, <4>1
    <3> QED
      BY Zenon, <1>4, <2>1, <3>1, <3>2
  <2>3. CASE st.scan # "none" /\ type # "none"
    <3>. DEFINE a == Append(st.events, e)  n == Len(st.events)
    <3>1. told = a /\ e \in PBEvents
      BY <1>6, <2>3
    <3>2. /\ a \in Seq(PBEvents) /\ DOMAIN a = 1..(n + 1) /\ a[n + 1] = e /\ n \in Nat
          /\ \A i \in 1..n : a[i] = st.events[i] /\ DOMAIN st.events = 1..n
      BY <1>4, <3>1, AppendProperties
    <3>3. DOMAIN st.events = 1..n
      BY <1>4
    <3>. HIDE DEF a, n
    <3>4. /\ n + 1 \in DOMAIN a /\ \A i \in DOMAIN a : i \in DOMAIN st.events \/ i = n + 1
          /\ \A i \in DOMAIN st.events : i \in DOMAIN a /\ a[i] = st.events[i]
      BY <3>2, <3>3
    <3>5. PBTold(a, touched)
      <4>1. e.file.name \in touched
        BY Zenon, <1>6, <1>7
      <4> QED
        BY Zenon, <2>1, <3>2, <3>4, <4>1 DEF PBTold
    <3>6. \A g : PBGoes(st.events, g) => PBGoes(a, g)
      BY Zenon, <3>4 DEF PBGoes
    <3>7. to = "absent" => PBGoes(a, f)
      BY Zenon, <1>6, <3>2, <3>4 DEF PBGoes
    <3>. HIDE DEF told
    <3> QED
      BY Zenon, <3>1, <3>2, <3>5, <3>6, <3>7
  <2> QED
    BY Zenon, <2>2, <2>3
<1>9. st.scan = "none" => told = st.events
  OBVIOUS
<1>. HIDE DEF told
<1>10. PBPhase(st.scan, st.unread, st.chunks, st.cache, told)
  BY Zenon, <1>2, <1>9 DEF PBPhase
<1>11. \A g \in PathFiles : g.name \notin touched =>
           g.name \notin st.touched /\ g # f /\ g.name # f.name /\ (PBExec(d, g) <=> PBExec(st.disk, g))
  BY Zenon, <1>5, <1>7 DEF PBExec
<1>12. PBFound(d, st.unread, st.chunks, st.cache, touched)
  <2>1. Elements(st.cache) \subseteq PathFiles
    BY Zenon, <1>2 DEF PBTypes, PBCache, PBNamed
  <2>2. \A g \in Elements(st.cache) : g.name \notin touched => g.name \notin st.touched
    BY Zenon, <1>7
  <2> QED
    BY Zenon, <1>2, <1>11, <2>2 DEF PBFound
<1>13. PBThere(d, told, st.chunks, st.cache, st.ghosts)
  <2> SUFFICES ASSUME NEW g \in PathFiles, g \in Elements(st.cache) \/ PBWaits(st.chunks, g)
               PROVE  d[g] # "absent" \/ PBGoes(told, g) \/ g \in st.ghosts
    BY Zenon DEF PBThere
  <2>1. st.scan # "none"
    <3>1. Elements(<<>>) = {} /\ ~PBWaits(<<>>, g)
      BY DEF Elements, PBWaits
    <3> QED
      BY Zenon, <1>2, <3>1 DEF PBPhase
  <2>2. CASE g = f
    BY Zenon, <1>5, <1>8, <2>1, <2>2
  <2>3. CASE g # f
    BY Zenon, <1>2, <1>5, <1>8, <2>3 DEF PBThere
  <2> QED
    BY Zenon, <2>2, <2>3
<1>14. PBFirsts(d, st.unread, st.chunks, st.scan, st.cache, touched, st.full)
  <2>1. \A g \in PathFiles : g.name \notin touched /\ PBFirst(d, g) => PBFirst(st.disk, g)
    <3> TAKE g \in PathFiles
    <3> HAVE g.name \notin touched /\ PBFirst(d, g)
    <3>1. PBExec(st.disk, g)
      BY Zenon, <1>11 DEF PBFirst
    <3>2. \A h \in PathFiles : h.name = g.name /\ PBExec(st.disk, h) => g.dir <= h.dir
      <4> TAKE h \in PathFiles
      <4> HAVE h.name = g.name /\ PBExec(st.disk, h)
      <4>1. h.name \notin touched
        OBVIOUS
      <4>2. PBExec(d, h)
        BY Zenon, <1>11, <4>1
      <4> QED
        BY Zenon, <4>2 DEF PBFirst
    <3> QED
      BY Zenon, <3>1, <3>2 DEF PBFirst
  <2> QED
    BY Zenon, <1>2, <1>11, <2>1 DEF PBFirsts
<1>15. PBTypes(d, told, st.unread, st.chunks, st.cache)
  BY Zenon, <1>2, <1>5, <1>8 DEF PBTypes
<1>16. PBGood(st')
  BY Zenon, <1>2, <1>3, <1>8, <1>10, <1>12, <1>13, <1>14, <1>15 DEF PBGood
<1>17. PBDrawn(st')
  BY Zenon, <1>2, <1>3 DEF PBDrawn
<1> QED
  BY Zenon, <1>16, <1>17 DEF PBInv

LEMMA PBNextStep == ASSUME PathFit, PBInv, PB!Next PROVE PBInv'
<1>1. CASE PB!LeaveTab \/ \E text \in DOMAIN Ranked \cup {""} : PB!QueryChanged(text)
  BY Zenon, <1>1, PBViewSteps
<1>2. CASE \E f \in PathFiles, to \in {"absent", "plain", "exec"} : PB!Change(f, to)
  BY Zenon, <1>2, PBChangeStep
<1> QED
  BY Zenon, <1>1, <1>2, PBEnterStep, PBReadStep, PBEndStep, PBMergeStep, PBEventStep DEF PB!Next

LEMMA PBShows == ASSUME PathFit, PBInv PROVE PB!PathRowsAgree
<1>1. /\ DOMAIN st = PBFields /\ PBTypes(st.disk, st.events, st.unread, st.chunks, st.cache)
      /\ PBPhase(st.scan, st.unread, st.chunks, st.cache, st.events) /\ PBChunks(st.unread, st.chunks)
      /\ PBFound(st.disk, st.unread, st.chunks, st.cache, st.touched) /\ PBTold(st.events, st.touched)
      /\ PBThere(st.disk, st.events, st.chunks, st.cache, st.ghosts)
      /\ PBFirsts(st.disk, st.unread, st.chunks, st.scan, st.cache, st.touched, st.full)
      /\ PBDrawn(st)
  BY Zenon DEF PBInv, PBGood
<1>2. PBCache(st.cache) /\ Listed(st.cache) /\ PBNamed(Elements(st.cache)) /\ Len(st.cache) <= MaxBins
  BY Zenon, <1>1 DEF PBTypes, PBCache
<1>3. /\ \A f : PB!Range(f) = Elements(f)
      /\ \A S : PB!Cardinality(S) = Cardinality(S)
  BY Zenon, PBOps
<1>4. Cardinality(PB!NameAt(st.cache)) = Len(st.cache)
  <2>. DEFINE c == st.cache  names == [n \in DOMAIN c |-> c[n].name]
  <2>1. c \in Seq(Elements(c)) /\ DOMAIN c = 1..Len(c) /\ Len(c) \in Nat
        /\ \A m, n \in DOMAIN c : c[m] = c[n] => m = n
    BY <1>2 DEF Listed
  <2>2. \A n \in DOMAIN c : c[n] \in Elements(c)
    BY DEF Elements
  <2>3. names \in Seq(PB!NameAt(c)) /\ Len(names) = Len(c) /\ Elements(names) = PB!NameAt(c)
    <3>1. PB!NameAt(c) = {g.name : g \in Elements(c)}
      BY Zenon, PBNames
    <3>2. \A n \in DOMAIN c : c[n].name \in PB!NameAt(c)
      BY <2>2, <3>1
    <3>3. \A e \in PB!NameAt(c) : \E n \in DOMAIN c : c[n].name = e
      BY Zenon, <3>1 DEF Elements
    <3>4. DOMAIN names = 1..Len(c) /\ \A n \in 1..Len(c) : names[n] = c[n].name
      BY <2>1
    <3>. HIDE DEF names, c
    <3>5. names \in Seq(PB!NameAt(c)) /\ Len(names) = Len(c)
      <4>1. names \in [1..Len(c) -> PB!NameAt(c)]
        <5>1. names = [n \in 1..Len(c) |-> names[n]]
          BY <2>1, <3>4 DEF names
        <5> QED
          BY <2>1, <3>2, <3>4, <5>1
      <4> QED
        BY <2>1, <4>1
    <3>6. Elements(names) = PB!NameAt(c)
      <4>1. \A n \in DOMAIN names : names[n] \in PB!NameAt(c)
        BY <2>1, <3>2, <3>4
      <4>2. \A e \in PB!NameAt(c) : \E n \in DOMAIN names : names[n] = e
        BY <2>1, <3>3, <3>4
      <4> QED
        BY Zenon, <4>1, <4>2 DEF Elements
    <3> QED
      BY Zenon, <3>5, <3>6
  <2>4. \A m, n \in DOMAIN c : c[m].name = c[n].name => m = n
    BY Zenon, <1>2, <2>1, <2>2 DEF PBNamed
  <2>5. Listed(names)
    BY <2>1, <2>3, <2>4 DEF Listed
  <2> QED
    BY Zenon, <2>3, <2>5, Counted
<1>5. \A f \in Elements(st.cache) : st.disk[f] # "absent" \/ f \in PB!Going \/ f \in st.ghosts
  <2>1. \A f : PBGoes(st.events, f) => f \in PB!Going
    BY Zenon DEF PBGoes, PB!Going
  <2>2. \A f \in Elements(st.cache) : f \in PathFiles
    BY Zenon, <1>2 DEF PBNamed
  <2> QED
    BY Zenon, <1>1, <2>1, <2>2 DEF PBThere
<1>6. ASSUME st.scan = "done" PROVE st.cache = PB!ByName(st.cache)
  BY Zenon, <1>1, <1>2, <1>6, PBSorted DEF PBPhase
<1>7. ASSUME st.scan = "done", NEW name \in {f.name : f \in PathFiles} \ st.touched, ~st.full
      PROVE  PB!First(name) \subseteq Elements(st.cache)
  <2> SUFFICES ASSUME NEW f \in PB!First(name) PROVE f \in Elements(st.cache)
    BY Zenon
  <2>1. f \in PathFiles /\ f.name = name /\ PBFirst(st.disk, f)
    BY Zenon DEF PB!First, PB!Executable, PBFirst, PBExec
  <2>2. f \in Elements(st.cache) \/ f.dir \in st.unread \/ PBWaits(st.chunks, f)
    <3>1. st.scan # "none" /\ f.name \notin st.touched
      BY <1>7, <2>1
    <3> QED
      BY Zenon, <1>1, <1>7, <2>1, <3>1 DEF PBFirsts
  <2>3. st.chunks = <<>> /\ st.unread = {}
    <3>1. st.scan # "running"
      BY <1>7
    <3> QED
      BY Zenon, <1>1, <1>7, <3>1 DEF PBPhase
  <2>4. ~PBWaits(<<>>, f)
    BY DEF PBWaits
  <2> QED
    BY Zenon, <2>2, <2>3, <2>4
<1>8. st.tab => st.rows = PB!Filtered(st.cache, st.text)
  BY Zenon, <1>1 DEF PBDrawn
<1> QED
  BY Zenon, <1>2, <1>3, <1>4, <1>5, <1>6, <1>7, <1>8 DEF PB!PathRowsAgree

LEMMA PathHolds == ASSUME PathFit PROVE PB!Spec => []PB!PathRowsAgree
<1>1. PB!Init => PBInv
  BY PBStart
<1>2. PBInv /\ [PB!Next]_st => PBInv'
  <2>1. ASSUME PBInv, UNCHANGED st PROVE PBInv'
    BY <2>1 DEF PBInv
  <2> QED
    BY <2>1, PBNextStep
<1>3. PBInv => PB!PathRowsAgree
  BY PBShows
<1> QED
  BY <1>1, <1>2, <1>3, PTL DEF PB!Spec

-----------------------------------------------------------------------------
(* The store of slots. *)
LEMMA SLOps ==
    ASSUME NEW f, NEW S
    PROVE  SL!Picked(f, S) = Picked(f, S) /\ SL!Nth(S, f) = Nth(S, f)
<1>1. \A T : SL!Cardinality(T) = Cardinality(T)
  BY Zenon DEF SL!Cardinality, Cardinality
<1>2. \A T, n : SL!Nth(T, n) = Nth(T, n)
  BY Zenon, <1>1 DEF SL!Nth, Nth
<1>3. SL!Picked(f, S) = Picked(f, S)
  BY Zenon, <1>1, <1>2 DEF SL!Picked, Picked
<1> QED
  BY Zenon, <1>2, <1>3

(* A slot has one entry, and a payload of a provider tab one slot. *)
SLEach(E) == \A e \in E : e = SL!Entry(e.tab, e.key, e.payload)
SLKeys(E) == \A a, b \in E : a.tab = b.tab /\ a.key = b.key => a = b
SLOnce(E) == \A a, b \in E : a.tab \in SlotTabs /\ a.tab = b.tab /\ a.payload = b.payload => a = b
SLEntries(E) == SLEach(E) /\ SLKeys(E) /\ SLOnce(E)
SLStore(store) == Listed(store) /\ SLEntries(Elements(store))
SLOf(E, tab, keys) == {e \in E : e.tab = tab /\ e.key \in keys}
SLPays(store, tab, key, p) ==
    \/ \E e \in Elements(store) : e.tab = tab /\ e.key = key /\ p = e.payload
    \/ p = SL!NoPayload /\ \A e \in Elements(store) : ~(e.tab = tab /\ e.key = key)

LEMMA SLFewer ==
    ASSUME NEW E, SLEntries(E), NEW F, F \subseteq E PROVE SLEntries(F)
BY Zenon DEF SLEntries, SLEach, SLKeys, SLOnce

LEMMA SLMore ==
    ASSUME NEW E, SLEntries(E), NEW tab, NEW key, NEW payload,
           \A e \in E : ~(e.tab = tab /\ e.key = key),
           tab \in SlotTabs => \A e \in E : ~(e.tab = tab /\ e.payload = payload)
    PROVE  SLEntries(E \cup {SL!Entry(tab, key, payload)})
<1>. DEFINE v == SL!Entry(tab, key, payload)
<1>1. v.tab = tab /\ v.key = key /\ v.payload = payload
  BY DEF SL!Entry
<1>2. v = SL!Entry(v.tab, v.key, v.payload)
  BY Zenon, <1>1
<1>. HIDE DEF v
<1>3. SLEach(E \cup {v})
  <2> SUFFICES ASSUME NEW e \in E \cup {v} PROVE e = SL!Entry(e.tab, e.key, e.payload)
    BY Zenon DEF SLEach
  <2>1. CASE e \in E
    BY Zenon, <2>1 DEF SLEntries, SLEach
  <2>2. CASE e = v
    BY Zenon, <1>2, <2>2
  <2> QED
    BY <2>1, <2>2
<1>4. SLKeys(E \cup {v})
  BY <1>1 DEF SLEntries, SLKeys
<1>5. SLOnce(E \cup {v})
  BY <1>1 DEF SLEntries, SLOnce
<1> QED
  BY Zenon, <1>3, <1>4, <1>5 DEF SLEntries, v

LEMMA SLPlaces ==
    ASSUME NEW store, SLStore(store)
    PROVE  /\ Sequenced(store) /\ 0 \notin DOMAIN store
           /\ \A n \in DOMAIN store : store[n] \in Elements(store)
           /\ \A m, n \in DOMAIN store : store[m].tab = store[n].tab /\ store[m].key = store[n].key => m = n
           /\ \A m, n \in DOMAIN store : store[m].tab \in SlotTabs /\ store[m].tab = store[n].tab
                                         /\ store[m].payload = store[n].payload => m = n
<1>1. Sequenced(store) /\ 0 \notin DOMAIN store
  BY DEF SLStore, Listed, Sequenced
<1>2. \A n \in DOMAIN store : store[n] \in Elements(store)
  BY DEF Elements
<1>3. \A m, n \in DOMAIN store : store[m] = store[n] => m = n
  BY Zenon DEF SLStore, Listed
<1>4. SLKeys(Elements(store)) /\ SLOnce(Elements(store))
  BY Zenon DEF SLStore, SLEntries
<1> QED
  BY Zenon, <1>1, <1>2, <1>3, <1>4 DEF SLKeys, SLOnce

LEMMA SLFirst ==
    ASSUME NEW store, Sequenced(store), NEW S, S \subseteq DOMAIN store
    PROVE  LET n == SL!First(S) IN (S = {} /\ n = 0) \/ n \in S
<1>1. CASE S = {}
  BY Zenon, <1>1 DEF SL!First
<1>2. CASE S # {}
  <2>1. SL!First(S) = SL!Nth(S, 1)
    BY Zenon, <1>2 DEF SL!First
  <2>2. Nth(S, 1) \in S
    BY Zenon, <1>2, FirstPlace
  <2> QED
    BY Zenon, <2>1, <2>2, SLOps
<1> QED
  BY Zenon, <1>1, <1>2

(* Where the entry of a slot is, if it has one. *)
SLPlace(store, tab, key, n) ==
    /\ \/ n = 0 /\ \A m \in DOMAIN store : ~(store[m].tab = tab /\ store[m].key = key)
       \/ n \in DOMAIN store /\ store[n].tab = tab /\ store[n].key = key
    /\ \A m \in DOMAIN store : m = n <=> store[m].tab = tab /\ store[m].key = key
LEMMA SLFinds ==
    ASSUME NEW store, SLStore(store), NEW tab, NEW key
    PROVE  SLPlace(store, tab, key, SL!Find(store, tab, key))
<1>. DEFINE S == {m \in DOMAIN store : store[m].tab = tab /\ store[m].key = key}  n == SL!Find(store, tab, key)
<1>1. /\ Sequenced(store) /\ 0 \notin DOMAIN store
      /\ \A i, j \in DOMAIN store : store[i].tab = store[j].tab /\ store[i].key = store[j].key => i = j
  BY Zenon, SLPlaces
<1>2. S \subseteq DOMAIN store /\ \A m : m \in S <=> m \in DOMAIN store /\ store[m].tab = tab /\ store[m].key = key
  OBVIOUS
<1>3. n = SL!First(S)
  BY Zenon DEF SL!Find
<1>. HIDE DEF S, n
<1>4. (S = {} /\ n = 0) \/ n \in S
  BY Zenon, <1>1, <1>2, <1>3, SLFirst
<1>5. \/ n = 0 /\ \A m \in DOMAIN store : ~(store[m].tab = tab /\ store[m].key = key)
      \/ n \in DOMAIN store /\ store[n].tab = tab /\ store[n].key = key
  BY <1>2, <1>4
<1>6. \A m \in DOMAIN store : m = n <=> store[m].tab = tab /\ store[m].key = key
  BY Zenon, <1>1, <1>5
<1> QED
  BY Zenon, <1>5, <1>6 DEF n, SLPlace

LEMMA SLLooks ==
    ASSUME NEW store, SLStore(store), NEW tab, NEW key
    PROVE  SLPays(store, tab, key, SL!SlotLookup(store, tab, key))
<1>. DEFINE n == SL!Find(store, tab, key)
<1>1. /\ 0 \notin DOMAIN store /\ \A i \in DOMAIN store : store[i] \in Elements(store)
      /\ \A e \in Elements(store) : \E i \in DOMAIN store : e = store[i]
  BY SLPlaces DEF Elements
<1>2. \/ n = 0 /\ \A m \in DOMAIN store : ~(store[m].tab = tab /\ store[m].key = key)
      \/ n \in DOMAIN store /\ store[n].tab = tab /\ store[n].key = key
  <2>1. SLPlace(store, tab, key, n)
    BY Zenon, SLFinds
  <2>. HIDE DEF n
  <2> QED
    BY Zenon, <2>1 DEF SLPlace
<1>3. SL!SlotLookup(store, tab, key) = IF n = 0 THEN SL!NoPayload ELSE store[n].payload
  BY Zenon DEF SL!SlotLookup
<1>. HIDE DEF n
<1>4. CASE n = 0
  <2>1. SL!SlotLookup(store, tab, key) = SL!NoPayload
    BY Zenon, <1>3, <1>4
  <2> QED
    BY Zenon, <1>1, <1>2, <1>4, <2>1 DEF SLPays
<1>5. CASE n # 0
  <2>1. SL!SlotLookup(store, tab, key) = store[n].payload
    BY Zenon, <1>3, <1>5
  <2> QED
    BY Zenon, <1>1, <1>2, <1>5, <2>1 DEF SLPays
<1> QED
  BY Zenon, <1>4, <1>5

LEMMA SLClears ==
    ASSUME NEW store, SLStore(store), NEW tab, NEW keys
    PROVE  LET t == SL!SlotsClear(store, tab, keys) IN
           SLStore(t) /\ Elements(t) = Elements(store) \ SLOf(Elements(store), tab, keys)
<1>. DEFINE P == DOMAIN store \ {SL!Find(store, tab, k) : k \in keys}  t == Picked(store, P)
<1>1. SL!SlotsClear(store, tab, keys) = t
  BY Zenon, SLOps DEF SL!SlotsClear
<1>2. P \subseteq DOMAIN store /\ Listed(store)
  BY DEF SLStore
<1>3. \A n : n \in P <=> n \in DOMAIN store /\ ~(store[n].tab = tab /\ store[n].key \in keys)
  <2>1. ASSUME NEW n \in DOMAIN store
        PROVE  (\E k \in keys : n = SL!Find(store, tab, k)) <=> store[n].tab = tab /\ store[n].key \in keys
    <3>1. \A k \in keys : n = SL!Find(store, tab, k) <=> store[n].tab = tab /\ store[n].key = k
      <4>1. \A k \in keys : SLPlace(store, tab, k, SL!Find(store, tab, k))
        BY Zenon, SLFinds
      <4> QED
        BY Zenon, <4>1 DEF SLPlace
    <3> QED
      BY Zenon, <3>1
  <2> QED
    BY Zenon, <2>1
<1>. HIDE DEF P
<1>4. Listed(t) /\ Elements(t) = {store[n] : n \in P}
  BY Zenon, <1>2, PicksListed
<1>5. {store[n] : n \in P} = Elements(store) \ SLOf(Elements(store), tab, keys)
  BY <1>3 DEF Elements, SLOf
<1>. HIDE DEF t
<1>6. Elements(t) = Elements(store) \ SLOf(Elements(store), tab, keys)
  BY Zenon, <1>4, <1>5
<1>7. SLStore(t)
  <2>1. Elements(t) \subseteq Elements(store)
    BY <1>6
  <2> QED
    BY Zenon, <1>4, <2>1, SLFewer DEF SLStore
<1> QED
  BY Zenon, <1>1, <1>6, <1>7

(* A new entry at a place, that of the old one or the next. *)
SLReplaced(store, n, v, t, p) ==
    /\ Sequenced(t) /\ p \in DOMAIN t /\ t[p] = v
    /\ \A j \in DOMAIN t : j # p => j \in DOMAIN store /\ t[j] = store[j] /\ j # n
    /\ \A j \in DOMAIN store : j # n => j \in DOMAIN t /\ t[j] = store[j] /\ j # p

LEMMA SLAssigns ==
    ASSUME NEW store, SLStore(store), NEW tab, NEW key, NEW payload,
           tab \in SlotTabs => \A e \in Elements(store) : e.tab = tab /\ e.payload = payload => e.key = key
    PROVE  LET t == SL!SlotAssign(store, tab, key, payload) IN
           /\ SLStore(t)
           /\ Elements(t) = (Elements(store) \ SLOf(Elements(store), tab, {key}))
                               \cup {SL!Entry(tab, key, payload)}
<1>. DEFINE n == SL!Find(store, tab, key)  v == SL!Entry(tab, key, payload)
            E == Elements(store)  F == E \ SLOf(E, tab, {key})
            a == Append(store, v)  r == [store EXCEPT ![n] = v]
<1>1. SL!SlotAssign(store, tab, key, payload) = IF n = 0 THEN a ELSE r
  BY Zenon DEF SL!SlotAssign
<1>2. /\ Sequenced(store) /\ 0 \notin DOMAIN store
      /\ \A i \in DOMAIN store : store[i] \in E
      /\ \A i, j \in DOMAIN store : store[i].tab = store[j].tab /\ store[i].key = store[j].key => i = j
  BY Zenon, SLPlaces
<1>3. /\ \/ n = 0 /\ \A m \in DOMAIN store : ~(store[m].tab = tab /\ store[m].key = key)
         \/ n \in DOMAIN store /\ store[n].tab = tab /\ store[n].key = key
      /\ \A m \in DOMAIN store : m = n <=> store[m].tab = tab /\ store[m].key = key
  <2>1. SLPlace(store, tab, key, n)
    BY Zenon, SLFinds
  <2>. HIDE DEF n
  <2> QED
    BY Zenon, <2>1 DEF SLPlace
<1>4. SLEntries(F \cup {v})
  <2>1. SLEntries(E) /\ F \subseteq E /\ \A e \in F : ~(e.tab = tab /\ e.key = key)
    BY DEF SLStore, SLOf
  <2>2. tab \in SlotTabs => \A e \in F : ~(e.tab = tab /\ e.payload = payload)
    BY Zenon, <2>1
  <2>. HIDE DEF F, E
  <2>3. SLEntries(F)
    BY Zenon, <2>1, SLFewer
  <2> QED
    BY Zenon, <2>1, <2>2, <2>3, SLMore
<1>5. v.tab = tab /\ v.key = key
  BY DEF SL!Entry
<1>6. \A e : e \in F <=> \E i \in DOMAIN store : e = store[i] /\ ~(e.tab = tab /\ e.key = key)
  BY DEF Elements, SLOf
<1>. HIDE DEF n, v, F, E
<1>7. ASSUME NEW t, NEW p, SLReplaced(store, n, v, t, p)
      PROVE  SLStore(t) /\ Elements(t) = F \cup {v}
  <2>. USE DEF SLReplaced
  <2>1. \A j \in DOMAIN t : j # p => ~(t[j].tab = tab /\ t[j].key = key)
    BY Zenon, <1>3, <1>7
  <2>2. Elements(t) = F \cup {v}
    <3>1. \A j \in DOMAIN t : j = p \/ t[j] \in F
      BY Zenon, <1>6, <1>7, <2>1
    <3>2. \A e \in F : \E j \in DOMAIN t : t[j] = e
      <4> TAKE e \in F
      <4>1. PICK i \in DOMAIN store : e = store[i] /\ ~(e.tab = tab /\ e.key = key)
        BY Zenon, <1>6
      <4>2. i # n
        BY Zenon, <1>3, <4>1
      <4> QED
        BY Zenon, <1>7, <4>1, <4>2
    <3>3. Elements(t) \subseteq F \cup {v}
      BY <1>7, <3>1 DEF Elements
    <3>4. F \cup {v} \subseteq Elements(t)
      BY <1>7, <3>2 DEF Elements
    <3> QED
      BY Zenon, <3>3, <3>4
  <2>3. \A i, j \in DOMAIN t : t[i] = t[j] => i = j
    <3> SUFFICES ASSUME NEW i \in DOMAIN t, NEW j \in DOMAIN t, t[i] = t[j] PROVE i = j
      BY Zenon
    <3>1. CASE i = p /\ j # p
      BY Zenon, <1>5, <1>7, <2>1, <3>1
    <3>2. CASE j = p /\ i # p
      BY Zenon, <1>5, <1>7, <2>1, <3>2
    <3>3. CASE i # p /\ j # p
      BY Zenon, <1>2, <1>7, <3>3
    <3> QED
      BY Zenon, <3>1, <3>2, <3>3
  <2>4. Listed(t)
    BY Zenon, <1>7, <2>3 DEF Listed, Sequenced
  <2> QED
    BY Zenon, <1>4, <2>2, <2>4 DEF SLStore
<1>8. CASE n = 0
  <2>. DEFINE p == Len(store) + 1
  <2>1. /\ Sequenced(a) /\ p \in DOMAIN a /\ p \notin DOMAIN store /\ a[p] = v
        /\ \A j \in DOMAIN store : j \in DOMAIN a /\ a[j] = store[j]
        /\ \A j \in DOMAIN a : j \in DOMAIN store \/ j = p
    BY Zenon, <1>2, Appends
  <2>. HIDE DEF a, p
  <2>2. SLReplaced(store, n, v, a, p)
    BY <1>2, <1>8, <2>1 DEF SLReplaced
  <2>3. SLStore(a) /\ Elements(a) = F \cup {v}
    BY Zenon, <1>7, <2>2
  <2> QED
    BY Zenon, <1>1, <1>8, <2>3 DEF F, E, v
<1>9. CASE n # 0
  <2>1. n \in DOMAIN store
    BY Zenon, <1>3, <1>9
  <2>2. /\ Sequenced(r) /\ DOMAIN r = DOMAIN store /\ r[n] = v
        /\ \A j \in DOMAIN store : j # n => r[j] = store[j]
    BY Zenon, <1>2, <2>1, Replaces
  <2>. HIDE DEF r
  <2>3. SLReplaced(store, n, v, r, n)
    BY <2>1, <2>2 DEF SLReplaced
  <2>4. SLStore(r) /\ Elements(r) = F \cup {v}
    BY Zenon, <1>7, <2>3
  <2> QED
    BY Zenon, <1>1, <1>9, <2>4 DEF F, E, v
<1> QED
  BY Zenon, <1>8, <1>9

(* What a save writes: each window slot has its entry or none. *)
SLSet(store, slots, set) ==
    /\ DOMAIN set = DOMAIN store /\ set = [n \in DOMAIN store |-> set[n]]
    /\ \A n \in DOMAIN store :
           /\ set[n].tab = store[n].tab /\ set[n].key = store[n].key
           /\ set[n] = SL!Entry(set[n].tab, set[n].key, set[n].payload)
           /\ store[n].tab = SL!Windows \/ set[n] = store[n]
           /\ store[n].tab = SL!Windows /\ store[n].key \in SlotKeys /\ slots[store[n].key] # SL!NoSlot
                 => set[n].payload = slots[store[n].key]

LEMMA SLSetIs ==
    ASSUME NEW store, SLStore(store), NEW slots
    PROVE  LET free == {k \in SlotKeys : slots[k] = SL!NoSlot}
               slot == [k \in SlotKeys |-> SL!Entry(SL!Windows, k, slots[k])] IN
           SLSet(store, slots,
                 [n \in DOMAIN store |->
                     LET k == store[n].key IN
                     IF k \in SlotKeys \ free /\ n = SL!Find(store, SL!Windows, k) THEN slot[k]
                     ELSE store[n]])
<1>. DEFINE free == {k \in SlotKeys : slots[k] = SL!NoSlot}
            slot == [k \in SlotKeys |-> SL!Entry(SL!Windows, k, slots[k])]
            set == [n \in DOMAIN store |->
                     LET k == store[n].key IN
                     IF k \in SlotKeys \ free /\ n = SL!Find(store, SL!Windows, k) THEN slot[k]
                     ELSE store[n]]
<1>1. ASSUME NEW n \in DOMAIN store
      PROVE  /\ set[n].tab = store[n].tab /\ set[n].key = store[n].key
             /\ set[n] = SL!Entry(set[n].tab, set[n].key, set[n].payload)
             /\ store[n].tab = SL!Windows \/ set[n] = store[n]
             /\ store[n].tab = SL!Windows /\ store[n].key \in SlotKeys /\ slots[store[n].key] # SL!NoSlot
                 => set[n].payload = slots[store[n].key]
  <2>. DEFINE k == store[n].key  on == k \in SlotKeys /\ slots[k] # SL!NoSlot /\ store[n].tab = SL!Windows
  <2>1. n = SL!Find(store, SL!Windows, k) <=> store[n].tab = SL!Windows
    <3>1. SLPlace(store, SL!Windows, k, SL!Find(store, SL!Windows, k))
      BY Zenon, SLFinds
    <3> QED
      BY Zenon, <3>1 DEF SLPlace
  <2>2. set[n] = IF on THEN SL!Entry(SL!Windows, k, slots[k]) ELSE store[n]
    BY <2>1
  <2>3. store[n] = SL!Entry(store[n].tab, store[n].key, store[n].payload)
    BY Zenon, SLPlaces DEF SLStore, SLEntries, SLEach
  <2>. HIDE DEF set
  <2>4. CASE on
    <3>1. set[n] = SL!Entry(SL!Windows, k, slots[k])
      BY Zenon, <2>2, <2>4
    <3>2. set[n].tab = SL!Windows /\ set[n].key = k /\ set[n].payload = slots[k]
      BY <3>1 DEF SL!Entry
    <3> QED
      BY <2>4, <3>1, <3>2
  <2>5. CASE ~on
    <3>1. set[n] = store[n]
      BY Zenon, <2>2, <2>5
    <3> QED
      BY Zenon, <2>3, <2>5, <3>1
  <2> QED
    BY Zenon, <2>4, <2>5
<1>2. DOMAIN set = DOMAIN store /\ set = [n \in DOMAIN store |-> set[n]]
  OBVIOUS
<1>. HIDE DEF set, free, slot
<1>3. SLSet(store, slots, set)
  BY Zenon, <1>1, <1>2 DEF SLSet
<1> QED
  BY Zenon, <1>3 DEF set, free, slot

LEMMA SLSetStore ==
    ASSUME SlotsFit, NEW store, SLStore(store), NEW slots, NEW set, SLSet(store, slots, set)
    PROVE  SLStore(set)
<1>1. /\ Sequenced(store)
      /\ \A m, n \in DOMAIN store : store[m].tab = store[n].tab /\ store[m].key = store[n].key => m = n
      /\ \A m, n \in DOMAIN store : store[m].tab \in SlotTabs /\ store[m].tab = store[n].tab
                                    /\ store[m].payload = store[n].payload => m = n
  BY Zenon, SLPlaces
<1>2. DOMAIN set = DOMAIN store /\ \A n \in DOMAIN set : set[n].tab = store[n].tab /\ set[n].key = store[n].key
  BY Zenon DEF SLSet
<1>3. set \in Seq(Elements(set))
  <2>1. Len(store) \in Nat /\ DOMAIN store = 1..Len(store)
    BY <1>1, Placed
  <2>2. set = [n \in 1..Len(store) |-> set[n]]
    BY Zenon, <2>1 DEF SLSet
  <2>3. \A n \in 1..Len(store) : set[n] \in Elements(set)
    BY <1>2, <2>1 DEF Elements
  <2> QED
    BY <2>1, <2>2, <2>3
<1>4. \A m, n \in DOMAIN set : set[m].tab = set[n].tab /\ set[m].key = set[n].key => m = n
  BY Zenon, <1>1, <1>2
<1>5. Listed(set)
  BY Zenon, <1>3, <1>4 DEF Listed
<1>6. \A e \in Elements(set) : \E n \in DOMAIN set : e = set[n]
  BY DEF Elements
<1>7. SLEach(Elements(set))
  <2>1. \A n \in DOMAIN set : set[n] = SL!Entry(set[n].tab, set[n].key, set[n].payload)
    BY Zenon, <1>2 DEF SLSet
  <2> QED
    BY <1>6, <2>1 DEF SLEach
<1>8. SLKeys(Elements(set))
  <2> SUFFICES ASSUME NEW d \in Elements(set), NEW e \in Elements(set), d.tab = e.tab, d.key = e.key
               PROVE  d = e
    BY Zenon DEF SLKeys
  <2>1. PICK m \in DOMAIN set : d = set[m]
    BY Zenon, <1>6
  <2>2. PICK n \in DOMAIN set : e = set[n]
    BY Zenon, <1>6
  <2>3. m = n
    BY Zenon, <1>4, <2>1, <2>2
  <2> QED
    BY Zenon, <2>1, <2>2, <2>3
<1>9. SLOnce(Elements(set))
  <2>1. ASSUME NEW m \in DOMAIN set, NEW n \in DOMAIN set, set[m].tab \in SlotTabs, set[m].tab = set[n].tab,
               set[m].payload = set[n].payload
        PROVE  m = n
    <3>1. store[m].tab # SL!Windows /\ store[n].tab # SL!Windows
      BY Zenon, <1>2, <2>1 DEF SlotsFit
    <3>2. set[m] = store[m] /\ set[n] = store[n]
      BY Zenon, <1>2, <3>1 DEF SLSet
    <3> QED
      BY Zenon, <1>1, <1>2, <2>1, <3>2
  <2> QED
    BY Zenon, <1>6, <2>1 DEF SLOnce
<1> QED
  BY Zenon, <1>5, <1>7, <1>8, <1>9 DEF SLStore, SLEntries

LEMMA SLSyncs ==
    ASSUME SlotsFit, NEW s, SLStore(s.store), s.slots \in [SlotKeys -> MatchIds \cup {SL!NoSlot}]
    PROVE  LET t == SL!SyncWindowSlots(s) IN
           /\ SLStore(t)
           /\ \A k \in SlotKeys :
                  SLPays(t, SL!Windows, k, IF s.slots[k] = SL!NoSlot THEN SL!NoPayload ELSE s.slots[k])
<1>. DEFINE free == {k \in SlotKeys : s.slots[k] = SL!NoSlot}
            slot == [k \in SlotKeys |-> SL!Entry(SL!Windows, k, s.slots[k])]
            set == [n \in DOMAIN s.store |->
                     LET k == s.store[n].key IN
                     IF k \in SlotKeys \ free /\ n = SL!Find(s.store, SL!Windows, k) THEN slot[k]
                     ELSE s.store[n]]
            new == {k \in SlotKeys \ free : SL!Find(s.store, SL!Windows, k) = 0}
            c == SL!SlotsClear(set, SL!Windows, free)  a == Picked(slot, new)  t == c \o a
<1>1. SL!SyncWindowSlots(s) = t
  <2>1. SL!SyncWindowSlots(s) = c \o SL!Picked(slot, new)
    BY Zenon DEF SL!SyncWindowSlots
  <2>2. SL!Picked(slot, new) = a
    BY Zenon, SLOps
  <2> QED
    BY Zenon, <2>1, <2>2
<1>2. SLSet(s.store, s.slots, set)
  BY Zenon, SLSetIs
<1>3. \A k \in SlotKeys : /\ slot[k] = SL!Entry(SL!Windows, k, s.slots[k]) /\ slot[k].tab = SL!Windows
                          /\ slot[k].key = k /\ slot[k].payload = s.slots[k]
  BY DEF SL!Entry
<1>4. \A k : k \in free <=> k \in SlotKeys /\ s.slots[k] = SL!NoSlot
  OBVIOUS
<1>5. new \subseteq SlotKeys
  OBVIOUS
<1>6. \A k \in new : k \notin free /\ \A n \in DOMAIN s.store : ~(s.store[n].tab = SL!Windows /\ s.store[n].key = k)
  <2> TAKE k \in new
  <2>1. k \notin free /\ SL!Find(s.store, SL!Windows, k) = 0
    OBVIOUS
  <2>2. SLPlace(s.store, SL!Windows, k, SL!Find(s.store, SL!Windows, k)) /\ 0 \notin DOMAIN s.store
    BY Zenon, SLFinds, SLPlaces
  <2> QED
    BY Zenon, <2>1, <2>2 DEF SLPlace
<1>7. \A k \in SlotKeys : k \in free \/ k \in new
                        \/ \E n \in DOMAIN s.store : s.store[n].tab = SL!Windows /\ s.store[n].key = k
  <2> TAKE k \in SlotKeys
  <2>1. SLPlace(s.store, SL!Windows, k, SL!Find(s.store, SL!Windows, k))
    BY Zenon, SLFinds
  <2>2. k \in free \/ k \in new \/ SL!Find(s.store, SL!Windows, k) # 0
    OBVIOUS
  <2>. HIDE DEF free, new
  <2> QED
    BY Zenon, <2>1, <2>2 DEF SLPlace
<1>. HIDE DEF set, new, free, slot
<1>8. SLStore(set)
  BY Zenon, <1>2, SLSetStore
<1>9. SLStore(c) /\ Elements(c) = Elements(set) \ SLOf(Elements(set), SL!Windows, free)
  BY Zenon, <1>8, SLClears
<1>10. \A e : e \in Elements(c) <=>
             \E n \in DOMAIN s.store : e = set[n] /\ ~(e.tab = SL!Windows /\ e.key \in free)
  <2>1. DOMAIN set = DOMAIN s.store
    BY Zenon, <1>2 DEF SLSet
  <2> QED
    BY <1>9, <2>1 DEF Elements, SLOf
<1>11. Listed(a) /\ Elements(a) = {slot[k] : k \in new}
  <2>1. new \subseteq Nat /\ IsFiniteSet(new)
    BY <1>5, FS_Subset DEF SlotsFit
  <2>2. \A i, j \in new : slot[i] = slot[j] => i = j
    BY <1>3, <1>5
  <2> QED
    BY Zenon, <2>1, <2>2, PicksApart
<1>. HIDE DEF c, a
<1>12. ASSUME NEW e \in Elements(c), NEW k \in new PROVE ~(e.tab = SL!Windows /\ e.key = k)
  <2>1. PICK n \in DOMAIN s.store : e = set[n]
    BY Zenon, <1>10
  <2>2. e.tab = s.store[n].tab /\ e.key = s.store[n].key
    BY Zenon, <1>2, <2>1 DEF SLSet
  <2> QED
    BY Zenon, <1>6, <2>2
<1>13. \A e \in Elements(a) : \E k \in new : e = slot[k] /\ k \in SlotKeys
  BY <1>5, <1>11
<1>14. Elements(c) \cap Elements(a) = {}
  <2> SUFFICES ASSUME NEW e \in Elements(c), e \in Elements(a) PROVE FALSE
    BY Zenon
  <2>1. PICK k \in new : e = slot[k] /\ k \in SlotKeys
    BY Zenon, <1>13
  <2> QED
    BY Zenon, <1>3, <1>12, <2>1
<1>15. Listed(t) /\ Elements(t) = Elements(c) \cup Elements(a)
  BY Zenon, <1>9, <1>11, <1>14, JoinsListed DEF SLStore
<1>. HIDE DEF t
<1>16. SLEntries(Elements(c))
  BY Zenon, <1>9 DEF SLStore
<1>17. SLEach(Elements(t))
  <2> SUFFICES ASSUME NEW e \in Elements(t) PROVE e = SL!Entry(e.tab, e.key, e.payload)
    BY Zenon DEF SLEach
  <2>1. CASE e \in Elements(c)
    BY Zenon, <1>16, <2>1 DEF SLEntries, SLEach
  <2>2. CASE e \in Elements(a)
    <3>1. PICK k \in SlotKeys : e = slot[k]
      BY Zenon, <1>13, <2>2
    <3> QED
      BY Zenon, <1>3, <3>1
  <2> QED
    BY Zenon, <1>15, <2>1, <2>2
<1>18. SLKeys(Elements(t))
  <2> SUFFICES ASSUME NEW d \in Elements(t), NEW e \in Elements(t), d.tab = e.tab, d.key = e.key PROVE d = e
    BY Zenon DEF SLKeys
  <2>1. CASE d \in Elements(c) /\ e \in Elements(c)
    BY Zenon, <1>16, <2>1 DEF SLEntries, SLKeys
  <2>2. CASE d \in Elements(c) /\ e \in Elements(a)
    <3>1. PICK k \in new : e = slot[k] /\ k \in SlotKeys
      BY Zenon, <1>13, <2>2
    <3>2. e.tab = SL!Windows /\ e.key = k
      BY Zenon, <1>3, <3>1
    <3>3. d.tab = SL!Windows /\ d.key = k
      BY Zenon, <3>2
    <3> QED
      BY Zenon, <1>12, <2>2, <3>3
  <2>3. CASE d \in Elements(a) /\ e \in Elements(c)
    <3>1. PICK k \in new : d = slot[k] /\ k \in SlotKeys
      BY Zenon, <1>13, <2>3
    <3> QED
      BY Zenon, <1>3, <1>12, <2>3, <3>1
  <2>4. CASE d \in Elements(a) /\ e \in Elements(a)
    <3>1. PICK j \in SlotKeys : d = slot[j]
      BY Zenon, <1>13, <2>4
    <3>2. PICK k \in SlotKeys : e = slot[k]
      BY Zenon, <1>13, <2>4
    <3>3. j = k
      BY Zenon, <1>3, <3>1, <3>2
    <3> QED
      BY Zenon, <3>1, <3>2, <3>3
  <2> QED
    BY <1>15, <2>1, <2>2, <2>3, <2>4
<1>19. SLOnce(Elements(t))
  <2> SUFFICES ASSUME NEW d \in Elements(t), NEW e \in Elements(t), d.tab \in SlotTabs, d.tab = e.tab,
                      d.payload = e.payload
               PROVE  d = e
    BY Zenon DEF SLOnce
  <2>1. \A x \in Elements(a) : x.tab \notin SlotTabs
    BY Zenon, <1>3, <1>13 DEF SlotsFit
  <2>2. d \in Elements(c) /\ e \in Elements(c)
    BY <1>15, <2>1
  <2> QED
    BY Zenon, <1>16, <2>2 DEF SLEntries, SLOnce
<1>20. SLStore(t)
  BY Zenon, <1>15, <1>17, <1>18, <1>19 DEF SLStore, SLEntries
<1>21. ASSUME NEW k \in SlotKeys, s.slots[k] = SL!NoSlot PROVE SLPays(t, SL!Windows, k, SL!NoPayload)
  <2>1. k \in free
    BY Zenon, <1>4, <1>21
  <2>2. \A e \in Elements(c) : ~(e.tab = SL!Windows /\ e.key = k)
    BY Zenon, <1>10, <2>1
  <2>3. \A e \in Elements(a) : ~(e.tab = SL!Windows /\ e.key = k)
    <3> SUFFICES ASSUME NEW e \in Elements(a), e.key = k PROVE FALSE
      BY Zenon
    <3>1. PICK j \in new : e = slot[j] /\ j \in SlotKeys
      BY Zenon, <1>13
    <3>2. j = k
      BY Zenon, <1>3, <3>1
    <3> QED
      BY Zenon, <1>6, <2>1, <3>2
  <2>4. \A e \in Elements(t) : ~(e.tab = SL!Windows /\ e.key = k)
    BY <1>15, <2>2, <2>3
  <2> QED
    BY Zenon, <2>4 DEF SLPays
<1>22. ASSUME NEW k \in SlotKeys, s.slots[k] # SL!NoSlot PROVE SLPays(t, SL!Windows, k, s.slots[k])
  <2>1. k \notin free
    BY Zenon, <1>4, <1>22
  <2>2. CASE k \in new
    <3>1. slot[k] \in Elements(t)
      BY <1>11, <1>15, <2>2
    <3> QED
      BY Zenon, <1>3, <3>1 DEF SLPays
  <2>3. CASE \E n \in DOMAIN s.store : s.store[n].tab = SL!Windows /\ s.store[n].key = k
    <3>1. PICK n \in DOMAIN s.store : s.store[n].tab = SL!Windows /\ s.store[n].key = k
      BY Zenon, <2>3
    <3>2. set[n].tab = SL!Windows /\ set[n].key = k /\ set[n].payload = s.slots[k]
      BY Zenon, <1>2, <1>22, <3>1 DEF SLSet
    <3>3. set[n] \in Elements(c)
      BY Zenon, <1>10, <2>1, <3>2
    <3>4. set[n] \in Elements(t)
      BY <1>15, <3>3
    <3> QED
      BY Zenon, <3>2, <3>4 DEF SLPays
  <2> QED
    BY Zenon, <1>7, <2>1, <2>2, <2>3
<1>23. ASSUME NEW k \in SlotKeys
       PROVE  SLPays(t, SL!Windows, k, IF s.slots[k] = SL!NoSlot THEN SL!NoPayload ELSE s.slots[k])
  <2>1. CASE s.slots[k] = SL!NoSlot
    BY Zenon, <1>21, <2>1
  <2>2. CASE s.slots[k] # SL!NoSlot
    BY Zenon, <1>22, <2>2
  <2> QED
    BY Zenon, <2>1, <2>2
<1> QED
  BY Zenon, <1>1, <1>20, <1>23

(* What was written is read as it was. *)
LEMMA SLReads ==
    ASSUME NEW store, SLStore(store)
    PROVE  SL!SlotLoad(SL!AsWritten(store)) = store
<1>. DEFINE file == SL!AsWritten(store)
            same(n) == {m \in DOMAIN file : file[m].tab = file[n].tab /\ file[m].key = file[n].key}
            first(n) == \A m \in same(n) : n <= m
            over(n) == {n} \cup {m \in same(n) : first(n) /\ ~file[m].upper}
            last(n) == CHOOSE m \in over(n) : \A j \in over(n) : j <= m
            entries == [n \in DOMAIN file |-> SL!Entry(file[n].tab, file[n].key, file[last(n)].payload)]
            all == {n \in DOMAIN file : file[n].upper \/ first(n)}
<1>1. SL!SlotLoad(file) = SL!Picked(entries, all)
  BY Zenon DEF SL!SlotLoad
<1>2. /\ Sequenced(store) /\ \A n \in DOMAIN store : store[n] \in Elements(store)
      /\ \A m, n \in DOMAIN store : store[m].tab = store[n].tab /\ store[m].key = store[n].key => m = n
  BY Zenon, SLPlaces
<1>3. /\ DOMAIN file = DOMAIN store
      /\ \A n \in DOMAIN store : file[n].tab = store[n].tab /\ file[n].key = store[n].key
                                 /\ file[n].payload = store[n].payload
  BY DEF SL!AsWritten
<1>. HIDE DEF file
<1>4. ASSUME NEW n \in DOMAIN store PROVE first(n) /\ last(n) = n
  <2>1. same(n) = {n}
    BY <1>2, <1>3
  <2>2. n \in Nat
    BY <1>2, Placed
  <2>3. first(n) /\ over(n) = {n}
    BY <2>1, <2>2
  <2>4. last(n) = CHOOSE m \in {n} : \A j \in {n} : j <= m
    BY Zenon, <2>3
  <2>5. n <= n
    BY <2>2
  <2>. HIDE DEF last, over, first
  <2>6. (CHOOSE m \in {n} : \A j \in {n} : j <= m) \in {n}
    BY Zenon, <2>5
  <2> QED
    BY Zenon, <2>3, <2>4, <2>6
<1>5. all = DOMAIN store
  <2>1. \A n \in DOMAIN file : first(n)
    BY Zenon, <1>3, <1>4
  <2>. HIDE DEF first
  <2> QED
    BY <1>3, <2>1
<1>6. entries = store
  <2>1. \A n \in DOMAIN store : last(n) = n
    BY Zenon, <1>4
  <2>. HIDE DEF last
  <2>2. \A n \in DOMAIN store : SL!Entry(file[n].tab, file[n].key, file[last(n)].payload) = store[n]
    <3> TAKE n \in DOMAIN store
    <3>1. store[n] = SL!Entry(store[n].tab, store[n].key, store[n].payload)
      BY Zenon, <1>2 DEF SLStore, SLEntries, SLEach
    <3> QED
      BY Zenon, <1>3, <2>1, <3>1
  <2>3. store = [n \in DOMAIN store |-> store[n]]
    BY <1>2 DEF Sequenced
  <2>4. entries = [n \in DOMAIN store |-> SL!Entry(file[n].tab, file[n].key, file[last(n)].payload)]
    BY Zenon, <1>3
  <2>5. [n \in DOMAIN store |-> SL!Entry(file[n].tab, file[n].key, file[last(n)].payload)]
          = [n \in DOMAIN store |-> store[n]]
    BY <2>2
  <2>. HIDE DEF entries
  <2> QED
    BY Zenon, <2>3, <2>4, <2>5
<1>. HIDE DEF all, entries
<1>7. SL!Picked(store, DOMAIN store) = Picked(store, DOMAIN store)
  BY Zenon, SLOps
<1>8. Picked(store, DOMAIN store) = store
  BY Zenon, <1>2, PicksAll
<1>9. SL!SlotLoad(file) = SL!Picked(store, DOMAIN store)
  BY Zenon, <1>1, <1>5, <1>6
<1> QED
  BY <1>7, <1>8, <1>9 DEF file

(* A file in which no two slots, and no two payloads of a tab, are alike.   *)
LEMMA SLLoadStore ==
    ASSUME NEW file, Len(file) \in Nat, DOMAIN file = 1..Len(file), SL!Unique(SL!SlotLoad(file))
    PROVE  SLStore(SL!SlotLoad(file))
<1>. DEFINE same(n) == {m \in DOMAIN file : file[m].tab = file[n].tab /\ file[m].key = file[n].key}
            first(n) == \A m \in same(n) : n <= m
            over(n) == {n} \cup {m \in same(n) : first(n) /\ ~file[m].upper}
            last(n) == CHOOSE m \in over(n) : \A j \in over(n) : j <= m
            entries == [n \in DOMAIN file |-> SL!Entry(file[n].tab, file[n].key, file[last(n)].payload)]
            kept == {n \in DOMAIN file : file[n].upper \/ first(n)}
            p == Picked(entries, kept)
<1>1. SL!SlotLoad(file) = p
  <2>1. SL!SlotLoad(file) = SL!Picked(entries, kept)
    BY Zenon DEF SL!SlotLoad
  <2>2. SL!Picked(entries, kept) = p
    BY Zenon, SLOps
  <2> QED
    BY Zenon, <2>1, <2>2
<1>2. DOMAIN entries = 1..Len(file) /\ \A n \in DOMAIN entries : entries[n] = SL!Entry(entries[n].tab, entries[n].key, entries[n].payload)
  BY DEF SL!Entry
<1>3. kept \subseteq 1..Len(file)
  OBVIOUS
<1>4. entries \in Seq(Elements(entries))
  <2>. HIDE DEF last
  <2>1. entries = [n \in 1..Len(file) |-> entries[n]]
    OBVIOUS
  <2>. HIDE DEF entries
  <2>2. \A n \in 1..Len(file) : entries[n] \in Elements(entries)
    BY <1>2 DEF Elements
  <2> QED
    BY <2>1, <2>2
<1>. HIDE DEF entries, kept
<1>5. p \in Seq(Elements(entries)) /\ Elements(p) = {entries[n] : n \in kept}
  BY Zenon, <1>2, <1>3, <1>4, Picks
<1>6. SLEach(Elements(p))
  BY <1>2, <1>3, <1>5 DEF SLEach
<1>7. SL!Unique(p)
  BY Zenon, <1>1
<1>. HIDE DEF p
<1>8. Sequenced(p)
  BY Zenon, <1>5, SequencedOf
<1>9. \A e \in Elements(p) : \E n \in DOMAIN p : e = p[n]
  BY DEF Elements
<1>10. Listed(p)
  <2>1. \A m, n \in DOMAIN p : p[m] = p[n] => m = n
    BY Zenon, <1>7 DEF SL!Unique
  <2> QED
    BY Zenon, <1>8, <2>1 DEF Listed, Sequenced
<1>11. SLKeys(Elements(p)) /\ SLOnce(Elements(p))
  <2>1. ASSUME NEW d \in Elements(p), NEW e \in Elements(p), d.tab = e.tab,
               d.key = e.key \/ (d.tab \in SlotTabs /\ d.payload = e.payload)
        PROVE  d = e
    <3>1. PICK m \in DOMAIN p : d = p[m]
      BY Zenon, <1>9
    <3>2. PICK n \in DOMAIN p : e = p[n]
      BY Zenon, <1>9
    <3>3. m = n
      BY Zenon, <1>7, <2>1, <3>1, <3>2 DEF SL!Unique
    <3> QED
      BY Zenon, <3>1, <3>2, <3>3
  <2> QED
    BY Zenon, <2>1 DEF SLKeys, SLOnce
<1> QED
  BY Zenon, <1>1, <1>6, <1>10, <1>11 DEF SLStore, SLEntries

LEMMA SLHydrates ==
    ASSUME SlotsFit, NEW store, SLStore(store), NEW slots \in [SlotKeys -> MatchIds \cup {SL!NoSlot}],
           \A k \in SlotKeys :
               SLPays(store, SL!Windows, k, IF slots[k] = SL!NoSlot THEN SL!NoPayload ELSE slots[k])
    PROVE  SL!Hydrated(store) = slots
<1>. DEFINE look(k) == SL!SlotLookup(store, SL!Windows, k)
            h == [k \in SlotKeys |-> IF look(k) \in MatchIds THEN look(k) ELSE SL!NoSlot]
<1>1. SL!Hydrated(store) = h
  BY Zenon DEF SL!Hydrated
<1>2. ASSUME NEW k \in SlotKeys
      PROVE  look(k) = IF slots[k] = SL!NoSlot THEN SL!NoPayload ELSE slots[k]
  <2>. DEFINE p == look(k)  q == IF slots[k] = SL!NoSlot THEN SL!NoPayload ELSE slots[k]
  <2>1. SLPays(store, SL!Windows, k, p)
    BY Zenon, SLLooks
  <2>2. SLPays(store, SL!Windows, k, q)
    BY Zenon
  <2>. HIDE DEF p, q
  <2>3. SLKeys(Elements(store))
    BY Zenon DEF SLStore, SLEntries
  <2>4. p = q
    <3>1. ASSUME NEW d \in Elements(store), d.tab = SL!Windows, d.key = k, p = d.payload,
                 NEW e \in Elements(store), e.tab = SL!Windows, e.key = k, q = e.payload
          PROVE  p = q
      <4>1. d = e
        BY Zenon, <2>3, <3>1 DEF SLKeys
      <4> QED
        BY Zenon, <3>1, <4>1
    <3> QED
      BY Zenon, <2>1, <2>2, <3>1 DEF SLPays
  <2> QED
    BY <2>4 DEF p, q
<1>. HIDE DEF look
<1>3. \A k \in SlotKeys : h[k] = slots[k]
  BY <1>2 DEF SlotsFit
<1>4. h = [k \in SlotKeys |-> h[k]] /\ slots = [k \in SlotKeys |-> slots[k]]
  OBVIOUS
<1>. HIDE DEF h
<1>5. [k \in SlotKeys |-> h[k]] = [k \in SlotKeys |-> slots[k]]
  BY <1>3
<1> QED
  BY Zenon, <1>1, <1>4, <1>5

SLFields == {"store", "slots", "file", "behind", "asked"}
SLSlots == [SlotKeys -> MatchIds \cup {SL!NoSlot}]
SLFits(s) ==
    /\ DOMAIN s = SLFields /\ SLStore(s.store) /\ s.slots \in SLSlots
    /\ SLStore(SL!SlotLoad(s.file))
SLFile(s) ==
    ~s.behind => SL!SlotLoad(s.file) = s.store /\ SL!Hydrated(s.store) = s.slots
SLGood(s) == SLFits(s) /\ SLFile(s)
SLInv == SLGood(st)

(* After a save that did not fail, the next start finds what is in memory.  *)
LEMMA SLSaves ==
    ASSUME SlotsFit, NEW s, SLFits(s), NEW t \in SL!Saved(s)
    PROVE  SLGood(t)
<1>. DEFINE w == SL!SyncWindowSlots(s)  u == [s EXCEPT !.store = w]
            a == [u EXCEPT !.file = SL!AsWritten(u.store), !.behind = FALSE]
            b == [u EXCEPT !.behind = TRUE]
<1>1. t = a \/ t = b
  BY DEF SL!Saved
<1>2. /\ DOMAIN s = SLFields /\ SLStore(s.store) /\ s.slots \in SLSlots /\ SLStore(SL!SlotLoad(s.file))
  BY Zenon DEF SLFits
<1>3. /\ SLStore(w)
      /\ \A k \in SlotKeys :
             SLPays(w, SL!Windows, k, IF s.slots[k] = SL!NoSlot THEN SL!NoPayload ELSE s.slots[k])
  <2>1. s.slots \in [SlotKeys -> MatchIds \cup {SL!NoSlot}]
    BY <1>2 DEF SLSlots
  <2> QED
    BY Zenon, <1>2, <2>1, SLSyncs
<1>. HIDE DEF w
<1>4. SL!Hydrated(w) = s.slots
  <2>. DEFINE slots == s.slots
  <2>1. slots \in [SlotKeys -> MatchIds \cup {SL!NoSlot}]
    BY <1>2 DEF SLSlots
  <2>2. \A k \in SlotKeys :
            SLPays(w, SL!Windows, k, IF slots[k] = SL!NoSlot THEN SL!NoPayload ELSE slots[k])
    BY Zenon, <1>3
  <2>. HIDE DEF slots
  <2>3. SL!Hydrated(w) = slots
    BY Zenon, <1>3, <2>1, <2>2, SLHydrates
  <2> QED
    BY <2>3 DEF slots
<1>5. SL!SlotLoad(SL!AsWritten(w)) = w
  BY Zenon, <1>3, SLReads
<1>6. DOMAIN u = SLFields /\ u.store = w /\ u.slots = s.slots /\ u.file = s.file
  BY <1>2 DEF SLFields
<1>. HIDE DEF u
<1>7. /\ DOMAIN a = SLFields /\ a.store = w /\ a.slots = s.slots /\ a.file = SL!AsWritten(w)
      /\ DOMAIN b = SLFields /\ b.store = w /\ b.slots = s.slots /\ b.file = s.file /\ b.behind
  BY <1>6 DEF SLFields
<1>. HIDE DEF a, b
<1>8. SLGood(a)
  <2>1. SLStore(SL!SlotLoad(a.file)) /\ SL!SlotLoad(a.file) = a.store /\ SL!Hydrated(a.store) = a.slots
    BY <1>3, <1>4, <1>5, <1>7
  <2> QED
    BY Zenon, <1>2, <1>3, <1>7, <2>1 DEF SLGood, SLFits, SLFile
<1>9. SLGood(b)
  BY Zenon, <1>2, <1>3, <1>7 DEF SLGood, SLFits, SLFile
<1> QED
  BY Zenon, <1>1, <1>8, <1>9

LEMMA SLStored ==
    ASSUME NEW s, SLFits(s), NEW store, SLStore(store)
    PROVE  SLFits([s EXCEPT !.store = store])
<1>. DEFINE t == [s EXCEPT !.store = store]
<1>1. DOMAIN s = SLFields
  BY Zenon DEF SLFits
<1>2. DOMAIN t = SLFields /\ t.store = store /\ t.slots = s.slots /\ t.file = s.file
  BY <1>1 DEF SLFields
<1>. HIDE DEF t
<1>3. SLFits(t)
  BY Zenon, <1>2 DEF SLFits
<1> QED
  BY Zenon, <1>3 DEF t

LEMMA SLCtrlStep ==
    ASSUME SlotsFit, SLInv, NEW tab \in SlotTabs, NEW key, NEW payload, SL!CtrlKey(tab, key, payload)
    PROVE  SLInv'
<1>. DEFINE had == SL!SlotForPayload(st.store, tab, payload)
            free == IF had = 0 THEN st.store ELSE SL!SlotClear(st.store, tab, st.store[had].key)
            store == IF SL!SlotLookup(st.store, tab, key) = payload THEN SL!SlotClear(st.store, tab, key)
                     ELSE SL!SlotAssign(free, tab, key, payload)
<1>1. st' \in SL!Saved([st EXCEPT !.store = store])
  BY Zenon DEF SL!CtrlKey
<1>2. SLFits(st) /\ SLStore(st.store)
  BY Zenon DEF SLInv, SLGood, SLFits
<1>3. \A k : SLStore(SL!SlotClear(st.store, tab, k))
             /\ Elements(SL!SlotClear(st.store, tab, k)) = Elements(st.store) \ SLOf(Elements(st.store), tab, {k})
  BY Zenon, <1>2, SLClears DEF SL!SlotClear
<1>4. SLStore(free) /\ \A e \in Elements(free) : ~(e.tab = tab /\ e.payload = payload)
  <2>. DEFINE S == {n \in DOMAIN st.store : st.store[n].tab = tab /\ st.store[n].payload = payload}
              E == Elements(st.store)
  <2>1. had = SL!First(S)
    BY Zenon DEF SL!SlotForPayload
  <2>2. Sequenced(st.store) /\ S \subseteq DOMAIN st.store /\ 0 \notin DOMAIN st.store
        /\ \A n \in DOMAIN st.store : st.store[n] \in E
    <3>1. S \subseteq DOMAIN st.store
      OBVIOUS
    <3> QED
      BY Zenon, <1>2, <3>1, SLPlaces
  <2>3. \A n : n \in S <=> n \in DOMAIN st.store /\ st.store[n].tab = tab /\ st.store[n].payload = payload
    OBVIOUS
  <2>4. \A e \in E : \E n \in DOMAIN st.store : e = st.store[n]
    BY DEF Elements
  <2>. HIDE DEF S, had
  <2>5. (S = {} /\ had = 0) \/ had \in S
    BY Zenon, <2>1, <2>2, SLFirst
  <2>6. CASE had = 0
    <3>1. free = st.store
      BY Zenon, <2>6
    <3>2. S = {}
      BY <2>2, <2>3, <2>5, <2>6
    <3>3. \A e \in E : ~(e.tab = tab /\ e.payload = payload)
      BY <2>3, <2>4, <3>2
    <3> QED
      BY Zenon, <1>2, <3>1, <3>3
  <2>7. CASE had # 0
    <3>. DEFINE k == st.store[had].key
    <3>1. free = SL!SlotClear(st.store, tab, k)
      BY Zenon, <2>7
    <3>2. st.store[had] \in E /\ st.store[had].tab = tab /\ st.store[had].payload = payload
      BY Zenon, <2>2, <2>3, <2>5, <2>7
    <3>3. \A e \in E : e.tab = tab /\ e.payload = payload => e = st.store[had]
      <4>1. SLOnce(E)
        BY Zenon, <1>2 DEF SLStore, SLEntries
      <4> QED
        BY Zenon, <3>2, <4>1 DEF SLOnce
    <3>4. SLStore(free) /\ Elements(free) = E \ SLOf(E, tab, {k})
      BY Zenon, <1>3, <3>1
    <3>. HIDE DEF free, E
    <3>5. \A e \in Elements(free) : e \in E /\ ~(e.tab = tab /\ e.key = k)
      BY <3>4 DEF SLOf
    <3>6. \A e \in Elements(free) : ~(e.tab = tab /\ e.payload = payload)
      BY Zenon, <3>3, <3>5
    <3> QED
      BY Zenon, <3>4, <3>6
  <2> QED
    BY Zenon, <2>6, <2>7
<1>. HIDE DEF free
<1>5. SLStore(SL!SlotAssign(free, tab, key, payload))
  BY Zenon, <1>4, SLAssigns
<1>6. SLStore(store)
  BY Zenon, <1>3, <1>5
<1>. HIDE DEF store
<1> QED
  BY Zenon, <1>1, <1>2, <1>6, SLStored, SLSaves DEF SLInv

LEMMA SLUnassigns ==
    ASSUME NEW s, SLFits(s), NEW keys
    PROVE  SLFits(SL!Unassigned(s, keys))
<1>. DEFINE slots == [k \in SlotKeys |-> IF k \in keys THEN SL!NoSlot ELSE s.slots[k]]
            store == SL!SlotsClear(s.store, SL!Windows, keys)
            t == [s EXCEPT !.slots = slots, !.store = store]
<1>1. SL!Unassigned(s, keys) = t
  BY DEF SL!Unassigned
<1>2. DOMAIN s = SLFields /\ SLStore(s.store) /\ s.slots \in SLSlots
  BY Zenon DEF SLFits
<1>3. slots \in SLSlots
  BY <1>2 DEF SLSlots
<1>4. SLStore(store)
  BY Zenon, <1>2, SLClears
<1>. HIDE DEF slots, store
<1>5. DOMAIN t = SLFields /\ t.store = store /\ t.slots = slots /\ t.file = s.file
  BY <1>2 DEF SLFields
<1>. HIDE DEF t
<1>6. SLFits(t)
  BY Zenon, <1>3, <1>4, <1>5 DEF SLFits
<1> QED
  BY Zenon, <1>1, <1>6

LEMMA SLTakes ==
    ASSUME SlotsFit, NEW s, SLFits(s), NEW k \in SlotKeys, NEW id \in MatchIds
    PROVE  SLFits(SL!AssignWindowToSlot(s, k, id))
<1>. DEFINE slots == [s.slots EXCEPT ![k] = id]
            store == SL!SlotAssign(s.store, SL!Windows, k, id)
            t == [s EXCEPT !.slots = slots, !.store = store]
<1>2. DOMAIN s = SLFields /\ SLStore(s.store) /\ s.slots \in SLSlots
  BY Zenon DEF SLFits
<1>1. SL!AssignWindowToSlot(s, k, id) = t
  BY <1>2 DEF SL!AssignWindowToSlot, SLFields
<1>3. slots \in SLSlots
  BY <1>2 DEF SLSlots
<1>4. SLStore(store)
  <2>1. SL!Windows \notin SlotTabs
    BY Zenon DEF SlotsFit
  <2> QED
    BY Zenon, <1>2, <2>1, SLAssigns
<1>. HIDE DEF slots, store
<1>5. DOMAIN t = SLFields /\ t.store = store /\ t.slots = slots /\ t.file = s.file
  BY <1>2 DEF SLFields
<1>. HIDE DEF t
<1>6. SLFits(t)
  BY Zenon, <1>3, <1>4, <1>5 DEF SLFits
<1> QED
  BY Zenon, <1>1, <1>6

(* Who asks what is not in the file. *)
LEMMA SLAsks ==
    ASSUME NEW s, DOMAIN s = SLFields, NEW keys
    PROVE  LET t == [s EXCEPT !.asked = keys] IN
           (SLFits(s) => SLFits(t)) /\ (SLGood(s) => SLGood(t))
<1>. DEFINE t == [s EXCEPT !.asked = keys]
<1>1. /\ DOMAIN t = SLFields /\ t.store = s.store /\ t.slots = s.slots /\ t.file = s.file
      /\ t.behind = s.behind
  BY DEF SLFields
<1>. HIDE DEF t
<1>2. SLFits(s) => SLFits(t)
  BY Zenon, <1>1 DEF SLFits
<1>3. SLGood(s) => SLGood(t)
  BY Zenon, <1>1, <1>2 DEF SLGood, SLFile
<1> QED
  BY Zenon, <1>2, <1>3 DEF t

LEMMA SLLoads ==
    ASSUME SlotsFit, NEW s, DOMAIN s = SLFields, NEW read, SLStore(read), SLStore(SL!SlotLoad(s.file))
    PROVE  SLGood(SL!Loaded(s, read))
<1>. DEFINE h == SL!Hydrated(read)  b == s.file # SL!AsWritten(read)
            t == [s EXCEPT !.store = read, !.slots = h, !.behind = b]
<1>1. SL!Loaded(s, read) = t
  BY Zenon DEF SL!Loaded
<1>2. h \in SLSlots
  BY DEF SL!Hydrated, SLSlots
<1>3. DOMAIN t = SLFields /\ t.store = read /\ t.slots = h /\ t.file = s.file /\ t.behind = b
  BY DEF SLFields
<1>4. ~b => SL!SlotLoad(s.file) = read
  <2> SUFFICES ASSUME s.file = SL!AsWritten(read) PROVE SL!SlotLoad(s.file) = read
    BY Zenon
  <2>1. SL!SlotLoad(SL!AsWritten(read)) = read
    BY Zenon, SLReads
  <2> QED
    BY <2>1
<1>. HIDE DEF t, b
<1>5. SLFits(t)
  BY Zenon, <1>2, <1>3 DEF SLFits
<1>6. SLFile(t)
  BY Zenon, <1>3, <1>4 DEF SLFile, h
<1> QED
  BY Zenon, <1>1, <1>5, <1>6 DEF SLGood

LEMMA SLNone == SLStore(<<>>)
<1>1. Elements(<<>>) = {} /\ Listed(<<>>)
  BY DEF Elements, Listed
<1>2. SLEntries({})
  BY DEF SLEntries, SLEach, SLKeys, SLOnce
<1> QED
  BY Zenon, <1>1, <1>2 DEF SLStore

LEMMA SLStart == ASSUME SlotsFit, SL!Init PROVE SLInv
<1>. DEFINE s(f) == [store |-> <<>>, slots |-> [k \in SlotKeys |-> SL!NoSlot], file |-> f,
                     behind |-> FALSE, asked |-> {}]
<1>1. PICK f \in SlotFiles : st = SL!Loaded(s(f), SL!SlotLoad(f))
  BY Zenon DEF SL!Init
<1>2. DOMAIN s(f) = SLFields /\ s(f).file = f
  BY DEF SLFields
<1>. HIDE DEF s
<1>3. SLStore(SL!SlotLoad(f))
  <2>1. Len(f) \in Nat /\ DOMAIN f = 1..Len(f) /\ SL!Unique(SL!SlotLoad(f))
    BY Zenon DEF SlotsFit
  <2> QED
    BY Zenon, <2>1, SLLoadStore
<1>4. SLGood(SL!Loaded(s(f), SL!SlotLoad(f)))
  BY Zenon, <1>2, <1>3, SLLoads
<1> QED
  BY Zenon, <1>1, <1>4 DEF SLInv

LEMMA SLNextStep == ASSUME SlotsFit, SLInv, SL!Next PROVE SLInv'
<1>1. SLFits(st) /\ DOMAIN st = SLFields /\ SLStore(SL!SlotLoad(st.file))
  BY Zenon DEF SLInv, SLGood, SLFits
<1>2. ASSUME NEW k \in SlotKeys, NEW t \in SlotTabs, NEW p \in Payloads \cup {SL!NoPayload},
             SL!CtrlKey(t, k, p)
      PROVE  SLInv'
  BY Zenon, <1>2, SLCtrlStep
<1>3. ASSUME NEW k \in SlotKeys, NEW t \in SlotTabs, SL!Recall(t, k)
      PROVE  SLInv'
  <2>1. st' \in SL!Saved(st)
    BY Zenon, <1>3 DEF SL!Recall
  <2> QED
    BY Zenon, <1>1, <2>1, SLSaves DEF SLInv
<1>4. ASSUME NEW k \in SlotKeys, SL!ToggleOff(k) PROVE SLInv'
  <2>1. st' \in SL!Saved(SL!Unassigned(st, {k}))
    BY Zenon, <1>4 DEF SL!ToggleOff
  <2>2. SLFits(SL!Unassigned(st, {k}))
    BY Zenon, <1>1, SLUnassigns
  <2> QED
    BY Zenon, <2>1, <2>2, SLSaves DEF SLInv
<1>5. ASSUME NEW k \in SlotKeys, SL!MoveWindowHere(k) PROVE SLInv'
  <2>1. PICK left \in SUBSET {q \in SlotKeys \ {k} : st.slots[q] # SL!NoSlot},
             id \in {i \in MatchIds : \A n \in DOMAIN st.store : st.store[n].payload # i} :
                 st' \in SL!Saved(SL!AssignWindowToSlot(SL!Unassigned(st, left), k, id))
    BY Zenon, <1>5 DEF SL!MoveWindowHere
  <2>2. SLFits(SL!Unassigned(st, left))
    BY Zenon, <1>1, SLUnassigns
  <2>3. SLFits(SL!AssignWindowToSlot(SL!Unassigned(st, left), k, id))
    BY Zenon, <2>2, SLTakes
  <2> QED
    BY Zenon, <2>1, <2>3, SLSaves DEF SLInv
<1>6. ASSUME NEW k \in SlotKeys, SL!AskDelete(k) PROVE SLInv'
  <2>1. st' = [st EXCEPT !.asked = {k}]
    BY Zenon, <1>6 DEF SL!AskDelete
  <2> QED
    BY Zenon, <1>1, <2>1, SLAsks DEF SLInv
<1>7. CASE SL!AnswerDelete
  <2>1. PICK k \in st.asked : \/ st' = [st EXCEPT !.asked = {}]
                            \/ st' \in SL!Saved([SL!Unassigned(st, {k}) EXCEPT !.asked = {}])
    BY Zenon, <1>7 DEF SL!AnswerDelete
  <2>2. CASE st' = [st EXCEPT !.asked = {}]
    BY Zenon, <1>1, <2>2, SLAsks DEF SLInv
  <2>3. CASE st' \in SL!Saved([SL!Unassigned(st, {k}) EXCEPT !.asked = {}])
    <3>. DEFINE u == SL!Unassigned(st, {k})
    <3>1. SLFits(u)
      BY Zenon, <1>1, SLUnassigns
    <3>2. DOMAIN u = SLFields
      BY Zenon, <3>1 DEF SLFits
    <3>3. SLFits([u EXCEPT !.asked = {}])
      BY Zenon, <3>1, <3>2, SLAsks
    <3> QED
      BY Zenon, <2>3, <3>3, SLSaves DEF SLInv
  <2> QED
    BY Zenon, <2>1, <2>2, <2>3
<1>8. CASE SL!HideWindow
  <2>1. st' \in SL!Saved([st EXCEPT !.asked = {}])
    BY Zenon, <1>8 DEF SL!HideWindow
  <2>2. SLFits([st EXCEPT !.asked = {}])
    BY Zenon, <1>1, SLAsks
  <2> QED
    BY Zenon, <2>1, <2>2, SLSaves DEF SLInv
<1>9. CASE SL!Restart
  <2>1. PICK read : SLStore(read) /\ st' = [SL!Loaded(st, read) EXCEPT !.asked = {}]
    BY Zenon, <1>1, <1>9, SLNone DEF SL!Restart
  <2>. DEFINE l == SL!Loaded(st, read)
  <2>2. SLGood(l)
    BY Zenon, <1>1, <2>1, SLLoads
  <2>3. DOMAIN l = SLFields
    BY Zenon, <2>2 DEF SLGood, SLFits
  <2>4. SLGood([l EXCEPT !.asked = {}])
    BY Zenon, <2>2, <2>3, SLAsks
  <2> QED
    BY Zenon, <2>1, <2>4 DEF SLInv
<1> QED
  BY Zenon, <1>2, <1>3, <1>4, <1>5, <1>6, <1>7, <1>8, <1>9 DEF SL!Next

LEMMA SLShows == ASSUME SLInv PROVE SL!SlotsAgree
<1>1. SLStore(st.store) /\ SLFile(st)
  BY Zenon DEF SLInv, SLGood, SLFits
<1>2. SL!OneToOne
  <2>1. /\ \A m, n \in DOMAIN st.store : st.store[m].tab = st.store[n].tab /\ st.store[m].key = st.store[n].key => m = n
        /\ \A m, n \in DOMAIN st.store : st.store[m].tab \in SlotTabs /\ st.store[m].tab = st.store[n].tab
                                         /\ st.store[m].payload = st.store[n].payload => m = n
    BY Zenon, <1>1, SLPlaces
  <2> QED
    BY Zenon, <2>1 DEF SL!OneToOne, SL!Unique
<1>3. SL!FileHasAll
  BY Zenon, <1>1 DEF SL!FileHasAll, SLFile
<1> QED
  BY Zenon, <1>2, <1>3 DEF SL!SlotsAgree

LEMMA SlotsHold == ASSUME SlotsFit PROVE SL!Spec => []SL!SlotsAgree
<1>1. SL!Init => SLInv
  BY SLStart
<1>2. SLInv /\ [SL!Next]_st => SLInv'
  <2>1. ASSUME SLInv, UNCHANGED st PROVE SLInv'
    BY <2>1 DEF SLInv
  <2> QED
    BY <2>1, SLNextStep
<1>3. SLInv => SL!SlotsAgree
  BY SLShows
<1> QED
  BY <1>1, <1>2, <1>3, PTL DEF SL!Spec
=============================================================================
