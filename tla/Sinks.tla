-------------------------------- MODULE Sinks --------------------------------
(* The Sinks tab (src/src/sinks/sinks.c, sinks_provider.c): pactl is run   *)
(* for the list of the audio sinks and to set the default one, and what it *)
(* answers is open and comes when the user may be on another tab or have   *)
(* left.  The index of the selected row is the one all provider tabs share.*)
EXTENDS Naturals, Sequences, SequencesExt, FiniteSets

CONSTANTS Names,        \* sinks, numbered as pactl lists them
          Filters,      \* texts of the entry
          Matching,     \* the sinks that has_match finds for a text
          OtherRows     \* rows of another provider tab

VARIABLE sk

Empty == "empty"
Listings ==                     \* a list of sinks, one of which may be the default one
    UNION {{[n \in DOMAIN SetToSortSeq(there, <) |->
                [name |-> SetToSortSeq(there, <)[n], default |-> SetToSortSeq(there, <)[n] = d]]
            : d \in there \cup {0}} : there \in SUBSET Names}

-----------------------------------------------------------------------------
(* sinks_filter: the rows are places in the list. *)
Filtered(s, text) ==
    [s EXCEPT !.rows = SelectSeq([n \in DOMAIN s.list |-> n],
                  LAMBDA n : text = Empty \/ s.list[n].name \in Matching[text])]
RowCount(s) == IF s.error \/ s.list = <<>> \/ s.rows = <<>> THEN 1 ELSE Len(s.rows)
SinkAtVisible(s, n) == IF n \in DOMAIN s.rows /\ s.rows[n] \in DOMAIN s.list
                       THEN s.list[s.rows[n]].name ELSE 0
AtName(s, name) ==
    LET n == SelectInSeq(s.rows, LAMBDA r : s.list[r].name = name) IN IF n = 0 THEN 1 ELSE n

(* update_display draws the tab that is there. *)
UpdateDisplay(s) ==
    IF s.tab # "sinks" THEN s
    ELSE [s EXCEPT !.drawn = [error |-> s.error, row |-> s.row,
                              names |-> [n \in DOMAIN s.rows |-> SinkAtVisible(s, n)]]]

\* Mutant: the new list is not drawn.
ApplyRefreshResultUnseen(s, sinks) ==
    IF sinks # <<>> /\ sinks = s.list /\ ~s.error THEN s
    ELSE LET t == Filtered([s EXCEPT !.list = sinks, !.error = sinks = <<>>], s.text)
         IN  [t EXCEPT !.row = AtName(t, SinkAtVisible(s, s.row))]

(* apply_refresh_result, on whichever tab; a list that is as it was        *)
(* changes nothing.                                                        *)
ApplyRefreshResult(s, sinks) ==
    IF sinks # <<>> /\ sinks = s.list /\ ~s.error THEN s
    ELSE LET t == Filtered([s EXCEPT !.list = sinks, !.error = sinks = <<>>], s.text)
         IN  UpdateDisplay([t EXCEPT !.row = AtName(t, SinkAtVisible(s, s.row))])

(* sinks_refresh_async: one at a time. *)
RefreshAsync(s) == [s EXCEPT !.refreshing = TRUE]
OnRefreshDone ==
    LET s == [sk EXCEPT !.refreshing = FALSE] IN
    /\ sk.refreshing
    /\ \/ sk' = UpdateDisplay([s EXCEPT !.error = TRUE])
       \/ \E sinks \in Listings : sk' = ApplyRefreshResult(s, sinks)

-----------------------------------------------------------------------------
(* The entry: hide_window empties it on the tab, switch_to_tab on the next *)
(* one.                                                                    *)
OnTab == sk.tab = "sinks"
OnQueryChanged(s, text) ==
    IF text = s.text \/ s.tab # "sinks" THEN [s EXCEPT !.text = text]
    ELSE LET t == Filtered([s EXCEPT !.text = text], text)
         IN  UpdateDisplay([t EXCEPT !.row = IF s.error THEN 1
                                             ELSE AtName(t, SinkAtVisible(s, s.row))])
HideWindow(s) == [OnQueryChanged(s, Empty) EXCEPT !.tab = "windows"]

TypeText(text) == sk.tab # "windows" /\ text # sk.text /\ sk' = OnQueryChanged(sk, text)
MoveTo(n) ==
    /\ n # sk.row
    /\ \/ OnTab /\ n \in 1..RowCount(sk)
       \/ sk.tab = "other" /\ n \in OtherRows
    /\ sk' = UpdateDisplay([sk EXCEPT !.row = n])
OpenTab(tab) ==
    LET s == [sk EXCEPT !.tab = tab, !.text = Empty] IN
    /\ tab # sk.tab
    /\ sk' = UpdateDisplay([IF tab = "sinks" THEN RefreshAsync(s) ELSE s EXCEPT !.row = 1])
Hide == sk.tab # "windows" /\ sk' = HideWindow(sk)
Tick == OnTab /\ sk' = RefreshAsync(sk)

(* sinks_switch_name: pactl is started, and the answer to Enter hides the  *)
(* window at once; when pactl is done it is hidden once more.              *)
Switch(name) == [sk EXCEPT !.setting = @ \cup {name}]
EnterPressed ==
    LET name == SinkAtVisible(sk, sk.row) IN
    OnTab /\ name # 0 /\ name \notin sk.setting /\ sk' = HideWindow(Switch(name))
SlotRecall(name) == name \notin sk.setting /\ sk' = HideWindow(Switch(name))
OnSetDefaultDone(name) ==
    LET s == [sk EXCEPT !.setting = @ \ {name}] IN
    /\ name \in sk.setting
    /\ \/ sk' = HideWindow(RefreshAsync(s))
       \/ sk' = UpdateDisplay([s EXCEPT !.error = TRUE])

Init == sk = [list |-> <<>>, error |-> FALSE, rows |-> <<>>, row |-> 1, tab |-> "windows",
              text |-> Empty, refreshing |-> FALSE, setting |-> {},
              drawn |-> [error |-> FALSE, row |-> 1, names |-> <<>>]]

Next ==
    \/ OnRefreshDone \/ Hide \/ Tick \/ EnterPressed
    \/ \E text \in Filters \cup {Empty} : TypeText(text)
    \/ \E n \in 1..(Cardinality(Names) + 1) : MoveTo(n)
    \/ \E tab \in {"sinks", "other"} : OpenTab(tab)
    \/ \E name \in Names : SlotRecall(name) \/ OnSetDefaultDone(name)

Spec == Init /\ [][Next]_sk

-----------------------------------------------------------------------------
(* The rows Enter goes by are the ones that were drawn last, and so is the *)
(* selected one, though the list, its order and the filter change under    *)
(* it, here and while the user is elsewhere.  An error hides the rows from *)
(* the eye and not from Enter.                                             *)
DrawnIsMeant ==
    OnTab /\ ~sk.drawn.error =>
        /\ sk.row = sk.drawn.row
        /\ \A n \in DOMAIN sk.rows \cup DOMAIN sk.drawn.names :
               n \in DOMAIN sk.drawn.names /\ SinkAtVisible(sk, n) = sk.drawn.names[n]
=============================================================================
