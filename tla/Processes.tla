------------------------------ MODULE Processes ------------------------------
(* The Proc tab (src/src/proc/proc.c): the inventory of /proc, the filter, *)
(* the actions behind a bar, and the signals that are sent to the          *)
(* processes of the rows.  Processes come, go and grow all the time.       *)
EXTENDS Naturals, Sequences, SequencesExt, FiniteSets

CONSTANTS Procs,        \* processes: records of pid and name; a pid may be used again
          Others,       \* pids of which another user is the owner
          Filters,      \* texts before the bar
          Score,        \* final_score of a name under a filter, 0 when it is no hit
          Windowed      \* pids that, or an ancestor of which, have a window

VARIABLE pr

Empty == "empty"
NoBar == [type |-> "none", all |-> FALSE]       \* the entry has no bar
Actions == [type : {"signal", "show", "invalid"}, all : BOOLEAN] \cup {NoBar}
Texts == [filter : Filters \cup {Empty}, action : Actions]
NoText == [filter |-> Empty, action |-> NoBar]

(* load_proc_inventory reads in the order of compare_rss_desc. *)
Inventories == {l \in SeqOf(Procs, Cardinality(Procs)) :
                    \A m, n \in DOMAIN l : l[m].pid = l[n].pid => m = n}

-----------------------------------------------------------------------------
(* proc_filter: by score, then as the inventory goes. *)
Hits(list, filter) ==
    IF filter = Empty THEN list
    ELSE LET found == SelectSeq(list, LAMBDA p : Score[filter][p.name] > 0)
             Precedes(m, n) == \/ Score[filter][found[m].name] > Score[filter][found[n].name]
                               \/ Score[filter][found[m].name] = Score[filter][found[n].name] /\ m < n
         IN  [k \in DOMAIN found |-> found[SetToSortSeq(DOMAIN found, Precedes)[k]]]

PidAt(s) == IF s.row \in DOMAIN s.rows THEN s.rows[s.row].pid ELSE 0
AtPid(rows, pid) ==
    LET n == SelectInSeq(rows, LAMBDA p : p.pid = pid) IN IF n = 0 THEN 1 ELSE n

RowCount(s) == IF s.error \/ s.list = <<>> \/ s.rows = <<>> THEN 1 ELSE Len(s.rows)
UpdateDisplay(s) ==
    [s EXCEPT !.drawn = [error |-> s.error, row |-> s.row,
                         rows |-> IF s.error THEN <<>> ELSE s.rows]]

(* apply_entries: nothing changes when pids and names are as they were. *)
ApplyEntries(s, read) ==
    IF read # <<>> /\ read = s.list /\ ~s.error THEN s
    ELSE LET rows == Hits(read, s.text.filter)
         IN  UpdateDisplay([s EXCEPT !.list = read, !.error = read = <<>>, !.rows = rows,
                                     !.row = AtPid(rows, PidAt(s))])
Refresh(s) == ApplyEntries(s, s.alive)

\* Mutant: the rows that are found are not drawn.
OnQueryChangedUnseen(s, text) ==
    IF text = s.text THEN s
    ELSE LET rows == Hits(s.list, text.filter)
         IN  [s EXCEPT !.text = text, !.rows = rows, !.row = IF s.error THEN 1 ELSE AtPid(rows, PidAt(s))]

(* on_entry_changed keeps the row by its identity, which an error row has  *)
(* not.                                                                    *)
OnQueryChanged(s, text) ==
    IF text = s.text THEN s
    ELSE LET rows == Hits(s.list, text.filter)
         IN  UpdateDisplay([s EXCEPT !.text = text, !.rows = rows,
                                     !.row = IF s.error THEN 1 ELSE AtPid(rows, PidAt(s))])
HideWindow(s) ==
    IF s.tab = "proc" THEN [OnQueryChanged(s, NoText) EXCEPT !.tab = "other"] ELSE s

-----------------------------------------------------------------------------
(* execute_proc_action.  A signal finds the pid, whoever has it by now, is *)
(* refused, or finds nobody.                                               *)
OnTab == pr.tab = "proc"
Alive == {pr.alive[n].pid : n \in DOMAIN pr.alive}
Action == IF pr.text.action = NoBar THEN [type |-> "signal", all |-> FALSE] ELSE pr.text.action
Targets ==
    IF Action.all THEN {pr.rows[n].pid : n \in DOMAIN pr.rows}
    ELSE IF pr.row \in DOMAIN pr.rows THEN {pr.rows[pr.row].pid} ELSE {}

SignalTargets ==
    /\ OnTab /\ Action.type = "signal" /\ Targets # {}
    /\ LET reached == (Targets \cap Alive) \ Others
       IN  IF reached = {}
           THEN pr' = UpdateDisplay([pr EXCEPT !.error = TRUE])
           ELSE \E left \in Inventories :
                  /\ \A n \in DOMAIN left : left[n] \in Range(pr.alive)
                  /\ \A p \in Range(pr.alive) : p.pid \notin reached => p \in Range(left)
                  /\ pr' = HideWindow(Refresh([pr EXCEPT !.error = FALSE, !.alive = left]))

(* show_single_target: a window is activated and the tab left, and then    *)
(* the inventory read again.                                               *)
ShowTarget ==
    /\ OnTab /\ Action.type = "show" /\ ~Action.all /\ Targets # {}
    /\ pr' = IF Targets \subseteq Windowed
             THEN Refresh([HideWindow(pr) EXCEPT !.error = FALSE])
             ELSE UpdateDisplay([pr EXCEPT !.error = TRUE])

-----------------------------------------------------------------------------
Tick == OnTab /\ pr' = Refresh(pr)
TypeText(text) == OnTab /\ text # pr.text /\ pr' = OnQueryChanged(pr, text)
CommandAndBack == OnTab /\ pr.text # NoText /\ pr' = [pr EXCEPT !.text = NoText]
MoveSelection(up) ==
    LET n == RowCount(pr) IN
    /\ OnTab
    /\ pr' = UpdateDisplay([pr EXCEPT !.row =
                 IF up THEN IF @ < n THEN @ + 1 ELSE 1 ELSE IF @ > 1 THEN @ - 1 ELSE n])
EnterTab ==
    /\ ~OnTab
    /\ pr' = UpdateDisplay([Refresh([pr EXCEPT !.tab = "proc", !.text = NoText]) EXCEPT !.row = 1])
LeaveTab == OnTab /\ pr' = [pr EXCEPT !.tab = "other", !.text = NoText]
Hide == OnTab /\ pr' = HideWindow(pr)

(* /proc: processes start, end, grow, and get the pids of others. *)
Churn == \E now \in Inventories : now # pr.alive /\ pr' = [pr EXCEPT !.alive = now]

Init == pr = [alive |-> <<>>, list |-> <<>>, error |-> FALSE, rows |-> <<>>, row |-> 1,
              tab |-> "other", text |-> NoText,
              drawn |-> [error |-> FALSE, rows |-> <<>>, row |-> 1]]

Next ==
    \/ SignalTargets \/ ShowTarget \/ Tick \/ CommandAndBack
    \/ \E text \in Texts : TypeText(text)
    \/ \E up \in BOOLEAN : MoveSelection(up)
    \/ EnterTab \/ LeaveTab \/ Hide \/ Churn

Spec == Init /\ [][Next]_pr

-----------------------------------------------------------------------------
(* An action is for the process whose row was drawn as the selected one,   *)
(* or for those of all rows that were drawn, however the inventory and the *)
(* filter changed before; unless an error stands in the place of the rows, *)
(* which hides them from the eye and not from Enter.                       *)
ActsOnWhatIsShown ==
    OnTab /\ ~pr.drawn.error =>
        LET seen == pr.drawn IN
        IF Action.all THEN Targets = {seen.rows[n].pid : n \in DOMAIN seen.rows}
        ELSE Targets = IF seen.row \in DOMAIN seen.rows THEN {seen.rows[seen.row].pid} ELSE {}
=============================================================================
