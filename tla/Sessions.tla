------------------------------ MODULE Sessions ------------------------------
(* The Sessions tab (src/src/sessions): ripgrep searches the logs of        *)
(* conversations for the terms before the bar of the entry, its lines are   *)
(* read one by one and grouped by session, and what stands after the bar    *)
(* narrows the rows without a new search.  A row is resumed, renamed or     *)
(* deleted.  Which lines ripgrep finds is open, also in a log that was      *)
(* deleted after it was started.                                            *)
EXTENDS Naturals, Sequences, FiniteSets, Places

CONSTANTS Logs,         \* log files
          SessionOf,    \* log -> session, numbered by project label
          Subagents,    \* logs below /subagents/
          Modified,     \* log -> time
          Label,        \* session -> the words of its project label and id
          Terms,        \* what is typed before the bar -> its words
          Refines,      \* words that may follow the bar
          Names,        \* what a session is renamed to, as sets of words
          Fixed,        \* sessions of history files: neither resumed nor renamed
          MaxLines,     \* SESSIONS_MAX_PROCESSED_LINES
          MaxSessions,  \* MAX_SESSION_RESULTS
          MaxHits,      \* SESSIONS_MAX_MATCHES_PER_FILE
          MaxReads      \* bound: reads that wait, of this search and of earlier ones

VARIABLE se

NoLeft == "nothing"     \* no terms; Terms gives them no words
NoWord == "no word"
Words == UNION {Terms[l] : l \in DOMAIN Terms} \cup Refines
Text(left, refine) == [left |-> left, refine |-> refine]
NoText == Text(NoLeft, NoWord)
Texts == {Text(l, r) : l \in DOMAIN Terms, r \in Refines \cup {NoWord}}
Elsewhere == Text(NoLeft, "elsewhere")      \* what is typed on another tab
NoLog == "no log"

-----------------------------------------------------------------------------
(* The results and the rows. *)
Metadata(s, r) == Terms[s.query.left] \cap (Label[r.session] \cup r.name)
Whole(s, words) == Terms[s.query.left] \subseteq words

(* result_matches_refine and filtered_result_cmp. *)
MatchesRefine(s, r) ==
    /\ Whole(s, r.matched)
    /\ s.query.refine \in Label[r.session] \cup r.name \cup r.said \cup {NoWord}
Before(s, i, j) ==
    LET l == s.results[i] r == s.results[j] IN
    IF Whole(s, l.meta) # Whole(s, r.meta) THEN Whole(s, l.meta)
    ELSE IF l.time # r.time THEN l.time > r.time
    ELSE IF l.hits # r.hits THEN l.hits > r.hits
    ELSE l.session < r.session

(* sessions_apply_refine. *)
Fitting(s) == {i \in DOMAIN s.results : MatchesRefine(s, s.results[i])}
ApplyRefine(s) ==
    LET fit == Fitting(s) IN
    [s EXCEPT !.rows = Sorted(fit, [i \in fit |-> {j \in fit : Before(s, j, i)}])]

RowCount(s) == IF s.rows = <<>> THEN 1 ELSE Len(s.rows)
SessionAtRow(s, n) == IF n \in DOMAIN s.rows THEN s.results[s.rows[n]].path ELSE NoLog

(* update_display; sessions_changed draws this tab only. *)
NothingDrawn == [row |-> 1, logs |-> <<>>]
UpdateDisplay(s) ==
    IF s.tab # "sessions" THEN [s EXCEPT !.drawn = NothingDrawn]
    ELSE [s EXCEPT !.drawn = [row |-> s.row, logs |-> [n \in DOMAIN s.rows |-> SessionAtRow(s, n)]]]

(* merge_result_metadata: the log a session is known by. *)
Prefers(r, log) ==
    LET sub == r.path \in Subagents IN
    \/ sub /\ log \notin Subagents
    \/ sub = (log \in Subagents) /\ Modified[log] > r.time
Merge(r, log) ==
    [r EXCEPT !.path = IF Prefers(r, log) THEN log ELSE @,
              !.time = IF Modified[log] > @ THEN Modified[log] ELSE @]

(* find_or_add_result; seen and of only observe: every word found for the  *)
(* result, and the searches that found it.                                 *)
OfSession(s, session) == {i \in DOMAIN s.results : s.results[i].session = session}
OfLog(s, log) == {i \in DOMAIN s.results : s.results[i].path = log}
FindOrAdd(s, log) ==
    LET at == OfSession(s, SessionOf[log])
        new == [session |-> SessionOf[log], path |-> log, time |-> Modified[log], hits |-> 0,
                said |-> {}, name |-> {}, matched |-> {}, meta |-> {}, seen |-> {}, of |-> {}]
        meta == Metadata(s, new)
    IN  IF at # {} THEN [s EXCEPT !.results[Nth(at, 1)] = Merge(@, log)]
        ELSE IF Len(s.results) >= MaxSessions THEN s
        ELSE [s EXCEPT !.results = Append(@, [new EXCEPT !.meta = meta, !.matched = meta])]

(* ingest_match: line is [log, words, names], names telling whether the    *)
(* line names the session.                                                 *)
Ingest(s, line, left) ==
    LET t == FindOrAdd(s, line.log)
        at == OfSession(t, SessionOf[line.log])
        i == Nth(at, 1)
        r == t.results[i]
        named == [r EXCEPT !.name = line.words]
        u == IF line.names
             THEN [named EXCEPT !.meta = Metadata(t, named), !.matched = @ \cup Metadata(t, named)]
             ELSE [r EXCEPT !.said = @ \cup line.words]
    IN  IF at = {} THEN s
        ELSE ApplyRefine([t EXCEPT !.results[i] =
                 [u EXCEPT !.hits = IF @ < MaxHits THEN @ + 1 ELSE @,
                           !.matched = @ \cup (Terms[t.query.left] \cap line.words),
                           !.seen = @ \cup line.words, !.of = @ \cup {left}]])

-----------------------------------------------------------------------------
\* Mutant: the generation stays.
CancelSameGeneration(s) == [s EXCEPT !.searching = FALSE]

(* A read of the next line carries the generation of its search: it is     *)
(* current until the search is cancelled.  The process may still have      *)
(* lines of the logs that were there when it was started.                  *)
Cancel(s) ==
    [s EXCEPT !.searching = FALSE, !.reads = [k \in DOMAIN @ |-> [@[k] EXCEPT !.current = FALSE]]]

(* sessions_search; rg may fail to start. *)
Refine(s, text) ==
    UpdateDisplay(ApplyRefine([s EXCEPT !.query.refine = text.refine]))
NewSearch(s, text, starts) ==
    LET t == [Cancel(s) EXCEPT !.results = <<>>, !.rows = <<>>, !.lines = 0, !.query = text,
                               !.left = text.left]
        read == [left |-> text.left, current |-> TRUE, logs |-> Logs \ s.deleted]
    IN  UpdateDisplay(IF Terms[text.left] = {} \/ ~starts THEN t
                      ELSE [t EXCEPT !.searching = TRUE, !.reads = Append(@, read)])
Search(s, text, starts) ==
    IF text.left = s.left THEN Refine(s, text) ELSE NewSearch(s, text, starts)

(* on_entry_changed: the text is the tab's, the selection is reset and not  *)
(* found again.                                                             *)
OnQueryChanged(s, text, starts) ==
    IF text = s.text THEN s
    ELSE IF s.tab # "sessions" THEN UpdateDisplay([s EXCEPT !.text = text])
    ELSE UpdateDisplay([Search([s EXCEPT !.text = text], text, starts) EXCEPT !.row = 1])

OnEnter(s) == Search([Cancel(s) EXCEPT !.left = NoLeft], s.text, TRUE)

-----------------------------------------------------------------------------
(* What is left without the one at a place. *)
Dropped(seq, k) == Picked(seq, DOMAIN seq \ {k})
CanStart == Len(se.reads) < MaxReads
Free == se.overlay = "none"
Closed(s) == [s EXCEPT !.overlay = "none", !.about = NoLog]

TypeText(text, starts) ==
    /\ Free /\ CanStart /\ text # se.text
    /\ IF se.tab = "sessions" THEN text \in Texts ELSE text \in {NoText, Elsewhere}
    /\ se' = OnQueryChanged(se, text, starts)

(* switch_to_tab; BackToWindows is the hotkey, which calls no on_leave. *)
OpenTab ==
    /\ se.tab # "sessions"
    /\ LET s == OnQueryChanged([se EXCEPT !.tab = "sessions"], NoText, TRUE)
       IN  se' = UpdateDisplay([OnEnter(s) EXCEPT !.row = 1])
LeaveTab ==
    /\ se.tab = "sessions" /\ Free
    /\ se' = UpdateDisplay(OnQueryChanged([Cancel(se) EXCEPT !.tab = "windows"], NoText, TRUE))
BackToWindows ==
    /\ se.tab = "sessions"
    /\ se' = UpdateDisplay(OnQueryChanged([se EXCEPT !.tab = "windows"], NoText, TRUE))
HideWindow(s) ==
    LET t == OnQueryChanged(s, NoText, TRUE) IN
    UpdateDisplay(Closed([(IF s.tab = "sessions" THEN Cancel(t) ELSE t) EXCEPT !.tab = "windows"]))
Hide == se' = HideWindow(se)

MoveTo(n) ==
    /\ se.tab = "sessions" /\ Free /\ n \in 1..RowCount(se) /\ n # se.row
    /\ se' = UpdateDisplay([se EXCEPT !.row = n])

(* sessions_on_enter_pressed: a terminal may fail to start. *)
Resume ==
    LET log == SessionAtRow(se, se.row) IN
    /\ se.tab = "sessions" /\ Free /\ log # NoLog /\ SessionOf[log] \notin Fixed
    /\ se' = HideWindow(se)

(* sessions_handle_key: the overlay keeps the log of the row. *)
Ask(what) ==
    LET log == SessionAtRow(se, se.row) IN
    /\ se.tab = "sessions" /\ Free /\ log # NoLog
    /\ what = "rename" => SessionOf[log] \notin Fixed
    /\ se' = [se EXCEPT !.overlay = what, !.about = log]
Dismiss == ~Free /\ se' = Closed(se)

(* sessions_remove_path: the row goes by the log, if it still has it. *)
Validated(s) ==
    IF s.tab = "sessions" /\ s.row > RowCount(s) THEN [s EXCEPT !.row = RowCount(s)] ELSE s
RemovePath(s, log) ==
    LET at == OfLog(s, log)
        t == IF at = {} THEN s ELSE ApplyRefine([s EXCEPT !.results = Dropped(@, Nth(at, 1))])
    IN  UpdateDisplay(Validated(t))
\* Mutant: the search goes on and may bring the deleted log back.
DeleteSearching(ok) ==
    /\ se.overlay = "delete"
    /\ ok => se.about \notin se.deleted
    /\ LET s == IF ok THEN RemovePath([se EXCEPT !.deleted = @ \cup {se.about}], se.about)
                ELSE UpdateDisplay(se)
       IN  se' = Closed(s)

(* perform_session_delete. *)
Delete(ok) ==
    /\ se.overlay = "delete"
    /\ ok => se.about \notin se.deleted
    /\ LET s == IF ok THEN RemovePath([Cancel(se) EXCEPT !.deleted = @ \cup {se.about}], se.about)
                ELSE UpdateDisplay(se)
       IN  se' = Closed(s)

(* handle_session_rename_key_press: the records of the name are appended   *)
(* to the log; sessions_rename_path, sessions_select_path.                 *)
RenamePath(s, log, words) ==
    LET at == OfLog(s, log)
        i == Nth(at, 1)
        r == [s.results[i] EXCEPT !.name = words, !.seen = @ \cup words]
    IN  IF at = {} THEN s
        ELSE ApplyRefine([s EXCEPT !.results[i] = [r EXCEPT !.meta = Metadata(s, r),
                                                            !.matched = @ \cup Metadata(s, r)]])
SelectPath(s, log) ==
    LET at == {n \in DOMAIN s.rows : SessionAtRow(s, n) = log} IN
    IF at = {} THEN Validated(s) ELSE [s EXCEPT !.row = Nth(at, 1)]
Rename(words, ok) ==
    /\ se.overlay = "rename"
    /\ LET s == Closed(se)
       IN  se' = UpdateDisplay(IF ok THEN SelectPath(RenamePath(s, se.about, words), se.about) ELSE s)

-----------------------------------------------------------------------------
(* on_rg_stdout_line: a read of another generation is freed. *)
OnStale(k) ==
    /\ k \in DOMAIN se.reads /\ ~se.reads[k].current
    /\ se' = [se EXCEPT !.reads = Dropped(@, k)]
OnEnd(k) ==     \* the end of the output, or an error
    /\ k \in DOMAIN se.reads /\ se.reads[k].current
    /\ se' = UpdateDisplay([se EXCEPT !.searching = FALSE, !.reads = Dropped(@, k)])
OnLine(k, line) ==
    /\ k \in DOMAIN se.reads /\ se.reads[k].current /\ line.log \in se.reads[k].logs
    /\ line.words \cap Terms[se.reads[k].left] # {}
    /\ LET s == UpdateDisplay(Ingest([se EXCEPT !.lines = @ + 1], line, se.reads[k].left))
           full == s.lines >= MaxLines \/ Len(s.results) >= MaxSessions
       IN  se' = IF full THEN [s EXCEPT !.searching = FALSE, !.reads = Dropped(@, k)] ELSE s

Init == se = [text |-> NoText, tab |-> "windows", left |-> NoLeft, query |-> NoText,
              results |-> <<>>, rows |-> <<>>, row |-> 1, lines |-> 0, searching |-> FALSE,
              reads |-> <<>>, overlay |-> "none", about |-> NoLog, deleted |-> {},
              drawn |-> NothingDrawn]

Next ==
    \/ OpenTab \/ LeaveTab \/ BackToWindows \/ Hide \/ Resume \/ Dismiss
    \/ \E text \in Texts \cup {Elsewhere}, starts \in BOOLEAN : TypeText(text, starts)
    \/ \E n \in 1..MaxSessions : MoveTo(n)
    \/ \E what \in {"rename", "delete"} : Ask(what)
    \/ \E ok \in BOOLEAN : Delete(ok)
    \/ \E words \in Names, ok \in BOOLEAN : Rename(words, ok)
    \/ \E k \in 1..MaxReads : OnStale(k) \/ OnEnd(k)
    \/ \E k \in 1..MaxReads, log \in Logs, words \in SUBSET Words, names \in BOOLEAN :
           OnLine(k, [log |-> log, words |-> words, names |-> names])

Spec == Init /\ [][Next]_se

-----------------------------------------------------------------------------
(* Whatever was typed, left, renamed or deleted while earlier searches went *)
(* on: a search that is shown as running is read, one only; what was found  *)
(* comes from the search in force, once per session; a row has every term,  *)
(* in whichever lines, and no log that was deleted; and the rows are those  *)
(* of the text, drawn as Enter takes them.                                  *)
SearchIsRead ==
    /\ se.searching <=> \E k \in DOMAIN se.reads : se.reads[k].current
    /\ \A j, k \in DOMAIN se.reads : se.reads[j].current /\ se.reads[k].current => j = k
FoundByThis ==
    \A i \in DOMAIN se.results :
        LET r == se.results[i] IN
        /\ r.of \subseteq {se.query.left} /\ r.path \notin se.deleted
        /\ r.matched = Terms[se.query.left] \cap (Label[r.session] \cup r.seen)
        /\ \A j \in DOMAIN se.results : se.results[j].session = r.session => i = j
RowsFit ==
    /\ se.tab = "sessions" /\ se.text.left # NoLeft => se.query = se.text
    /\ {se.rows[n] : n \in DOMAIN se.rows} = Fitting(se)
    /\ \A m, n \in DOMAIN se.rows : m < n => Before(se, se.rows[m], se.rows[n])
    /\ se.tab = "sessions" => se.drawn.row = se.row /\ DOMAIN se.drawn.logs = DOMAIN se.rows
            /\ \A n \in DOMAIN se.rows : se.drawn.logs[n] = SessionAtRow(se, n)
SessionsAgree == SearchIsRead /\ FoundByThis /\ RowsFit
=============================================================================
