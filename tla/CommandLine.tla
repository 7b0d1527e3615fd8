---------------------------- MODULE CommandLine ----------------------------
(* The two entries that take a line: the command line (src/src/commands/   *)
(* command_mode.c) with its history, its completion and its help pages,    *)
(* and the run modal (src/src/run/run_provider.c, run_mode.c), whose rows  *)
(* are its history.  What a line does is elsewhere; here it fails, leaves  *)
(* the mode or shows a page.                                               *)
EXTENDS Integers, Sequences, FiniteSets, Places

CONSTANTS Names,        \* names and aliases of commands, numbered as candidate_cmp sorts them
          Others,       \* other lines, numbers after Names; 0 is the empty line
          Spaced,       \* the lines with a space
          Begins,       \* what a line is the beginning of, as is_verb_prefix admits it
          MaxCandidates,\* COMMAND_CANDIDATE_DISPLAY_MAX
          MaxHistory,   \* the length of either history
          HelpLines, PageLines,
          MaxRun        \* bound: lines executed

VARIABLE cl

Empty == 0
Lines == Names \cup Others
AtMost(n, most) == IF n < most THEN n ELSE most

-----------------------------------------------------------------------------
(* command_update_candidates: shortest first, the first is highlighted. *)
Candidates(line) ==
    IF line \notin DOMAIN Begins THEN <<>>
    ELSE [n \in 1..AtMost(Cardinality(Begins[line]), MaxCandidates) |-> Nth(Begins[line], n)]

(* gtk_entry_set_text, and what on_entry_changed does of it. *)
WithLine(s, line) ==
    IF s.mode # "command" \/ s.line = line THEN [s EXCEPT !.line = line]
    ELSE [s EXCEPT !.line = line, !.cands = Candidates(line), !.light = 1]

ClearCommandLine(s) == [WithLine(s, Empty) EXCEPT !.at = 0]

(* add_to_history and add_run_history_entry. *)
Remembered(history, line) ==
    IF line = Empty \/ (history # <<>> /\ history[1] = line) THEN history
    ELSE SubSeq(<<line>> \o history, 1, AtMost(Len(history) + 1, MaxHistory))

EnterCommandMode(s) == WithLine([s EXCEPT !.mode = "command", !.offset = 0], Empty)

\* Mutant: the position in the history is kept.
ExitCommandModeThere(s) ==
    IF s.mode # "command" THEN s
    ELSE WithLine([s EXCEPT !.mode = "normal", !.help = FALSE, !.offset = 0,
                            !.cands = <<>>, !.light = 1, !.edited = FALSE], Empty)

ExitCommandMode(s) ==
    IF s.mode # "command" THEN s
    ELSE WithLine([s EXCEPT !.mode = "normal", !.help = FALSE, !.offset = 0, !.at = 0,
                            !.cands = <<>>, !.light = 1, !.edited = FALSE], Empty)

(* show_help_commands, and show_error_in_display, which leaves the offset. *)
ShowHelp(s) == [s EXCEPT !.help = TRUE, !.offset = 0]
ShowError(s) == [s EXCEPT !.help = TRUE]

-----------------------------------------------------------------------------
(* Keys in command mode. *)
InCommand == cl.mode = "command"

Colon == cl.mode = "normal" /\ cl' = EnterCommandMode(cl)
Escape == InCommand /\ cl' = ExitCommandMode(cl)
Type(line) == InCommand /\ line # cl.line /\ cl' = [WithLine(cl, line) EXCEPT !.edited = TRUE]

(* render_help_page: the offset is kept within the text. *)
HelpKey(to) ==
    LET last == IF HelpLines > PageLines THEN HelpLines - PageLines ELSE 0
    IN  /\ InCommand /\ cl.help
        /\ cl' = [cl EXCEPT !.offset = IF to < 0 THEN 0 ELSE IF to > last THEN last ELSE to]
PageKeys ==
    \E to \in {cl.offset - 1, cl.offset + 1, cl.offset - PageLines, cl.offset + PageLines,
               0, HelpLines} : HelpKey(to)

Browsed(s, n) == [WithLine([s EXCEPT !.at = n], s.history[n]) EXCEPT !.edited = FALSE]
Up ==
    /\ InCommand /\ ~cl.help /\ cl.history # <<>>
    /\ cl' = Browsed(cl, IF cl.at < Len(cl.history) THEN cl.at + 1 ELSE cl.at)
Down ==
    /\ InCommand /\ ~cl.help /\ cl.at > 0
    /\ cl' = IF cl.at > 1 THEN Browsed(cl, cl.at - 1) ELSE ClearCommandLine(cl)
CtrlU == InCommand /\ cl' = ClearCommandLine(cl)

Highlight(by) ==
    /\ InCommand /\ cl.cands # <<>>
    /\ cl' = [cl EXCEPT !.light = ((cl.light - 1 + by) % Len(cl.cands)) + 1]

(* Enter: what is run, and what its handler does to the mode. *)
Chosen == IF cl.cands # <<>> /\ cl.line \notin Spaced THEN cl.cands[cl.light] ELSE cl.line
Handled(s, how) ==
    CASE how = "help"  -> ClearCommandLine(ShowHelp(s))
      [] how = "error" -> ClearCommandLine(ShowError(s))
      [] how = "fails" -> ClearCommandLine(s)
      [] how = "done"  -> ExitCommandMode(s)
      [] how = "left"  -> ClearCommandLine(ExitCommandMode(s))
Enter ==
    /\ InCommand /\ Len(cl.ran) < MaxRun
    /\ LET s == [cl EXCEPT !.history = Remembered(@, Chosen),
                           !.ran = IF Chosen = Empty THEN @ ELSE Append(@, Chosen)]
       IN  \E how \in {"help", "error", "fails", "done", "left"} :
               /\ Chosen = Empty => how = "done"
               /\ cl' = Handled(s, how)

-----------------------------------------------------------------------------
(* The run modal: every row is a line of its history, and the selected one *)
(* is put into the entry when the selection moves.                         *)
InRun == cl.mode = "run"
Exclamation ==
    /\ cl.mode \in {"normal", "command"}
    /\ cl' = [ExitCommandMode(cl) EXCEPT !.mode = "run", !.line = Empty, !.row = 1, !.edited = TRUE]
LeaveRun(s) == [s EXCEPT !.mode = "normal", !.line = Empty, !.row = 1, !.edited = FALSE]

RunType(line) == InRun /\ cl' = [cl EXCEPT !.line = line, !.edited = TRUE]
SelectRow(by) ==
    /\ InRun /\ cl.runs # <<>>
    /\ LET n == ((cl.row - 1 + by) % Len(cl.runs)) + 1
       IN  cl' = [cl EXCEPT !.row = n, !.line = cl.runs[n], !.edited = FALSE]
RunEscape ==
    /\ InRun
    /\ cl' = IF cl.line # Empty THEN [cl EXCEPT !.line = Empty, !.edited = TRUE] ELSE LeaveRun(cl)

(* A typed line is remembered when it could be started, a row chosen with  *)
(* an empty entry stays where it is.                                       *)
RunEnter ==
    /\ InRun /\ Len(cl.launched) < MaxRun
    /\ \/ /\ cl.line # Empty
          /\ cl' = LeaveRun([cl EXCEPT !.runs = Remembered(@, cl.line),
                                       !.launched = Append(@, cl.line)])
       \/ cl.line = Empty /\ cl.row <= Len(cl.runs) /\ cl' = LeaveRun(cl)

Init == cl = [mode |-> "normal", line |-> Empty, edited |-> FALSE, history |-> <<>>, at |-> 0,
              cands |-> <<>>, light |-> 1, help |-> FALSE, offset |-> 0, ran |-> <<>>,
              runs |-> <<>>, row |-> 1, launched |-> <<>>]

Next ==
    \/ Colon \/ Escape \/ Up \/ Down \/ CtrlU \/ Enter \/ PageKeys
    \/ \E line \in Lines \cup {Empty} : Type(line) \/ RunType(line)
    \/ \E by \in {1, -1} : Highlight(by) \/ SelectRow(by)
    \/ Exclamation \/ RunEscape \/ RunEnter

Spec == Init /\ [][Next]_cl

-----------------------------------------------------------------------------
(* A history is the last lines that were run, newest first, of equal lines *)
(* in a row only the last.                                                 *)
Changes(ran) == {n \in DOMAIN ran : n = Len(ran) \/ ran[n + 1] # ran[n]}
Since(ran, n) == Cardinality({m \in Changes(ran) : m >= n})
IsRecent(history, ran) ==
    /\ \A n \in 1..(Len(history) - 1) : history[n] # history[n + 1]
    /\ Len(history) = AtMost(Cardinality(Changes(ran)), MaxHistory)
    /\ \A n \in Changes(ran) : Since(ran, n) <= MaxHistory => history[Since(ran, n)] = ran[n]

(* Whatever is typed, completed, recalled, run, failed, left and entered   *)
(* again: the histories are recent; a line that was recalled and not       *)
(* edited is the one the position says, so that Up and Down go on from it; *)
(* Enter runs a completion of what is in the entry; a help page is full.   *)
LineAgrees ==
    /\ IsRecent(cl.history, cl.ran) /\ IsRecent(cl.runs, cl.launched)
    /\ InCommand /\ cl.at > 0 /\ ~cl.edited => cl.line = cl.history[cl.at]
    /\ InCommand => cl.cands = Candidates(cl.line) /\ (cl.cands # <<>> => cl.light \in DOMAIN cl.cands)
    /\ InRun /\ ~cl.edited => cl.row \in DOMAIN cl.runs /\ cl.line = cl.runs[cl.row]
    /\ ~InCommand => cl.at = 0 /\ ~cl.help
    /\ cl.offset = 0 \/ cl.offset + PageLines <= HelpLines
=============================================================================
