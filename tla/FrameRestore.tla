---------------------------- MODULE FrameRestore ----------------------------
(* The layout of a window is restored 150 ms after the window manager last *)
(* set _NET_FRAME_EXTENTS (src/src/x11/frame_extents_restore.c): a timer   *)
(* per window, replaced by the next event of that window.  A timer is a    *)
(* number; its context is a record that the code allocates and frees.      *)
EXTENDS Integers, FiniteSets, FiniteSetsExt

CONSTANTS Win,           \* windows
          MaxTimers      \* bound: timers started

VARIABLE fr

None == 0
Live == 1..fr.started
Listed(w) == w \in fr.listed

Init == fr = [listed |-> Win, table |-> [w \in Win |-> None], started |-> 0,
              windowOf |-> [n \in 1..MaxTimers |-> CHOOSE w \in Win : TRUE],
              sources |-> {}, freed |-> {}, running |-> TRUE,
              restored |-> {}, dropped |-> {}]

\* Mutant: the earlier timer is freed and not removed.
FrameExtentsBoth(w) ==
    /\ fr.running /\ fr.started < MaxTimers
    /\ IF ~Listed(w) THEN fr' = fr
       ELSE LET old == {fr.table[w]} \ {None}
                new == fr.started + 1
            IN  fr' = [fr EXCEPT !.started = new, !.windowOf[new] = w, !.table[w] = new,
                                 !.sources = @ \cup {new}, !.freed = @ \cup old]

(* handle_net_frame_extents_property *)
FrameExtents(w) ==
    /\ fr.running /\ fr.started < MaxTimers
    /\ IF ~Listed(w) THEN fr' = fr
       ELSE LET old == {fr.table[w]} \ {None}
                new == fr.started + 1
            IN  fr' = [fr EXCEPT !.started = new, !.windowOf[new] = w, !.table[w] = new,
                                 !.sources = (@ \ old) \cup {new}, !.freed = @ \cup old]

(* deferred_restore_cb *)
Fires(n) ==
    /\ n \in fr.sources
    /\ LET w == fr.windowOf[n]
           current == fr.table[w] = n
           done == [fr EXCEPT !.sources = @ \ {n}, !.freed = @ \cup {n}]
       IN  fr' = IF ~current THEN done
                 ELSE IF Listed(w) THEN [done EXCEPT !.table[w] = None, !.restored = @ \cup {n}]
                 ELSE [done EXCEPT !.table[w] = None, !.dropped = @ \cup {n}]

(* The window list is read again; a number may come back for a new window. *)
ListChanges(S) == fr.running /\ fr' = [fr EXCEPT !.listed = S]

(* cleanup_frame_extents_restore_timeouts, at the end of the program. *)
Cleanup ==
    /\ fr.running
    /\ LET pending == {fr.table[w] : w \in Win} \ {None} IN
       fr' = [fr EXCEPT !.running = FALSE, !.sources = @ \ pending, !.freed = @ \cup pending,
                        !.table = [w \in Win |-> None]]

Next == \/ \E w \in Win : FrameExtents(w)
        \/ \E n \in fr.sources : Fires(n)
        \/ \E S \in SUBSET Win : ListChanges(S)
        \/ Cleanup

Spec == Init /\ [][Next]_fr

-----------------------------------------------------------------------------
TimersOf(w) == {n \in Live : fr.windowOf[n] = w}

(* Whatever fires, comes and goes in between: no timer holds a context     *)
(* that is freed and no context is lost; a window has at most one timer,   *)
(* and while the program runs the last change of a window is waited for,   *)
(* or its layout was restored, or the window was gone by then; nothing is  *)
(* waited for after the cleanup.                                           *)
RestoresLast ==
    /\ fr.sources \cap fr.freed = {} /\ fr.sources \cup fr.freed = Live
    /\ \A w \in Win : Cardinality(TimersOf(w) \cap fr.sources) <= 1
    /\ fr.running => \A w \in Win : TimersOf(w) # {} =>
                        Max(TimersOf(w)) \in fr.sources \cup fr.restored \cup fr.dropped
    /\ fr.running \/ fr.sources = {}
=============================================================================
