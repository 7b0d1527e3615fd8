-------------------------- MODULE WorkspaceRipple --------------------------
(* The ring drawn round the window that becomes active by a switch of      *)
(* workspace (src/src/x11/x11_events.c, src/src/ui/window_highlight.c).    *)
(* When others switch, the ring waits for the next _NET_ACTIVE_WINDOW or   *)
(* 200 ms; when cofi activates a window it draws the ring at once and      *)
(* keeps the events from drawing another.  The window manager is external: *)
(* it reports both changes of a switch in either order.                    *)
EXTENDS Integers, Sequences

CONSTANTS Win,           \* windows of others, numbers above 1
          Desks,         \* workspaces
          MaxEvents      \* bound: events not yet handled

VARIABLE rp

Nobody == 0
Own == 1                 \* cofi's window
Events == {"active", "desktop"}
ByOthers == {Nobody, Own}

Init == \E on \in BOOLEAN :
            rp = [on |-> on, active |-> Nobody, desk |-> 1, queue |-> <<>>, asked |-> Nobody,
                  state |-> "none", timer |-> FALSE, ring |-> Nobody,
                  ringed |-> Nobody, switched |-> FALSE, stuck |-> FALSE]

(* destroy_highlight, highlight_window; the geometry of a window that goes *)
(* cannot be read.                                                         *)
NoRing(s) == [s EXCEPT !.ring = Nobody]
Ring(s, w) == IF s.on THEN {[NoRing(s) EXCEPT !.ring = r, !.ringed = w] : r \in {w, Nobody}} ELSE {s}
NoTimer(s) == [s EXCEPT !.timer = FALSE]

Room == Len(rp.queue) < MaxEvents

(* The reports of a change, in the order of the window manager. *)
Reports(desk, active) ==
    LET d == IF desk # rp.desk THEN <<"desktop">> ELSE <<>>
        a == IF active # rp.active THEN <<"active">> ELSE <<>>
    IN  {d \o a, a \o d}
Changes(s, desk, active) ==
    {[s EXCEPT !.desk = desk, !.active = active, !.queue = @ \o events] : events \in Reports(desk, active)}

-----------------------------------------------------------------------------
(* Another program or the user switches the workspace or the window. *)
OthersSwitch(desk, active) ==
    /\ Room
    /\ rp' \in Changes([rp EXCEPT !.switched = desk # rp.desk,
                                  !.stuck = rp.state = "suppress"], desk, active)

(* Enter on a window, a slot, :js or the repetition of the last action. *)
CofiActivates(w) ==
    /\ rp.asked = Nobody
    /\ rp' \in Ring([rp EXCEPT !.state = "suppress", !.asked = w, !.switched = FALSE], w)
Granted(desk) ==
    /\ rp.asked # Nobody /\ Room
    /\ rp' \in Changes([rp EXCEPT !.asked = Nobody, !.switched = FALSE], desk, rp.asked)

-----------------------------------------------------------------------------
(* handle_x11_event of _NET_ACTIVE_WINDOW reads who is active now. *)
ActiveChanged ==
    /\ rp.queue # <<>> /\ Head(rp.queue) = "active"
    /\ LET next == [rp EXCEPT !.queue = Tail(@)]
           done == NoTimer([next EXCEPT !.state = "none"])
       IN  IF rp.state = "none" \/ rp.active \in ByOthers THEN rp' = next
           ELSE IF rp.state = "highlight" THEN rp' \in Ring(done, rp.active)
           ELSE rp' = done

\* Mutant: the switch waits for the report alone.
DesktopChangedUntimed ==
    /\ rp.queue # <<>> /\ Head(rp.queue) = "desktop"
    /\ LET next == [rp EXCEPT !.queue = Tail(@)] IN
       rp' = IF rp.state = "suppress" THEN next ELSE NoRing([next EXCEPT !.state = "highlight"])

(* handle_x11_event of _NET_CURRENT_DESKTOP *)
DesktopChanged ==
    /\ rp.queue # <<>> /\ Head(rp.queue) = "desktop"
    /\ LET next == [rp EXCEPT !.queue = Tail(@), !.timer = TRUE] IN
       rp' = IF rp.state = "suppress" THEN next ELSE NoRing([next EXCEPT !.state = "highlight"])

(* workspace_switch_timeout *)
Timeout ==
    /\ rp.timer
    /\ LET done == NoTimer([rp EXCEPT !.state = "none"]) IN
       IF rp.state = "highlight" /\ rp.active \notin ByOthers THEN rp' \in Ring(done, rp.active)
       ELSE rp' = done

(* on_frame_update: the animation is over. *)
RingEnds == rp.ring # Nobody /\ rp' = NoRing(rp)

Next == \/ \E desk \in 1..Desks, active \in Win \cup ByOthers : OthersSwitch(desk, active)
        \/ \E w \in Win : CofiActivates(w)
        \/ \E desk \in 1..Desks : Granted(desk)
        \/ ActiveChanged
        \/ DesktopChanged
        \/ Timeout
        \/ RingEnds

Spec == Init /\ [][Next]_rp

-----------------------------------------------------------------------------
(* Whatever the order of the reports and however late the timer: a ring    *)
(* that waits is never forgotten, and when all is quiet after others have  *)
(* switched the workspace, the last ring was that of the active window,    *)
(* unless nobody or cofi is active or the mark of an activation by cofi    *)
(* was still set.                                                          *)
SwitchIsShown ==
    /\ rp.state = "highlight" => rp.timer
    /\ rp.on /\ rp.switched /\ rp.queue = <<>> /\ ~rp.timer =>
          rp.ringed = rp.active \/ rp.active \in ByOthers \/ rp.stuck
=============================================================================
