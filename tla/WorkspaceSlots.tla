--------------------------- MODULE WorkspaceSlots ---------------------------
(* The numbers of the windows of the current workspace                     *)
(* (src/src/harpoon/workspace_slots.c) and the labels that show them       *)
(* (src/src/ui/slot_overlay.c): which windows are visible enough, in which *)
(* order they are numbered, and how long the labels stay.                  *)
(* A window has an outer rectangle and its content without the             *)
(* decoration; coordinates are those of a small screen.                    *)
EXTENDS Integers, Sequences, FiniteSets, SequencesExt, FiniteSetsExt

CONSTANTS Ids,           \* windows
          Geometry,      \* sequence of [outer : rectangle, content : rectangle]
          Clips,         \* sequence of disjoint rectangles: monitors in the work area
          Percent,       \* slot_occlusion_threshold_pct
          MinDim,        \* MIN_VISIBLE_DIM_PX
          Threshold,     \* ROW_THRESHOLD
          MaxSlots       \* MAX_WORKSPACE_SLOTS

VARIABLE ws

Places == DOMAIN Geometry
Elsewhere == 0           \* another workspace, hidden, shaded, or gone

Outer(w) == Geometry[ws.place[w]].outer
Content(w) == Geometry[ws.place[w]].content

-----------------------------------------------------------------------------
(* Rectangles, [x1, y1, x2, y2] with x2 and y2 exclusive. *)
Lower(a, b) == IF a < b THEN a ELSE b
Upper(a, b) == IF a > b THEN a ELSE b
RectArea(r) == IF r.x2 > r.x1 /\ r.y2 > r.y1 THEN (r.x2 - r.x1) * (r.y2 - r.y1) ELSE 0
RectIntersect(a, b) == [x1 |-> Upper(a.x1, b.x1), y1 |-> Upper(a.y1, b.y1),
                        x2 |-> Lower(a.x2, b.x2), y2 |-> Lower(a.y2, b.y2)]
NonEmpty(rects) == SelectSeq(rects, LAMBDA r : RectArea(r) > 0)

\* Mutant: the strip on the left goes on under b.
RectSubtractBeside(a, b) ==
    LET i == RectIntersect(a, b) IN
    IF RectArea(i) = 0 THEN <<a>>
    ELSE NonEmpty(<<[a EXCEPT !.x2 = i.x2], [a EXCEPT !.x1 = i.x2],
                    [i EXCEPT !.y1 = a.y1, !.y2 = i.y1], [i EXCEPT !.y1 = i.y2, !.y2 = a.y2]>>)

(* rect_subtract: left, right, top and bottom strip of a around b. *)
RectSubtract(a, b) ==
    LET i == RectIntersect(a, b) IN
    IF RectArea(i) = 0 THEN <<a>>
    ELSE NonEmpty(<<[a EXCEPT !.x2 = i.x1], [a EXCEPT !.x1 = i.x2],
                    [i EXCEPT !.y1 = a.y1, !.y2 = i.y1], [i EXCEPT !.y1 = i.y2, !.y2 = a.y2]>>)

SubtractAll(rects, b) == FlattenSeq([n \in DOMAIN rects |-> RectSubtract(rects[n], b)])

-----------------------------------------------------------------------------
(* Which windows are seen. *)
Candidates == {w \in Ids : ws.place[w] # Elsewhere}
StackPos(w) == SelectInSeq(ws.stack, LAMBDA v : v = w) - 1

(* The windows above w in the stacking order, in the order of the list. *)
Occluders(w) ==
    SetToSortSeq({v \in Candidates \ {w} : StackPos(w) >= 0 /\ StackPos(v) > StackPos(w)}, <)

(* compute_visible_fraction_and_overlay_center_for_clips: what is left of  *)
(* the outer rectangle, cut down to the content and to the monitors.       *)
Fragments(w) ==
    LET left == FoldLeft(LAMBDA rects, v : SubtractAll(rects, Outer(v)),
                         <<Outer(w)>>, Occluders(w))
        inside == NonEmpty([n \in DOMAIN left |-> RectIntersect(left[n], Content(w))])
        cut(r) == IF Clips = <<>> THEN <<r>> ELSE [c \in DOMAIN Clips |-> RectIntersect(r, Clips[c])]
    IN  NonEmpty(FlattenSeq([n \in DOMAIN inside |-> cut(inside[n])]))

SumOfAreas(rects) == FoldLeft(LAMBDA sum, r : sum + RectArea(r), 0, rects)
Largest(rects) == rects[CHOOSE n \in DOMAIN rects :
    /\ \A m \in DOMAIN rects : RectArea(rects[m]) <= RectArea(rects[n])
    /\ \A m \in 1..(n - 1) : RectArea(rects[m]) < RectArea(rects[n])]

Enough(area, w) == area * 100 >= Percent * RectArea(Content(w))

LargeEnough(r, w) ==
    Enough(RectArea(r), w) /\ r.x2 - r.x1 >= MinDim /\ r.y2 - r.y1 >= MinDim
IsShown(w, seen) ==
    seen # <<>> /\ Enough(SumOfAreas(seen), w) /\ LargeEnough(Largest(seen), w)

(* assign_column_indices: a column starts where a left edge is more than   *)
(* the threshold right of the first of the column before.                  *)
ColumnOf(x, edges) ==
    LET Start[n \in Nat] ==
            IF n = 0 THEN Min(edges)
            ELSE LET right == {e \in edges : e > Start[n - 1] + Threshold}
                 IN  IF right = {} THEN Max(edges) + 1 ELSE Min(right)
    IN  CHOOSE n \in 0..Cardinality(edges) : Start[n] <= x /\ x < Start[n + 1]

(* sort_by_column (by rows: the same with x and y swapped). *)
SortByColumn(order, at) ==
    LET edges == {at[w].x1 : w \in Range(order)}
        column(w) == ColumnOf(at[w].x1, edges)
    IN  \A i, j \in DOMAIN order : i < j =>
            \/ column(order[i]) < column(order[j])
            \/ column(order[i]) = column(order[j]) /\ at[order[i]].y1 <= at[order[j]].y1

Shown == {w \in Candidates : IsShown(w, Fragments(w))}

-----------------------------------------------------------------------------
(* The labels. *)
DestroyOverlays(s) == [s EXCEPT !.overlays = {}, !.timer = FALSE]

(* show_slot_overlays: off, it leaves what is there. *)
ShowOverlays(s) ==
    IF ~s.enabled THEN s
    ELSE IF s.slots = <<>> THEN DestroyOverlays(s)
    ELSE [s EXCEPT !.timer = TRUE, !.overlays = DOMAIN s.slots]

Numbered(order) == SubSeq(order, 1, Lower(MaxSlots, Len(order)))

(* assign_workspace_slots.  Windows at the same place are numbered in an   *)
(* order that qsort does not fix.                                          *)
Assigned(s, order) == ShowOverlays([s EXCEPT !.slots = Numbered(order), !.fresh = TRUE])
Orders ==
    LET at == [w \in Shown |-> Largest(Fragments(w))]
    IN  {order \in SetToSeqs(DOMAIN at) : SortByColumn(order, at)}

Assign == \E order \in Orders : ws' = Assigned(ws, order)

(* Alt+digit of the per-workspace mode and :jump-slot: numbers are         *)
(* assigned anew and the window is activated; after Alt+digit, hide_window *)
(* takes the labels away.                                                  *)
Raised(stack, w) == IF stack = <<>> THEN stack ELSE Append(SelectSeq(stack, LAMBDA v : v # w), w)
Jump ==
    \E order \in Orders, hides \in BOOLEAN : \E n \in DOMAIN Numbered(order) :
        LET done == [Assigned(ws, order) EXCEPT !.stack = Raised(@, Numbered(order)[n]),
                                                !.slots = <<>>, !.fresh = FALSE]
        IN  ws' = IF hides THEN DestroyOverlays(done) ELSE done

(* destroy_overlays_timeout *)
OverlayTimeout == ws.timer /\ ws' = DestroyOverlays(ws)

(* The window manager, and :set slot-overlay-duration.  The numbers are    *)
(* not read again before they are assigned again.                          *)
Move(w, p) == ws.place[w] # p /\ ws' = [ws EXCEPT !.place[w] = p, !.slots = <<>>, !.fresh = FALSE]
SetDuration == ws' = [ws EXCEPT !.enabled = ~@]

Init ==
    \E stack \in {<<>>, SetToSortSeq(Ids, <)} :
        ws = [place |-> [w \in Ids |-> Elsewhere], stack |-> stack, slots |-> <<>>, fresh |-> FALSE,
              overlays |-> {}, timer |-> FALSE, enabled |-> TRUE]

Next ==
    \/ Assign \/ Jump \/ OverlayTimeout \/ SetDuration
    \/ \E w \in Ids, p \in Places \cup {Elsewhere} : Move(w, p)

Spec == Init /\ [][Next]_ws

-----------------------------------------------------------------------------
(* Cells of the screen, counted one by one: what the subtraction of        *)
(* rectangles is to compute.                                               *)
Covers(r, c) == c[1] \in r.x1..(r.x2 - 1) /\ c[2] \in r.y1..(r.y2 - 1)
CellsSeen(w) ==
    LET r == Content(w) IN
    {c \in (r.x1..(r.x2 - 1)) \X (r.y1..(r.y2 - 1)) :
        /\ Covers(Outer(w), c)
        /\ Clips = <<>> \/ \E n \in DOMAIN Clips : Covers(Clips[n], c)
        /\ \A v \in Range(Occluders(w)) : ~Covers(Outer(v), c)}

(* A number is given only to a window of this workspace of which enough is *)
(* to be seen, to every one that nothing covers, and once; windows that    *)
(* stand apart are numbered from left to right; and no label is on the     *)
(* screen without the timer that takes it away.                            *)
SeenAreNumbered ==
    ws.fresh =>
        /\ \A n \in DOMAIN ws.slots : ws.slots[n] \in Candidates /\ Enough(Cardinality(CellsSeen(ws.slots[n])), ws.slots[n])
        /\ \A n, m \in DOMAIN ws.slots : ws.slots[n] = ws.slots[m] => n = m
        /\ \A w \in Candidates : Cardinality(CellsSeen(w)) = RectArea(Content(w))
               => w \in Range(ws.slots) \/ Len(ws.slots) = MaxSlots
        /\ \A n, m \in DOMAIN ws.slots :
               LET edge(k) == Min({c[1] : c \in CellsSeen(ws.slots[k])})
                   whole(k) == Cardinality(CellsSeen(ws.slots[k])) = RectArea(Content(ws.slots[k]))
               IN  whole(n) /\ whole(m) /\ edge(n) + Threshold < edge(m) => n < m
LabelsEnd == ws.overlays # {} => ws.timer
SlotsFitTheScreen == SeenAreNumbered /\ LabelsEnd
=============================================================================
