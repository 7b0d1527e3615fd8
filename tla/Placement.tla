------------------------------ MODULE Placement ------------------------------
(* Where a window goes: tiling (src/src/geom/tiling.c, tiling_overlay.c),  *)
(* moving to another monitor (src/src/x11/monitor_move.c) and restoring a  *)
(* saved layout (src/src/geom/geometry_planner.c,                          *)
(* window_geometry_matching.c), for one window on a screen of few pixels.  *)
(* A rectangle is what get_window_geometry reads: the position of the      *)
(* frame and the size of the client.  pl.norm is the rectangle of the      *)
(* window when it is not maximized; the window manager is external.        *)
EXTENDS Integers, Sequences, FiniteSetsExt, TLC

CONSTANTS Monitors,      \* sequence of rectangles
          Desktop,       \* _NET_WORKAREA
          Columns,       \* tile_columns
          Desks,         \* workspaces
          Looks,         \* [kind, l, r, t, b, min, max]: decoration and size hints
          Spots,         \* rectangles the user gives the window
          Options,       \* tiles the user asks for
          MaxSteps       \* bound: what happens besides restoring

VARIABLE pl

Rect(x, y, w, h) == [x |-> x, y |-> y, w |-> w, h |-> h]
Larger(a, b) == IF a > b THEN a ELSE b
Smaller(a, b) == IF a < b THEN a ELSE b
Inside(a, b) == /\ a.x >= b.x /\ a.x + a.w <= b.x + b.w
                /\ a.y >= b.y /\ a.y + a.h <= b.y + b.h
Wide == pl.look.l + pl.look.r
High == pl.look.t + pl.look.b
HasFrame == pl.look.kind = "frame"     \* _NET_FRAME_EXTENTS
HasShadow == pl.look.kind = "gtk"      \* only _GTK_FRAME_EXTENTS

(* What the user sees of a window with rectangle g. *)
Visible(g) == CASE HasFrame -> [g EXCEPT !.w = @ + Wide, !.h = @ + High]
                [] HasShadow -> Rect(g.x + pl.look.l, g.y + pl.look.t, g.w - Wide, g.h - High)
                [] OTHER -> g
Fitting(v) == CASE HasFrame -> [v EXCEPT !.w = @ - Wide, !.h = @ - High]
                [] HasShadow -> Rect(v.x - pl.look.l, v.y - pl.look.t, v.w + Wide, v.h + High)
                [] OTHER -> v

(* The monitor that holds the middle, 0 when none does. *)
MonitorAt(g) ==
    LET x == g.x + g.w \div 2
        y == g.y + g.h \div 2
        on == {m \in DOMAIN Monitors : Inside(Rect(x, y, 1, 1), Monitors[m])}
    IN  IF on = {} THEN 0 ELSE Min(on)

Screen == Rect(0, 0, Max({m.x + m.w : m \in Range(Monitors)}), Max({m.y + m.h : m \in Range(Monitors)}))

Common(a, b) ==
    LET x == Larger(a.x, b.x)
        y == Larger(a.y, b.y)
    IN  Rect(x, y, Smaller(a.x + a.w, b.x + b.w) - x, Smaller(a.y + a.h, b.y + b.h) - y)
TargetArea(g) ==
    LET areas == [m \in 0..Len(Monitors) |-> IF m = 0 THEN Screen ELSE Monitors[m]]
    IN  Common(Desktop, areas[MonitorAt(g)])

(* What the window manager makes of the states of the window. *)
Stretched(norm, area, vert, horz) ==
    Rect(IF horz THEN area.x ELSE norm.x, IF vert THEN area.y ELSE norm.y,
         IF horz THEN area.w ELSE norm.w, IF vert THEN area.h ELSE norm.h)
Geometry == IF pl.full THEN Monitors[Larger(1, MonitorAt(pl.norm))]
            ELSE Stretched(pl.norm, Fitting(TargetArea(pl.norm)), pl.vert, pl.horz)

-----------------------------------------------------------------------------
(* calculate_tile_geometry: the part of the work area a tile asks for.     *)
Sides == {"left", "right", "top", "bottom"}
SideSizes == {<<1, 4>>, <<1, 2>>, <<2, 3>>, <<3, 4>>}
Centers == {<<1, 2>>, <<1, 3>>, <<2, 3>>, <<3, 4>>}
Part(n, size) == (n * size[1]) \div size[2]
Rest(n, size) == (n * (size[2] - size[1])) \div size[2]

SideTile(a, side, size) ==
    CASE side = "left" -> [a EXCEPT !.w = Part(a.w, size)]
      [] side = "right" -> [a EXCEPT !.x = @ + Rest(a.w, size), !.w = Part(a.w, size)]
      [] side = "top" -> [a EXCEPT !.h = Part(a.h, size)]
      [] side = "bottom" -> [a EXCEPT !.y = @ + Rest(a.h, size), !.h = Part(a.h, size)]

GridTile(a, position, wide) ==
    LET w == a.w \div Columns
        h == a.h \div 2
    IN  Rect(a.x + ((position - 1) % Columns) * w, a.y + ((position - 1) \div Columns) * h,
             IF wide THEN (w * 3) \div 2 ELSE w, h)

CenterTile(a, size) ==
    LET w == Part(a.w, size)
        h == Part(a.h, size)
    IN  Rect(a.x + (a.w - w) \div 2, a.y + (a.h - h) \div 2, w, h)

TileOf(a, o) == CASE o.kind \in Sides -> SideTile(a, o.kind, o.size)
                  [] o.kind = "center" -> CenterTile(a, o.size)
                  [] OTHER -> GridTile(a, o.at, o.kind = "wide")

AnchorsRight(o) == o.kind = "right" \/ (o.kind = "grid" /\ o.at \in {3, 6, 9})
AnchorsBottom(o) == o.kind = "bottom" \/ (o.kind = "grid" /\ o.at \in {7, 8, 9})

(* ensure_size_hints_satisfied, one axis. *)
Hinted(n) == Smaller(Larger(n, pl.look.min), pl.look.max)

\* Mutant: an anchored window is placed as if it had no frame.
PlacedAtOuter(a, f, o) ==
    LET w == Hinted(IF HasFrame THEN Larger(1, f.w) ELSE f.w)
        h == Hinted(IF HasFrame THEN Larger(1, f.h) ELSE f.h)
    IN  Rect(IF AnchorsRight(o) THEN a.x + a.w - w + (IF HasShadow THEN pl.look.r ELSE 0) ELSE f.x,
             IF AnchorsBottom(o) THEN a.y + a.h - h + (IF HasShadow THEN pl.look.b ELSE 0) ELSE f.y,
             w, h)

(* apply_window_position: the rectangle requested for tile o of area a. *)
PlacedAt(a, f, o) ==
    LET w == Hinted(IF HasFrame THEN Larger(1, f.w) ELSE f.w)
        h == Hinted(IF HasFrame THEN Larger(1, f.h) ELSE f.h)
        frameW == IF HasFrame THEN w + Wide ELSE w
        frameH == IF HasFrame THEN h + High ELSE h
    IN  Rect(IF AnchorsRight(o) THEN a.x + a.w - frameW + (IF HasShadow THEN pl.look.r ELSE 0) ELSE f.x,
             IF AnchorsBottom(o) THEN a.y + a.h - frameH + (IF HasShadow THEN pl.look.b ELSE 0) ELSE f.y,
             w, h)
Placed(a, o) == PlacedAt(a, Fitting(TileOf(a, o)), o)

(* parse_tile_option and the keys of the dialog, which alone looks at the  *)
(* number of positions and alone has the wide tiles and sizes of center.   *)
ByCommand == [kind : Sides, size : SideSizes] \cup [kind : {"grid"}, at : 1..9]
                \cup [kind : {"center"}, size : {<<1, 2>>}]
ByDialog == [kind : Sides, size : SideSizes] \cup [kind : {"grid", "wide"}, at : 1..Smaller(9, Columns * 2)]
                \cup [kind : {"center"}, size : Centers]

-----------------------------------------------------------------------------
NoLayout == [exists |-> FALSE]

Init == \E look \in Looks, spot \in Spots :
            pl = [norm |-> spot, vert |-> FALSE, horz |-> FALSE, full |-> FALSE, desk |-> 1,
                  viewed |-> 1, look |-> look, saved |-> NoLayout, times |-> 0,
                  steps |-> 0]

(* apply_tiling: the monitor is chosen before the window is unmaximized. *)
Tiled(o) == Placed(TargetArea(Geometry), o)
Tile(o) ==
    /\ o \in ByCommand \cup ByDialog
    /\ pl' = [pl EXCEPT !.norm = Tiled(o), !.vert = FALSE, !.horz = FALSE,
                        !.times = 0, !.steps = @ + 1]
Fullscreen == pl' = [pl EXCEPT !.full = ~@, !.times = 0, !.steps = @ + 1]

-----------------------------------------------------------------------------
(* move_window_to_monitor_with_screen; the quotients of doubles are exact  *)
(* for the sizes of the instance.                                          *)
Framed(g) == [g EXCEPT !.w = @ + (IF HasFrame THEN Wide ELSE 0),
                       !.h = @ + (IF HasFrame THEN High ELSE 0)]
Scaled(at, from, to) == (at * to) \div from

NewPlace(f, from, to) ==
    LET dx == f.x - from.x
        dy == f.y - from.y
        clamped(d, n) == Smaller(n, Larger(0, d))
        x == to.x + Scaled(clamped(dx, from.w), from.w, to.w)
        y == to.y + Scaled(clamped(dy, from.h), from.h, to.h)
    IN  IF pl.vert \/ pl.horz
        THEN [x |-> IF 100 * dx < from.w THEN to.x
                    ELSE IF 100 * dx > 99 * from.w THEN to.x + to.w - f.w
                    ELSE to.x + Scaled(dx, from.w, to.w),
              y |-> to.y + Scaled(dy, from.h, to.h)]
        ELSE [x |-> Larger(to.x, Smaller(x, to.x + to.w - f.w)),
              y |-> Larger(to.y, Smaller(y, to.y + to.h - f.h))]

MovedFrom(f, here, m) ==
    IF here = m THEN pl.norm ELSE NewPlace(f, Monitors[here], Monitors[m]) @@ pl.norm
MovedTo(f, m) == MovedFrom(f, Larger(1, MonitorAt(f)), m)
MoveTo(m) == pl' = [pl EXCEPT !.norm = MovedTo(Framed(Geometry), m), !.times = 0, !.steps = @ + 1]

(* :tm names a monitor, or takes the one after that of the client area. *)
ToMonitor(m) == ~pl.full /\ MoveTo(m)
NextMonitor == /\ ~pl.full /\ Len(Monitors) > 1
               /\ MoveTo((Larger(1, MonitorAt(Geometry)) % Len(Monitors)) + 1)

-----------------------------------------------------------------------------
(* Saved layouts. *)
SaveLayout ==
    pl' = [pl EXCEPT !.saved = [exists |-> TRUE, at |-> Geometry, desk |-> pl.desk, vert |-> pl.vert,
                                horz |-> pl.horz, full |-> pl.full, lock |-> TRUE],
                     !.times = 0, !.steps = @ + 1]
ToggleLock == /\ pl.saved.exists
              /\ pl' = [pl EXCEPT !.saved.lock = ~@, !.times = 0, !.steps = @ + 1]

(* apply_window_geometry_restore carries out geometry_restore_plan, whose  *)
(* decisions are all taken from the state before the first of its steps.   *)
Restored ==
    LET t == pl.saved
        desk == IF t.lock THEN t.desk ELSE pl.desk
        unset == (pl.vert /\ ~t.vert) \/ (pl.horz /\ ~t.horz)
        move == t.at # Geometry /\ ~t.full /\ ~(t.vert /\ t.horz)
    IN  [pl EXCEPT !.full = t.full,
                   !.vert = IF @ THEN ~unset ELSE t.vert,
                   !.horz = IF @ THEN ~unset ELSE t.horz,
                   !.norm = IF move THEN t.at ELSE @,
                   !.desk = desk,
                   !.viewed = IF desk # @ THEN t.desk ELSE @,
                   !.times = Smaller(2, @ + 1)]
RestoreLayout == pl.saved.exists /\ pl' = Restored

-----------------------------------------------------------------------------
(* The user and other programs. *)
Drag(spot) == /\ ~pl.full /\ ~pl.vert /\ ~pl.horz
              /\ pl' = [pl EXCEPT !.norm = spot, !.times = 0, !.steps = @ + 1]
Maximize(v, h) == pl' = [pl EXCEPT !.vert = v, !.horz = h, !.times = 0, !.steps = @ + 1]
SendTo(d) == pl' = [pl EXCEPT !.desk = d, !.times = 0, !.steps = @ + 1]
View(d) == pl' = [pl EXCEPT !.viewed = d, !.times = 0, !.steps = @ + 1]

Step == \/ \E o \in Options : Tile(o)
        \/ Fullscreen
        \/ \E m \in DOMAIN Monitors : ToMonitor(m)
        \/ NextMonitor
        \/ SaveLayout
        \/ ToggleLock
        \/ \E spot \in Spots : Drag(spot)
        \/ \E v, h \in BOOLEAN : Maximize(v, h)
        \/ \E d \in 1..Desks : SendTo(d) \/ View(d)

Next == RestoreLayout \/ (pl.steps < MaxSteps /\ Step)

Spec == Init /\ [][Next]_pl

-----------------------------------------------------------------------------
TileFits(a, t, v, o) ==
    LET next == IF o.at % Columns = 0 THEN a.x + a.w ELSE t.x + t.w IN
    CASE o.kind \in Sides /\ v.w <= a.w /\ v.h <= a.h ->
             /\ Inside(v, a)
             /\ o.kind = "right" => v.x + v.w = a.x + a.w
             /\ o.kind = "bottom" => v.y + v.h = a.y + a.h
             /\ o.kind \in {"left", "top"} => v.x = a.x /\ v.y = a.y
      [] o.kind = "grid" /\ v.w <= t.w /\ v.h <= t.h -> Inside(v, [t EXCEPT !.w = next - t.x])
      [] o.kind = "center" /\ v.w <= t.w /\ v.h <= t.h -> Inside(v, t)
      [] OTHER -> TRUE
AllTilesFit(a) == \A o \in ByDialog : TileFits(a, TileOf(a, o), Visible(Placed(a, o)), o)

MoveFits(f, m) ==
    ~pl.vert /\ ~pl.horz /\ ~pl.full /\ f.w <= Monitors[m].w /\ f.h <= Monitors[m].h
        => \/ Inside([f EXCEPT !.x = MovedTo(f, m).x, !.y = MovedTo(f, m).y], Monitors[m])
           \/ MonitorAt(f) \in {0, m}

(* Whatever decoration and size hints a window has and wherever it was: a  *)
(* tile lies in the work area of the monitor the window was on, at its     *)
(* side or in its cell, as far as the size hints leave room; a window sent *)
(* to a monitor lies within it when it fits; a window whose saved layout   *)
(* is restored again has the states of the layout, its place unless the    *)
(* window manager has it, and its workspace if that is locked.             *)
WindowLands ==
    /\ ~pl.saved.exists => /\ AllTilesFit(TargetArea(Geometry))
                           /\ \A m \in DOMAIN Monitors : MoveFits(Framed(Geometry), m)
    /\ pl.times = 2 =>
          LET t == pl.saved IN
          /\ pl.vert = t.vert /\ pl.horz = t.horz /\ pl.full = t.full
          /\ t.full \/ (t.vert /\ t.horz) \/ Geometry = t.at
          /\ t.lock => pl.desk = t.desk /\ pl.viewed = t.desk
==============================================================================
