---------------------------- MODULE ViewerGeometry ----------------------------
(***************************************************************************)
(* Where the pointer goes.  The viewer fits the remote desktop, or the     *)
(* monitors its user has picked side by side, into its widget; what it     *)
(* paints where, and which place on the desktop a position of the pointer  *)
(* stands for, are two computations with roundings of their own.  The      *)
(* server turns the place, a fraction of the screen, into a pixel again.   *)
(*                                                                         *)
(* Fractions are kept exact, as an integer over a product of sizes; the    *)
(* code's floats stand for them.  The physical pixels sent besides         *)
(* (server_x, server_y) are left out: nothing on the server reads them.    *)
(***************************************************************************)
EXTENDS Naturals, Integers, Sequences, FiniteSetsExt

CONSTANTS
  Desktops,  \* layouts of monitors
  Widgets    \* sizes of the viewer's widget

Region == [x : Nat, y : Nat, w : Nat \ {0}, h : Nat \ {0}]
Size == [w : Nat \ {0}, h : Nat \ {0}]

ASSUME GeometryAssumption ==
  /\ Desktops \subseteq Seq(Region) \ {<<>>}
  /\ Widgets \subseteq Size

VARIABLES
  desktop,   \* the monitors of the server's desktop
  captured,  \* what the server captures of it
  injects,   \* the injector's screen_width, screen_height
  remote,    \* the viewer's _remote_width, _remote_height
  regions,   \* _monitor_regions, <<>> for all
  widget,    \* the widget's size
  fit        \* _scale_x, _scale_y, _offset_x, _offset_y

geometryVars == <<desktop, captured, injects, remote, regions, widget, fit>>

SizeOf(r) == [w |-> r.w, h |-> r.h]
Whole(d) ==
  [x |-> 0, y |-> 0, w |-> Max({d[i].x + d[i].w : i \in 1..Len(d)}),
   h |-> Max({d[i].y + d[i].h : i \in 1..Len(d)})]

\* The sums of the first 0, 1, 2, ... of some numbers.
Sums(ns) == LET s[n \in 0..Len(ns)] == IF n = 0 THEN 0 ELSE s[n - 1] + ns[n] IN s

\* The widths of monitors side by side, up to each of them.
Widths(rs) == Sums([i \in 1..Len(rs) |-> rs[i].w])

\* The monitors picked, side by side (set_monitor_regions).
Composite(rs) == [w |-> Widths(rs)[Len(rs)], h |-> Max({rs[i].h : i \in 1..Len(rs)})]

\* _update_scaling: `of` is shown as `as`, the scale is their quotient.
Fitted(rs, r, v) ==
  LET src == IF rs = <<>> THEN r ELSE Composite(rs)
      as == IF v.w * src.h > v.h * src.w
            THEN [w |-> (v.h * src.w) \div src.h, h |-> v.h]
            ELSE [w |-> v.w, h |-> (v.w * src.h) \div src.w] IN
  [of |-> src, as |-> as, left |-> (v.w - as.w) \div 2, top |-> (v.h - as.h) \div 2]
UpdateScaling == fit' = Fitted(regions', remote', widget')

GeometryInit ==
  \E d \in Desktops : \E start \in {Whole(d), d[1]} :
    /\ desktop = d /\ captured = start
    /\ injects = SizeOf(start) /\ remote = SizeOf(start)
    /\ regions = <<>>
    /\ widget \in Widgets
    /\ fit = Fitted(regions, remote, widget)

\* A hello after a reconnect: the size captured by then.
SetRemoteSize ==
  /\ remote' = SizeOf(captured)
  /\ UNCHANGED <<desktop, captured, injects, regions, widget>> /\ UpdateScaling

\* Ticks in the monitor selector: the server is asked for the whole desktop.
\* All of them ticked is like none.
SetMonitorRegions ==
  /\ captured' = Whole(desktop)
  /\ \E picked \in (SUBSET (1..Len(desktop))) \ {1..Len(desktop)} :
       \E ids \in [1..Cardinality(picked) -> picked] :
         /\ \A i \in DOMAIN ids : \A j \in 1..(i - 1) : ids[j] < ids[i]
         /\ regions' = [i \in DOMAIN ids |-> desktop[ids[i]]]
  /\ UNCHANGED <<desktop, injects, remote, widget>> /\ UpdateScaling

Resize ==
  widget' \in Widgets /\ UNCHANGED <<desktop, captured, injects, remote, regions>>
    /\ UpdateScaling

GeometryNext == SetRemoteSize \/ SetMonitorRegions \/ Resize
-----------------------------------------------------------------------------
(* What is painted (paintEvent).                                           *)

\* Of a length from a at scale b/c, in whole pixels.
Scaled(a, b, c) == (a * b) \div c

\* The rectangle of the widget a picture is painted in, and what of it.
Pictures ==
  IF regions = <<>>
  THEN <<[x |-> fit.left, w |-> fit.as.w, h |-> fit.as.h,
          of |-> [x |-> 0, y |-> 0, w |-> captured.w, h |-> captured.h]]>>
  ELSE LET wide == [i \in 1..Len(regions) |-> Scaled(regions[i].w, fit.as.w, fit.of.w)] IN
       [i \in 1..Len(regions) |->
          [x |-> fit.left + Sums(wide)[i - 1], w |-> wide[i],
           h |-> Scaled(regions[i].h, fit.as.h, fit.of.h), of |-> regions[i]]]

Inside(pic, x, y) == x \in pic.x..(pic.x + pic.w - 1) /\ y \in fit.top..(fit.top + pic.h - 1)

\* The pixel of the desktop seen at a position of picture pic.
Seen(pic, x, y) ==
  <<pic.of.x + Scaled(x - pic.x, pic.of.w, pic.w),
    pic.of.y + Scaled(y - fit.top, pic.of.h, pic.h)>>
-----------------------------------------------------------------------------
(* Where the pointer is put (_widget_to_remote, then move_abs).            *)

Clamp(n, most) == IF n < 0 THEN 0 ELSE IF n > most THEN most ELSE n

\* Not the code: each monitor is taken to be the first one.
BeforeFirst(i) == 0
\* The widths of the monitors to the left of monitor i.
Before(i) == Widths(regions)[i - 1]

\* The monitor under cx, the position in the composite; 0 past the last.
MonitorAt(cx) ==
  LET hit == {i \in 1..Len(regions) : cx < Widths(regions)[i] * fit.as.w} IN
  IF hit = {} THEN 0 ELSE Min(hit)

\* Numerators, over fit.as.w and fit.as.h: the place on the desktop.
Place(x, y) ==
  LET cx == (x - fit.left) * fit.of.w  cy == (y - fit.top) * fit.of.h
      i == MonitorAt(cx) IN
  IF regions = <<>> THEN <<cx, cy>>
  ELSE IF i = 0
       THEN LET last == regions[Len(regions)] IN <<(last.x + last.w - 1) * fit.as.w, cy>>
       ELSE <<(regions[i].x - Before(i)) * fit.as.w + cx,
              regions[i].y * fit.as.h + cy>>

\* XTestInputInjector.move_abs, of the fraction of the remote screen.
Injected(x, y) ==
  LET p == Place(x, y)
      across == remote.w * fit.as.w  down == remote.h * fit.as.h IN
  <<(Clamp(p[1], across) * (injects.w - 1)) \div across,
    (Clamp(p[2], down) * (injects.h - 1)) \div down>>
-----------------------------------------------------------------------------
(* The pointer is put on what the user sees under it (_widget_to_remote: "moves
   the cursor to the correct pixel"; paintEvent): on a pixel that is painted,
   in the same picture, no further away than one widget pixel per picture up to
   there, each of which is cut to whole pixels; or next to one.  As many columns
   at its left edge can go to the monitor before it.  It takes a server that
   captured the whole desktop when it was started and when it sent its hello:
   that is what both sides measure with. *)
PointsWhereSeen ==
  injects = SizeOf(Whole(desktop)) /\ remote = injects =>
    \A i \in 1..Len(Pictures) :
      LET pic == Pictures[i] IN
      \A x \in (pic.x + i - 1)..(pic.x + pic.w - 1), y \in fit.top..(fit.top + pic.h - 1) :
        \E x1, x2 \in (x - i)..(x + i), y1, y2 \in (y - 1)..(y + 1) :
          /\ Inside(pic, x1, y1) /\ Inside(pic, x2, y2)
          /\ LET from == Seen(pic, x1, y1)  to == Seen(pic, x2 + 1, y2 + 1) IN
             \A k \in 1..2 : Injected(x, y)[k] \in (from[k] - 1)..to[k]
===============================================================================
