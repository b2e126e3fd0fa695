------------------------------ MODULE Pointer ------------------------------
(***************************************************************************)
(* Mouse buttons and pen of one remote desktop.  The viewer turns Qt's     *)
(* mouse and tablet events into messages and keeps the two apart with      *)
(* _pen_active: while the pen is in use, mouse events are ignored.  The    *)
(* runtime hands the messages of all of its clients to one injector, with  *)
(* one mouse and one virtual tablet.                                       *)
(*                                                                         *)
(* Positions, pressure and tilt are left out: a message says which buttons *)
(* it puts down or up.  The injector has a uinput tablet (without one a    *)
(* pen is turned into mouse events, which isn't modelled).                 *)
(***************************************************************************)
EXTENDS Naturals, FiniteSets, Sequences

CONSTANTS
  Clients,   \* clients of the runtime
  Macs,      \* those on macOS, which turns a control-click into a right one
  Buttons,   \* mouse buttons
  Left,      \* among them the left one
  Right,     \* and the right one
  Tools,     \* ends of the pen: pen and eraser
  MaxWire    \* bound: messages of a client on their way

Tip == "tip"         \* BTN_TOUCH
Barrel == "barrel"   \* BTN_STYLUS, on the desktop and on the pen itself

ASSUME ButtonsAssumption ==
  /\ Left \in Buttons /\ Right \in Buttons /\ Left # Right
  /\ Tip \notin Buttons /\ Barrel \notin Buttons
  /\ Macs \subseteq Clients /\ MaxWire \in Nat \ {0}

NoTool == "no tool"

VARIABLES
  attached,   \* the client is connected
  mouse,      \* buttons of its mouse the user holds
  swapped,    \* _mac_ctrl_click_swap
  pen,        \* what of the pen is pressed: Tip, Barrel
  penActive,  \* _pen_active
  wasNear,    \* _pen_was_in_proximity
  wire,       \* messages of a client on their way
  down,       \* what is down on the desktop: buttons, Tip, Barrel
  tool,       \* the tool the tablet has put in proximity (_in_proximity)
  penFsm,     \* _pen_fsm is in_proximity
  from,       \* history: what a client's messages put down
  orphaned,   \* history: what lost clients had down, and nobody has put up since
  mixed       \* history: clients who used the pen with a mouse button held

vars == <<attached, mouse, swapped, pen, penActive, wasNear, wire, down, tool,
          penFsm, from, orphaned, mixed>>
viewer == <<mouse, swapped, pen, penActive, wasNear, mixed>>
server == <<down, tool, penFsm, from, orphaned>>

MouseButton(b, isDown) == [is |-> "mouse", button |-> b, down |-> isDown]
PenEvent(pressed, barrel, end) ==
  [is |-> "pen", pressed |-> pressed, barrel |-> barrel, end |-> end]
Proximity == [is |-> "proximity"]
Message ==
  {MouseButton(b, d) : b \in Buttons, d \in BOOLEAN}
    \cup {PenEvent(p, b, e) : p \in BOOLEAN, b \in BOOLEAN, e \in Tools}
    \cup {Proximity}
Desktop == Buttons \cup {Tip, Barrel}

TypeOK ==
  /\ attached \in [Clients -> BOOLEAN]
  /\ mouse \in [Clients -> SUBSET Buttons]
  /\ pen \in [Clients -> SUBSET {Tip, Barrel}]
  /\ swapped \in [Clients -> BOOLEAN] /\ \A c \in Clients : swapped[c] => c \in Macs
  /\ penActive \in [Clients -> BOOLEAN] /\ wasNear \in [Clients -> BOOLEAN]
  /\ wire \in [Clients -> Seq(Message)]
  /\ down \subseteq Desktop /\ down = orphaned \cup UNION {from[c] : c \in Clients}
  /\ tool \in Tools \cup {NoTool} /\ penFsm \in BOOLEAN
  /\ mixed \subseteq Clients

Init ==
  /\ attached = [c \in Clients |-> FALSE]
  /\ mouse = [c \in Clients |-> {}] /\ swapped = [c \in Clients |-> FALSE]
  /\ pen = [c \in Clients |-> {}] /\ penActive = [c \in Clients |-> FALSE]
  /\ wasNear = [c \in Clients |-> FALSE] /\ mixed = {}
  /\ wire = [c \in Clients |-> <<>>]
  /\ down = {} /\ tool = NoTool /\ penFsm = FALSE
  /\ from = [c \in Clients |-> {}] /\ orphaned = {}

-----------------------------------------------------------------------------
(* The viewer.                                                             *)

Send(c, m) ==
  IF attached[c]
  THEN Len(wire[c]) < MaxWire /\ wire' = [wire EXCEPT ![c] = Append(@, m)]
  ELSE UNCHANGED wire

\* mousePressEvent; on a Mac a right button may be a left one with Control.
MousePress(c, b) ==
  /\ b \notin mouse[c]
  /\ mouse' = [mouse EXCEPT ![c] = @ \cup {b}]
  /\ mixed' = IF penActive[c] THEN mixed \cup {c} ELSE mixed
  /\ IF penActive[c] THEN UNCHANGED <<swapped, wire>>
     ELSE \/ Send(c, MouseButton(b, TRUE)) /\ UNCHANGED swapped
          \/ /\ c \in Macs /\ b = Right
             /\ Send(c, MouseButton(Left, TRUE))
             /\ swapped' = [swapped EXCEPT ![c] = TRUE]
  /\ UNCHANGED <<attached, pen, penActive, wasNear, server>>

\* Not the code: the release isn't rewritten.
MouseReleaseAsIs(c, b) ==
  /\ b \in mouse[c]
  /\ mouse' = [mouse EXCEPT ![c] = @ \ {b}]
  /\ IF penActive[c] THEN UNCHANGED <<swapped, wire>>
     ELSE Send(c, MouseButton(b, FALSE)) /\ UNCHANGED swapped
  /\ UNCHANGED <<attached, pen, penActive, wasNear, mixed, server>>

\* mouseReleaseEvent
MouseRelease(c, b) ==
  LET back == swapped[c] /\ b = Right IN
  /\ b \in mouse[c]
  /\ mouse' = [mouse EXCEPT ![c] = @ \ {b}]
  /\ IF penActive[c] THEN UNCHANGED <<swapped, wire>>
     ELSE /\ Send(c, MouseButton(IF back THEN Left ELSE b, FALSE))
          /\ swapped' = [swapped EXCEPT ![c] = @ /\ ~back]
  /\ UNCHANGED <<attached, pen, penActive, wasNear, mixed, server>>

\* tabletEvent, of a kind and with the pen as it is right after it.  A press
\* is the tip's whatever was pressed; without one the tip is down when there
\* is pressure.  No event is sent without hovering or pressed.
TabletEvent(c, kind, now, end) ==
  /\ pen' = [pen EXCEPT ![c] = now]
  /\ penActive' = [penActive EXCEPT ![c] = kind # "release"]
  /\ wasNear' = [wasNear EXCEPT ![c] = kind # "leave"]
  /\ Send(c, PenEvent(kind = "press" \/ (kind # "release" /\ Tip \in now),
                      kind \notin {"press", "release"} /\ Barrel \in now, end))
  /\ mixed' = IF mouse[c] # {} THEN mixed \cup {c} ELSE mixed
  /\ UNCHANGED <<attached, mouse, swapped, server>>

PenPress(c, end) == \E p \in {Tip, Barrel} \ pen[c] : TabletEvent(c, "press", pen[c] \cup {p}, end)
PenRelease(c, end) == \E p \in pen[c] : TabletEvent(c, "release", pen[c] \ {p}, end)
PenMove(c, end) == TabletEvent(c, "move", pen[c], end)
PenLeave(c, end) == pen[c] = {} /\ TabletEvent(c, "leave", {}, end)

\* _emit_pen_proximity
Resynthesize(c) ==
  /\ Send(c, Proximity)
  /\ UNCHANGED <<attached, viewer, server>>

\* showEvent, wherever the pen is.
Shown(c) == Resynthesize(c)

\* focusInEvent
Refocused(c) == wasNear[c] /\ Resynthesize(c)

\* _on_screen_changed, as far as the pen goes.
ScreenChanged(c) == wasNear[c] /\ Resynthesize(c)

-----------------------------------------------------------------------------
(* The connection and the server.                                          *)

Connect(c) ==
  /\ ~attached[c]
  /\ attached' = [attached EXCEPT ![c] = TRUE]
  /\ UNCHANGED <<viewer, wire, server>>

Disconnect(c) ==
  /\ attached[c]
  /\ attached' = [attached EXCEPT ![c] = FALSE]
  /\ wire' = [wire EXCEPT ![c] = <<>>]
  /\ from' = [from EXCEPT ![c] = {}] /\ orphaned' = orphaned \cup from[c]
  /\ UNCHANGED <<viewer, down, tool, penFsm>>

\* What is put down and up by a message, and by whom.
Put(c, on, off) ==
  /\ down' = (down \ off) \cup on
  /\ from' = [x \in Clients |-> IF x = c THEN (from[x] \ off) \cup on ELSE from[x] \ off]
  /\ orphaned' = orphaned \ off

HandleMouse(c, m) ==
  /\ IF m.down THEN Put(c, {m.button}, {}) ELSE Put(c, {}, {m.button})
  /\ UNCHANGED <<tool, penFsm>>

\* Not the code: the tip's bit is written when it goes down.
HandlePenDown(c, m) ==
  /\ tool' = IF tool = NoTool THEN m.end ELSE tool
  /\ IF m.pressed THEN Put(c, {Tip}, {Barrel}) ELSE Put(c, {}, {Barrel})
  /\ UNCHANGED penFsm

\* VirtualPenTablet.pen_event with hovering = ~pressed: the first event puts
\* its tool in proximity, and no event takes it out again.
HandlePen(c, m) ==
  LET on == (IF m.pressed THEN {Tip} ELSE {}) \cup (IF m.barrel THEN {Barrel} ELSE {}) IN
  /\ tool' = IF tool = NoTool THEN m.end ELSE tool
  /\ Put(c, on, {Tip, Barrel} \ on)
  /\ UNCHANGED penFsm

HandleProximity == penFsm' = TRUE /\ UNCHANGED <<down, from, orphaned, tool>>

HandleInput(c) ==
  LET m == Head(wire[c]) IN
  /\ wire[c] # <<>>
  /\ wire' = [wire EXCEPT ![c] = Tail(@)]
  /\ \/ m.is = "mouse" /\ HandleMouse(c, m)
     \/ m.is = "pen" /\ HandlePen(c, m)
     \/ m.is = "proximity" /\ HandleProximity
  /\ UNCHANGED <<attached, viewer>>

Next ==
  \E c \in Clients :
    \/ \E b \in Buttons : MousePress(c, b) \/ MouseRelease(c, b)
    \/ \E e \in Tools : PenPress(c, e) \/ PenRelease(c, e) \/ PenMove(c, e) \/ PenLeave(c, e)
    \/ Shown(c) \/ Refocused(c) \/ ScreenChanged(c) \/ Connect(c) \/ Disconnect(c) \/ HandleInput(c)

Spec == Init /\ [][Next]_vars

-----------------------------------------------------------------------------
(* Properties.                                                             *)

\* What the user of c has down, as the desktop may see it: a control-click is
\* the left button, and pressing the barrel is taken for the tip.
Wanted(c) ==
  (IF Right \in mouse[c] /\ swapped[c] THEN mouse[c] \cup {Left} ELSE mouse[c])
    \cup (IF pen[c] # {} THEN pen[c] \cup {Tip} ELSE {})

\* Nothing stays down that nobody holds: once the messages of a client are
\* handled, what it has put down on the desktop its user still holds, unless
\* the pen was used with a mouse button held, whose release the viewer then
\* ignores ("or the server will be left thinking a phantom button is still
\* held", viewer.mouseReleaseEvent), or the connection was lost since.
NothingStuck ==
  \A c \in Clients : attached[c] /\ wire[c] = <<>> /\ c \notin mixed =>
    from[c] \subseteq Wanted(c)
=============================================================================
