------------------------------ MODULE MacCapture ------------------------------
(***************************************************************************)
(* The screen capture of a server on macOS: a ScreenCaptureKit stream of   *)
(* one display, whose frames arrive on a thread of the system's and are    *)
(* latched; and the news of displays, which the window server pushes and   *)
(* the hotplug loop polls.                                                 *)
(*                                                                         *)
(* Switching to another display is a sequence of calls that each wait for  *)
(* the system's answer, some seconds long.  The event loop does nothing    *)
(* else meanwhile, but frames and changes of the displays arrive.  A call  *)
(* that fails, or isn't answered in time, ends the sequence, except that a *)
(* stream whose end isn't confirmed is forgotten and may go on.            *)
(*                                                                         *)
(* The names differ from those of FileTransfer, which ServerParts checks   *)
(* in the same run.                                                        *)
(***************************************************************************)
EXTENDS Naturals, Sequences, FiniteSets

CONSTANTS
  Arrangements,  \* displays in the order the system lists them
  FirstDisplay,  \* the monitor the server was started for
  MaxSelects,    \* bound: displays selected by clients
  MaxMoves,      \* bound: changes of the displays
  MaxTrouble     \* bound: calls that fail or aren't answered

Display == [name : STRING, w : Nat \ {0}]

ASSUME ArrangementsAssumption == Arrangements \subseteq Seq(Display) \ {<<>>}
ASSUME MacBoundsAssumption == /\ FirstDisplay \in Nat /\ MaxSelects \in Nat
                              /\ MaxMoves \in Nat /\ MaxTrouble \in Nat

VARIABLES
  displays,    \* the displays there are
  listed,      \* _displays
  selected,    \* _selected_display, and by it width and height
  stream,      \* _stream: the display it was made for, or NoStream
  strays,      \* what streams still deliver that nobody has a handle of
  latest,      \* _latest_bgra, NoFrame if there is none
  step,        \* how far switch_monitor is
  goal,        \* ... and the display it was asked for
  fitted,      \* the width the encoder was made for
  notice,      \* a notification of the window server is under way
  pending,     \* _hotplug_pending
  heard,       \* the displays of the last monitor list sent to the clients
  failed,      \* history: the last switch failed
  strayed,     \* history: a stray stream may have latched a frame
  slipped,     \* history: a switch took a change in before the poll saw it
  selects, moves, trouble

macVars == <<displays, listed, selected, stream, strays, latest, step, goal, fitted, notice,
             pending, heard, failed, strayed, slipped, selects, moves, trouble>>
news == <<notice, pending, heard>>

NoStream == "none"
NoFrame == [name |-> "none", w |-> 0]
On(d) == [is |-> "stream", of |-> d]
Off == [is |-> NoStream, of |-> NoFrame]

\* _select_display: counted from 1, display 1 where there is no such.
At(a, i) == a[IF i \in 1..Len(a) THEN i ELSE 1]
AllDisplays == UNION {{a[i] : i \in 1..Len(a)} : a \in Arrangements}

MacTypeOK ==
  /\ displays \in Arrangements /\ listed \in Arrangements /\ heard \in Arrangements
  /\ selected \in AllDisplays /\ stream \in [is : {"stream"}, of : AllDisplays] \cup {Off}
  /\ strays \subseteq AllDisplays /\ latest \in AllDisplays \cup {NoFrame}
  /\ step \in {"idle", "stopped", "listed", "started"} /\ goal \in 0..3
  /\ fitted \in {d.w : d \in AllDisplays}
  /\ notice \in BOOLEAN /\ pending \in BOOLEAN
  /\ failed \in BOOLEAN /\ strayed \in BOOLEAN /\ slipped \in BOOLEAN
  /\ selects \in 0..MaxSelects /\ moves \in 0..MaxMoves /\ trouble \in 0..MaxTrouble

MacInit ==
  /\ displays \in Arrangements
  /\ listed = displays /\ heard = displays
  /\ selected = At(displays, FirstDisplay) /\ stream = On(selected) /\ strays = {}
  /\ latest = NoFrame /\ step = "idle" /\ goal = 0
  /\ fitted = selected.w
  /\ notice = FALSE /\ pending = FALSE
  /\ failed = FALSE /\ strayed = FALSE /\ slipped = FALSE
  /\ selects = 0 /\ moves = 0 /\ trouble = 0
-----------------------------------------------------------------------------
\* The system's side.

\* _StreamOutputHandler: a stream delivers while its display is there.
Present(d) == \E i \in 1..Len(displays) : displays[i].name = d.name
DeliverFrame ==
  /\ \/ stream # Off /\ latest' = stream.of /\ UNCHANGED strayed
     \/ \E d \in strays : latest' = d /\ strayed' = TRUE
  /\ Present(latest')
  /\ UNCHANGED <<displays, listed, selected, stream, strays, step, goal, fitted, news>>
  /\ UNCHANGED <<failed, slipped, selects, moves, trouble>>

StrayEnds ==
  /\ \E d \in strays : strays' = strays \ {d}
  /\ UNCHANGED <<displays, listed, selected, stream, latest, step, goal, fitted, news>>
  /\ UNCHANGED <<failed, strayed, slipped, selects, moves, trouble>>

\* Displays are plugged in or out; asleep, the server isn't told.
Rearrange ==
  /\ moves < MaxMoves /\ moves' = moves + 1
  /\ displays' \in Arrangements \ {displays}
  /\ notice' \in {notice, TRUE}
  /\ UNCHANGED <<listed, selected, stream, strays, latest, step, goal, fitted, pending, heard>>
  /\ UNCHANGED <<failed, strayed, slipped, selects, trouble>>

\* _DisplayChangeDelegate
ScreenParametersChanged ==
  /\ notice
  /\ notice' = FALSE /\ pending' = TRUE
  /\ UNCHANGED <<displays, listed, selected, stream, strays, latest, step, goal, fitted, heard>>
  /\ UNCHANGED <<failed, strayed, slipped, selects, moves, trouble>>
-----------------------------------------------------------------------------
\* A client selects a monitor: switch_monitor, then a new encoder.

Troubled == trouble < MaxTrouble /\ trouble' = trouble + 1

\* _stop_stream waits two seconds for the end, and lets go either way.
StopStream(i) ==
  /\ step = "idle" /\ selects < MaxSelects
  /\ selects' = selects + 1
  /\ step' = "stopped" /\ goal' = i
  /\ stream' = Off
  /\ \/ UNCHANGED <<strays, trouble>>
     \/ stream # Off /\ Troubled /\ strays' = strays \cup {stream.of}
  /\ UNCHANGED <<displays, listed, selected, latest, fitted, news>>
  /\ UNCHANGED <<failed, strayed, slipped, moves>>

\* An exception leaves handle_input before the encoder is made anew.
GiveUpSwitch ==
  /\ step' = "idle" /\ goal' = 0 /\ failed' = TRUE
  /\ UNCHANGED <<displays, latest, fitted, news, strayed, selects, moves>>

\* _enumerate_displays and _select_display
EnumerateDisplays ==
  /\ step = "stopped"
  /\ \/ /\ step' = "listed"
        /\ listed' = displays /\ selected' = At(displays, goal)
        /\ slipped' = (slipped \/ listed # displays)
        /\ UNCHANGED <<displays, stream, strays, latest, goal, fitted, news>>
        /\ UNCHANGED <<failed, strayed, selects, moves, trouble>>
     \/ /\ Troubled /\ GiveUpSwitch
        /\ UNCHANGED <<listed, selected, slipped, stream, strays>>

\* _start_stream; a start that isn't answered in time may still succeed.
StartStream ==
  /\ step = "listed"
  /\ \/ /\ step' = "started" /\ stream' = On(selected)
        /\ UNCHANGED <<displays, latest, goal, fitted, news, failed, strayed, selects, moves>>
        /\ UNCHANGED trouble
     \/ /\ Troubled /\ GiveUpSwitch
        /\ stream' \in {On(selected), Off}
  /\ UNCHANGED <<listed, selected, slipped, strays>>

\* What was latched is dropped, of the new stream's too.
FinishSwitchKeeping ==
  /\ step = "started"
  /\ step' = "idle" /\ goal' = 0
  /\ fitted' = selected.w
  /\ failed' = FALSE /\ strayed' = FALSE
  /\ UNCHANGED <<displays, listed, selected, stream, strays, latest, news, slipped>>
  /\ UNCHANGED <<selects, moves, trouble>>
FinishSwitch ==
  /\ step = "started"
  /\ step' = "idle" /\ goal' = 0
  /\ latest' = NoFrame
  /\ fitted' = selected.w
  /\ failed' = FALSE /\ strayed' = FALSE
  /\ UNCHANGED <<displays, listed, selected, stream, strays, news, slipped>>
  /\ UNCHANGED <<selects, moves, trouble>>
-----------------------------------------------------------------------------
\* MonitorHotplug.run, once a second.

\* detect_hotplug: name, size and place of every display, in order.
DisplaySizes(a) == [i \in 1..Len(a) |-> a[i].w]
DisplaySignature(a) == a

\* The list goes to the clients, and the encoder is made anew.
SendList(a) == heard' = a /\ slipped' = FALSE /\ fitted' = selected.w

\* A push is enough for a broadcast: of the displays as last enumerated.
PollDisplays ==
  /\ step = "idle"
  /\ \/ /\ pending
        /\ pending' = FALSE
        /\ SendList(listed)
        /\ UNCHANGED listed
     \/ /\ ~pending /\ DisplaySignature(listed) # DisplaySignature(displays)
        /\ listed' = displays
        /\ SendList(displays)
        /\ UNCHANGED pending
  /\ UNCHANGED <<displays, selected, stream, strays, latest, step, goal, notice>>
  /\ UNCHANGED <<failed, strayed, selects, moves, trouble>>
-----------------------------------------------------------------------------
MacNext ==
  \/ DeliverFrame \/ StrayEnds \/ Rearrange \/ ScreenParametersChanged
  \/ \E i \in 0..3 : StopStream(i)
  \/ EnumerateDisplays \/ StartStream \/ FinishSwitch \/ PollDisplays

\* A push arrives, the loop polls, and what it has begun it finishes.
MacFairness ==
  /\ WF_macVars(ScreenParametersChanged) /\ WF_macVars(PollDisplays)
  /\ WF_macVars(EnumerateDisplays) /\ WF_macVars(StartStream) /\ WF_macVars(FinishSwitch)
-----------------------------------------------------------------------------
\* capture_raw_bgra: the frame latched last, a black one if there is none.
Raw == IF latest = NoFrame THEN [name |-> selected.name, w |-> selected.w] ELSE latest

(* After a switch what is captured is the display that was selected, in the
   size the encoder was made for (switch_monitor, capture_raw_bgra), though
   frames arrive during every step of it: unless the switch failed halfway, or
   a stream that was never confirmed to have ended goes on delivering. *)
ShowsSelected ==
  step = "idle" /\ ~failed /\ ~strayed => Raw = selected /\ Raw.w = fitted

(* The clients' list of monitors comes right in the end (MonitorHotplug.run,
   detect_hotplug), though a push makes it broadcast the old list first, and is
   used up by that; unless a switch of displays enumerates them in between. *)
ListComesRight == <>[](slipped \/ heard = displays)
===============================================================================
