-------------------------------- MODULE Tabs --------------------------------
(***************************************************************************)
(* The tabs of the client's main window, the sessions behind them and the  *)
(* dialog in which a user picks one of the broker's machines.  A session's *)
(* I/O thread runs beside the window's thread: what it has to say is       *)
(* queued for the window (`signals'; a lost connection changes but labels  *)
(* and isn't), what the window tells it is queued for its loop             *)
(* (`posted').                                                             *)
(*                                                                         *)
(* The window keeps its sessions in a table keyed by the index their tab   *)
(* had, beside Qt's own list of pages.  Left out: what labels, colours and *)
(* titles say, fullscreen, the docks, and everything of a connection but   *)
(* whether it is up (module Connection has the rest).                      *)
(***************************************************************************)
EXTENDS Naturals, Sequences, FiniteSets, SequencesExt, Functions

CONSTANTS
  Sessions,    \* the sessions there will be
  Machines,    \* the broker's machines
  Brokered,    \* those that go through the broker, the others connect directly
  Reconnects,  \* sessions with auto_reconnect
  MaxSignals,  \* bound: signals of a session waiting for the window
  MaxDialogs,  \* bound: pickers on screen at a time
  MaxMoves     \* bound: tabs dragged to another place

AutoPick == "auto"    \* the empty machine name: the broker chooses
None == "none"        \* no choice, no future
Pending == "pending"  \* a future without a result

ASSUME TabsAssumption ==
  /\ {AutoPick, None, Pending} \cap Machines = {} /\ Brokered \cup Reconnects \subseteq Sessions
  /\ IsFiniteSet(Sessions) /\ MaxSignals \in Nat \ {0}
  /\ MaxDialogs \in Nat \ {0} /\ MaxMoves \in Nat

VARIABLES
  pages,      \* QTabWidget: the sessions of the tabs, from left to right
  current,    \* QTabWidget: the index of the tab in front, 0 for none
  views,      \* _views: the window's table, from indexes to sessions
  open,       \* the window hasn't been closed
  begun,      \* sessions begun, by a tab of their own
  io,         \* per session, its I/O thread: off, idle (before an attempt),
              \* asking for a machine, target (dialling), connected
  signals,    \* per session: emitted by its thread, not handled yet
  dialogs,    \* the sessions of the machine pickers on screen, the last on top
  future,     \* per session: _machine_selection_future, Pending or None
  posted,     \* per session: a choice on its way to the loop, or None
  preferred,  \* per session: _preferred_machine
  picked,     \* history: picked since the user was last asked, or None
  moves       \* tabs dragged so far

tabs == <<pages, current, views>>
picker == <<dialogs, future, posted, preferred, picked>>
tabVars == <<tabs, open, begun, io, signals, picker, moves>>

TabsInit ==
  /\ pages = <<>> /\ current = 0 /\ views = <<>> /\ open = TRUE
  /\ begun = {} /\ io = [s \in Sessions |-> "off"]
  /\ signals = [s \in Sessions |-> <<>>] /\ dialogs = <<>>
  /\ future = [s \in Sessions |-> None] /\ posted = [s \in Sessions |-> None]
  /\ preferred = [s \in Sessions |-> AutoPick] /\ picked = [s \in Sessions |-> None]
  /\ moves = 0

\* A modal dialog keeps the user from everything but itself.
AtWindow == open /\ dialogs = <<>>

\* The session the window takes to be in front (_active_session).
Active(s) == current \in DOMAIN views /\ views[current] = s

-----------------------------------------------------------------------------
(* The window's thread.                                                    *)

\* Session.connect: what the user chose goes to the protocol, whose thread starts.
Connect(s) == begun' = begun \cup {s} /\ io' = [io EXCEPT ![s] = "idle"]

NewSession(s) ==
  /\ AtWindow /\ s \notin begun
  /\ LET i == Len(pages) + 1
     IN /\ pages' = Append(pages, s) /\ current' = i
        /\ views' = [k \in DOMAIN views \cup {i} |-> IF k = i THEN s ELSE views[k]]
  /\ Connect(s)
  /\ UNCHANGED <<open, signals, picker, moves>>

\* Session.cleanup and Session.disconnect, as far as the I/O thread goes: the
\* coroutine that waits for a choice is thrown away with it.
Disconnected(ss) ==
  /\ io' = [s \in Sessions |-> IF s \in ss THEN "off" ELSE io[s]]
  /\ future' = [s \in Sessions |-> IF s \in ss THEN None ELSE future[s]]

\* The window's table by the new indexes of the pages it knows; entries whose
\* page is gone stay under their old index unless that is taken.
Rekey(old, rest) ==
  LET found == {i \in DOMAIN rest : rest[i] \in Range(old)}
      lost == {i \in DOMAIN old : old[i] \notin Range(rest)}
  IN [i \in found \cup lost |-> IF i \in found THEN rest[i] ELSE old[i]]

\* Not the code: the session is looked up when its entry is gone already.
ClosedAfterPop(i) == {}

\* The session that is cleaned up when the tab at i is closed.
Closed(i) == {s \in Sessions : i \in DOMAIN views /\ views[i] = s}

\* By the tab's own button.
CloseTab(i) ==
  /\ AtWindow /\ i \in DOMAIN pages
  /\ LET rest == RemoveAt(pages, i)
     IN /\ pages' = rest
        /\ views' = Rekey([k \in DOMAIN views \ {i} |-> views[k]], rest)
        /\ current' = IF i < current \/ current > Len(rest)
                      THEN current - 1 ELSE current
  /\ Disconnected(Closed(i))
  /\ UNCHANGED <<open, begun, signals, dialogs, posted, preferred, picked, moves>>

\* The toolbar's disconnect: nothing if the table has nobody for the tab in front.
DisconnectActive == current \in DOMAIN views /\ CloseTab(current)

SwitchTab(i) ==
  /\ AtWindow /\ i \in DOMAIN pages \ {current}
  /\ current' = i
  /\ UNCHANGED <<pages, views, open, begun, io, signals, picker, moves>>

\* Tabs are movable; nobody listens to the moves.
MoveTab(i, j) ==
  /\ AtWindow /\ moves < MaxMoves /\ {i, j} \subseteq DOMAIN pages /\ i # j
  /\ pages' = InsertAt(RemoveAt(pages, i), j, pages[i])
  /\ current' = CHOOSE k \in DOMAIN pages' : pages'[k] = pages[current]
  /\ moves' = moves + 1
  /\ UNCHANGED <<views, open, begun, io, signals, picker>>

\* The window is closed, and the process ends with it: its daemon threads too.
Quit ==
  /\ AtWindow /\ open' = FALSE
  /\ pages' = <<>> /\ current' = 0 /\ views' = <<>>
  /\ Disconnected(Sessions)
  /\ signals' = [s \in Sessions |-> <<>>] /\ posted' = [s \in Sessions |-> None]
  /\ preferred' = [s \in Sessions |-> AutoPick] /\ picked' = [s \in Sessions |-> None]
  /\ UNCHANGED <<begun, dialogs, moves>>

\* A queued signal reaches the window, whatever has become of the session.
HandleSignal(s) ==
  /\ open /\ signals[s] # <<>>
  /\ Head(signals[s]) = "machines" => Len(dialogs) < MaxDialogs
  /\ signals' = [signals EXCEPT ![s] = Tail(@)]
  /\ dialogs' = IF Head(signals[s]) = "machines" THEN Append(dialogs, s) ELSE dialogs
  /\ UNCHANGED <<tabs, open, begun, io, future, posted, preferred, picked, moves>>

\* Not the code: a choice for which nobody waits is thrown away.
SelectIfAsked(s, m) ==
  /\ posted' = IF future[s] # None THEN [posted EXCEPT ![s] = m] ELSE posted
  /\ UNCHANGED preferred

\* select_broker_machine: the choice goes to the loop, or is kept for its next
\* attempt when nobody waits for it.
Select(s, m) ==
  IF future[s] # None THEN posted' = [posted EXCEPT ![s] = m] /\ UNCHANGED preferred
  ELSE preferred' = [preferred EXCEPT ![s] = m] /\ UNCHANGED posted

\* The picker on top is accepted.
Choose(m) ==
  /\ dialogs # <<>> /\ dialogs' = Front(dialogs)
  /\ Select(Last(dialogs), m)
  /\ picked' = [picked EXCEPT ![Last(dialogs)] = IF m = AutoPick THEN None ELSE m]
  /\ UNCHANGED <<tabs, open, begun, io, signals, future, moves>>

Cancel ==
  /\ dialogs # <<>>
  /\ Disconnected({Last(dialogs)})
  /\ dialogs' = Front(dialogs)
  /\ UNCHANGED <<tabs, open, begun, signals, posted, preferred, picked, moves>>

-----------------------------------------------------------------------------
(* The I/O thread of a session.                                            *)

Emits(s, what) ==
  /\ Len(signals[s]) < MaxSignals
  /\ signals' = [signals EXCEPT ![s] = Append(@, what)]

\* The broker's handshake, up to the machine list: a machine preferred already
\* is asked for at once, the user is asked otherwise.
BrokerHello(s) ==
  /\ io[s] = "idle" /\ s \in Brokered /\ posted[s] = None
  /\ IF preferred[s] # AutoPick
     THEN /\ io' = [io EXCEPT ![s] = "target"]
          /\ picked' = [picked EXCEPT ![s] = None]
          /\ UNCHANGED <<signals, future>>
     ELSE /\ io' = [io EXCEPT ![s] = "asking"]
          /\ future' = [future EXCEPT ![s] = Pending]
          /\ picked' = [picked EXCEPT ![s] = None]
          /\ Emits(s, "machines")
  /\ UNCHANGED <<tabs, open, begun, dialogs, posted, preferred, moves>>

\* call_soon_threadsafe's callback: it finds the future done or gone when the
\* two minutes ended meanwhile, and the choice is lost; so it is when the loop
\* has stopped.
Resolve(s) ==
  /\ posted[s] # None
  /\ posted' = [posted EXCEPT ![s] = None]
  /\ IF future[s] = Pending
     THEN future' = [future EXCEPT ![s] = posted[s]] /\ UNCHANGED picked
     ELSE picked' = [picked EXCEPT ![s] = None] /\ UNCHANGED future
  /\ UNCHANGED <<tabs, open, begun, io, signals, dialogs, preferred, moves>>

\* The wait ends with the choice, or after two minutes without.
Selected(s) ==
  /\ io[s] = "asking"
  /\ LET m == IF future[s] = Pending THEN AutoPick ELSE future[s]
     IN /\ preferred' = [preferred EXCEPT ![s] = m]
        /\ picked' = [picked EXCEPT ![s] = IF m = @ THEN None ELSE @]
  /\ future' = [future EXCEPT ![s] = None]
  /\ io' = [io EXCEPT ![s] = "target"]
  /\ UNCHANGED <<tabs, open, begun, signals, dialogs, posted, moves>>

\* The broker has no machine to give: the attempt ends without an exception.
NotAssigned(s) ==
  /\ io[s] = "target" /\ s \in Brokered
  /\ io' = [io EXCEPT ![s] = "idle"]
  /\ UNCHANGED <<tabs, open, begun, signals, picker, moves>>

Connected(s) ==
  /\ io[s] = "target" \/ (io[s] = "idle" /\ s \notin Brokered)
  /\ io' = [io EXCEPT ![s] = "connected"] /\ Emits(s, "connected")
  /\ UNCHANGED <<tabs, open, begun, picker, moves>>

\* The attempt or the connection fails with an exception: what the broker
\* assigned is forgotten.  Without auto_reconnect the thread ends.
Fails(s) ==
  /\ io[s] \in {"target", "connected"} \/ (io[s] = "idle" /\ s \notin Brokered)
  /\ io' = [io EXCEPT ![s] = IF s \in Reconnects THEN "idle" ELSE "off"]
  /\ preferred' = [preferred EXCEPT ![s] = AutoPick]
  /\ UNCHANGED <<tabs, open, begun, signals, dialogs, future, posted, picked, moves>>

-----------------------------------------------------------------------------
TabsTypeOK ==
  /\ pages \in Seq(Sessions) /\ IsInjective(pages) /\ current \in 0..Len(pages)
  /\ \A i \in DOMAIN views : i \in Nat \ {0} /\ views[i] \in Sessions
  /\ open \in BOOLEAN /\ begun \subseteq Sessions
  /\ io \in [Sessions -> {"off", "idle", "asking", "target", "connected"}]
  /\ signals \in [Sessions -> Seq({"machines", "connected"})]
  /\ \A s \in Sessions : Len(signals[s]) <= MaxSignals
  /\ dialogs \in Seq(Sessions)
  /\ future \in [Sessions -> Machines \cup {AutoPick, Pending, None}]
  /\ posted \in [Sessions -> Machines \cup {AutoPick, None}]
  /\ preferred \in [Sessions -> Machines \cup {AutoPick}]
  /\ picked \in [Sessions -> Machines \cup {None}] /\ moves \in 0..MaxMoves

\* No connection goes on, nor begins, behind a tab that is closed or a window
\* that is, unless a tab was dragged: neither a reconnect, nor a choice made in
\* a picker that outlived its tab, brings one back.
NoOrphans ==
  moves = 0 => \A s \in Sessions : io[s] # "off" => open /\ s \in Range(pages)

\* A machine the user has picked is asked for, or the user is asked again: the
\* choice is with the loop, in the future or the preference, whichever thread
\* looked first.  Only a choice that crosses the end of the two minutes on its
\* way to the loop is lost (Resolve).
PickKept ==
  \A s \in Sessions : picked[s] # None /\ io[s] # "off" =>
    \/ picked[s] \in {posted[s], future[s], preferred[s]}
    \/ preferred[s] = AutoPick /\ io[s] \in {"idle", "connected"}
=============================================================================
