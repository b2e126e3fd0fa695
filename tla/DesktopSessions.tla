--------------------------- MODULE DesktopSessions ---------------------------
(***************************************************************************)
(* SessionManager: an X server with its desktop per user, started at the   *)
(* user's first login, kept while nobody is connected, found again at the  *)
(* next one; and the table of runtimes of server/main.py, which capture    *)
(* the display they were made for.                                         *)
(*                                                                         *)
(* create_session and destroy_all run on the event loop from end to end:   *)
(* no other login comes between.  The processes of a desktop, and the X    *)
(* server, die when they like, with or without taking their files along.   *)
(* A display number is free when neither its lock nor its socket is there. *)
(***************************************************************************)
EXTENDS Integers, FiniteSets

CONSTANTS
  Users,
  Displays,     \* the numbers from MIN_DISPLAY to below MAX_DISPLAY
  MaxDeaths,    \* bound: processes that die by themselves
  MaxFailures,  \* bound: things that fail to start
  MaxRuns       \* bound: starts of the server

ASSUME DisplaysAssumption == Displays \subseteq Nat /\ IsFiniteSet(Displays)
ASSUME BoundsAssumption ==
  MaxDeaths \in Nat /\ MaxFailures \in Nat /\ MaxRuns \in Nat \ {0}

VARIABLES
  host,      \* what the server finds at its start: GPU and window manager
  sessions,  \* _sessions
  running,   \* per user, the processes and devices of his desktop that live
  locks, sockets,  \* display numbers with /tmp/.X*-lock, /tmp/.X11-unix/X*
  runtimes,  \* main.runtimes: per user, the display his runtime captures
  lost,      \* history: users whose X server ended under a runtime
  deaths, failures, runs

desktopVars == <<host, sessions, running, locks, sockets, runtimes, lost, deaths, failures, runs>>

None == "none"
NoDisplay == -1
Processes == {"tablet", "compositor", "wm", "logind", "pulse", "bus", "terminal", "x"}
\* detect_window_manager takes the first of a list that is installed.
Hosts == [gpu : BOOLEAN, wm : {"gnome-shell", "other", None}]
\* UserSession: its display, and what it has a handle of.
Session == [num : Displays, has : SUBSET Processes]
NoSession == [num |-> NoDisplay, has |-> {}]

DesktopsTypeOK ==
  /\ host \in Hosts
  /\ sessions \in [Users -> Session \cup {NoSession}]
  /\ running \in [Users -> SUBSET Processes]
  /\ locks \subseteq Displays /\ sockets \subseteq Displays
  /\ runtimes \in [Users -> Displays \cup {NoDisplay}]
  /\ lost \subseteq Users
  /\ deaths \in 0..MaxDeaths /\ failures \in 0..MaxFailures /\ runs \in 1..MaxRuns

DesktopsInit ==
  /\ host \in Hosts
  /\ sessions = [u \in Users |-> NoSession]
  /\ running = [u \in Users |-> {}]
  /\ locks = {} /\ sockets = {}
  /\ runtimes = [u \in Users |-> NoDisplay]
  /\ lost = {}
  /\ deaths = 0 /\ failures = 0 /\ runs = 1

Alive(u) == sessions[u] # NoSession /\ "x" \in running[u]
-----------------------------------------------------------------------------
\* _cleanup_session ends the processes it has handles of, and removes the lock.
\* Nobody has a handle of the terminal's server: it goes when its X server goes.
Left(u, ended) == running[u] \ (ended \cup (IF "x" \in ended THEN {"terminal"} ELSE {}))
StillThereWithoutCompositor(u) == Left(u, sessions[u].has \ {"compositor"})
StillThere(u) == Left(u, sessions[u].has)
LockOf(u) == IF sessions[u] = NoSession THEN {} ELSE {sessions[u].num}

\* find_free_display, after the cleanup of u's dead session.
FreeByLock(u) == {n \in Displays : n \notin locks \ LockOf(u)}
Free(u) == {n \in Displays : n \notin (locks \ LockOf(u)) \cup sockets}
Lowest(S) == {n \in S : \A k \in S : n <= k}    \* at most one

\* What each part of a desktop starts, where the host has it: the bus (one of
\* our own where the user has none), the sound server, the window manager and
\* behind it the terminal's server, the logind session gnome-shell needs, the
\* compositor of the others, and the pen tablet, which only comes with Xorg.
Bus == {"bus"}
Pulse == {"pulse"}
Gnome == host.wm = "gnome-shell"
Terminal == IF Gnome THEN {"terminal"} ELSE {}
WindowManager == IF host.wm = None THEN {} ELSE {"wm"}
Logind == IF Gnome THEN {"logind"} ELSE {}
Compositor == IF Gnome THEN {} ELSE {"compositor"}
Tablet(x) == IF x = "Xorg" \/ (x = "taken" /\ host.gpu) THEN {"tablet"} ELSE {}
Startable(x) ==
  Bus \cup Pulse \cup WindowManager \cup Terminal \cup Logind \cup Compositor \cup Tablet(x)

\* _start_window_manager: the terminal's server follows the window manager.
Together(started) == "terminal" \in started => "wm" \in started

\* How the X servers come up.  Xorg may fail, then its tablet is closed and
\* Xvfb is tried on the same number.  "taken": the socket of somebody else's
\* server on the number passes for ours, while ours has died.
Outcomes == (IF host.gpu THEN {"Xorg"} ELSE {}) \cup {"Xvfb", "taken", "failed"}
Fails(x) == IF x \in {"taken", "failed"} \/ (x = "Xvfb" /\ host.gpu) THEN 1 ELSE 0

\* create_session on the number n, without what is missing: what is left of u's
\* last desktop is cleaned up, and another one started.
Start(u, n, x, missing, leaves) ==
  LET started == Startable(x) \ missing IN
  /\ Together(started)
  /\ failures + Fails(x) + Cardinality(missing) <= MaxFailures
  /\ x # "failed" => leaves
  /\ failures' = failures + Fails(x) + Cardinality(missing)
  /\ locks' = (locks \ LockOf(u)) \cup (IF leaves THEN {n} ELSE {})
  /\ IF x = "failed"    \* RuntimeError out of _start_xvfb
     THEN /\ sessions' = [sessions EXCEPT ![u] = NoSession]
          /\ running' = [running EXCEPT ![u] = StillThere(u)]
          /\ UNCHANGED <<sockets, runtimes, lost>>
     ELSE /\ sessions' = [sessions EXCEPT ![u] =
               [num |-> n, has |-> (started \ {"terminal"}) \cup {"x"}]]
          /\ running' = [running EXCEPT ![u] =
               StillThere(u) \cup IF x = "taken" THEN started \ {"terminal"}
                                 ELSE started \cup {"x"}]
          /\ sockets' = sockets \cup {n}
          /\ runtimes' = [runtimes EXCEPT ![u] = IF @ = NoDisplay THEN n ELSE @]
          /\ lost' = IF x = "taken" THEN lost \cup {u} ELSE lost

Create(u) ==
  \E n \in Lowest(Free(u)), x \in Outcomes, leaves \in BOOLEAN :
    \E missing \in SUBSET Startable(x) : Start(u, n, x, missing, leaves)

\* get_session finds a live one: a window manager that died is started again,
\* with a new logind helper if that died too.
Reuse(u) ==
  LET s == sessions[u]
      dead == "wm" \in s.has \ running[u]
      wanted == IF dead THEN (WindowManager \cup Logind \cup Terminal) \ running[u] ELSE {}
  IN /\ Alive(u)
     /\ \E up \in SUBSET wanted :
          /\ Together(up)
          /\ failures + Cardinality(wanted \ up) <= MaxFailures
          /\ failures' = failures + Cardinality(wanted \ up)
          /\ running' = [running EXCEPT ![u] = @ \cup up]
          /\ sessions' = [sessions EXCEPT ![u].has = @ \cup (up \ {"terminal"})]
     /\ runtimes' = [runtimes EXCEPT ![u] = IF @ = NoDisplay THEN s.num ELSE @]
     /\ UNCHANGED <<locks, sockets, lost>>

\* A user has been let in: create_session, then his runtime, unless he has one.
LoginAnew(u) == Create(u) /\ UNCHANGED <<host, deaths, runs>>
Login(u) ==
  /\ \/ Reuse(u)
     \/ ~Alive(u) /\ Create(u)
  /\ UNCHANGED <<host, deaths, runs>>

\* The same with no number free: the dead session is gone, the login fails.
LoginRefused(u) ==
  /\ ~Alive(u) /\ Free(u) = {}
  /\ sessions' = [sessions EXCEPT ![u] = NoSession]
  /\ running' = [running EXCEPT ![u] = StillThere(u)]
  /\ locks' = locks \ LockOf(u)
  /\ UNCHANGED <<host, sockets, runtimes, lost, deaths, failures, runs>>
-----------------------------------------------------------------------------
\* What happens to a desktop.

\* The X server ends, and takes its files with it or not.
XDies(u) ==
  /\ Alive(u) /\ deaths < MaxDeaths
  /\ deaths' = deaths + 1
  /\ running' = [running EXCEPT ![u] = @ \ {"x", "terminal"}]
  /\ lost' = lost \cup {u}
  /\ \/ UNCHANGED <<locks, sockets>>
     \/ locks' = locks \ LockOf(u) /\ sockets' = sockets \ LockOf(u)
  /\ UNCHANGED <<host, sessions, runtimes, failures, runs>>

ProcessDies(u) ==
  /\ deaths < MaxDeaths
  /\ \E p \in running[u] \ {"x", "tablet"} : running' = [running EXCEPT ![u] = @ \ {p}]
  /\ deaths' = deaths + 1
  /\ UNCHANGED <<host, sessions, locks, sockets, runtimes, lost, failures, runs>>
-----------------------------------------------------------------------------
\* The end of the server, and its next start.

\* destroy_all; an X server that had to be killed leaves its socket.
Shutdown ==
  /\ runs < MaxRuns /\ runs' = runs + 1
  /\ sessions' = [u \in Users |-> NoSession]
  /\ running' = [u \in Users |-> StillThere(u)]
  /\ locks' = locks \ UNION {LockOf(u) : u \in Users}
  /\ \E killed \in SUBSET Users : sockets' =
       sockets \ UNION {IF Alive(u) THEN LockOf(u) ELSE {} : u \in Users \ killed}
  /\ runtimes' = [u \in Users |-> NoDisplay]
  /\ lost' = {}
  /\ UNCHANGED <<host, deaths, failures>>

\* The server is killed, and its desktops with it.
Crash ==
  /\ runs < MaxRuns /\ runs' = runs + 1
  /\ sessions' = [u \in Users |-> NoSession]
  /\ running' = [u \in Users |-> {}]
  /\ \E killed \in SUBSET Users :
       LET clean == UNION {IF Alive(u) THEN LockOf(u) ELSE {} : u \in Users \ killed}
       IN locks' = locks \ clean /\ sockets' = sockets \ clean
  /\ runtimes' = [u \in Users |-> NoDisplay]
  /\ lost' = {}
  /\ UNCHANGED <<host, deaths, failures>>

DesktopsNext ==
  \/ \E u \in Users : Login(u)
  \/ \E u \in Users : LoginRefused(u)
  \/ \E u \in Users : XDies(u)
  \/ \E u \in Users : ProcessDies(u)
  \/ Shutdown
  \/ Crash

DesktopsSpec == DesktopsInit /\ [][DesktopsNext]_desktopVars
-----------------------------------------------------------------------------
\* Users with a live desktop are on displays of their own (find_free_display,
\* _cleanup_session): the cleanup of a dead session may delete the lock of a
\* number that has been given to somebody else since, only its socket keeps it.
OneDisplayEach ==
  \A u, v \in Users : Alive(u) /\ Alive(v) /\ u # v => sessions[u].num # sessions[v].num

\* Whatever fails, dies or is started again, all that runs of a desktop has its
\* handle in the session, so that cleaning up ends it (_cleanup_session), or,
\* of the terminal's server, lives on an X server that has; a user without a
\* session has nothing running.
NothingLeftRunning ==
  \A u \in Users : /\ running[u] \ {"terminal"} \subseteq sessions[u].has
                   /\ "terminal" \in running[u] => Alive(u)

\* A user comes back to the desktop his runtime captures, as long as its X
\* server has not ended meanwhile (get_session; handle_client of server/main.py).
SameDesktop ==
  \A u \in Users : runtimes[u] # NoDisplay /\ u \notin lost =>
    Alive(u) /\ sessions[u].num = runtimes[u]
=============================================================================
