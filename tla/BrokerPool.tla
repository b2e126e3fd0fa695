----------------------------- MODULE BrokerPool -----------------------------
(***************************************************************************)
(* The broker: a MachinePool that probes the machines, tells users which   *)
(* ones they may have and assigns one; the administrators' assignments,    *)
(* kept in a file; and, as far as the broker can tell, the machines.       *)
(*                                                                         *)
(* A user here has been let in (Connection has the rest of the handshake)  *)
(* and is shown the machines; up to 30 seconds later he asks for one, or   *)
(* leaves the choice to the broker.  Meanwhile machines come and go and    *)
(* assignments are edited.  Nothing is reserved: the broker sees that a    *)
(* machine is taken when it next probes it.                                *)
(*                                                                         *)
(* A probe is one step.  The two counters of consecutive results only ever *)
(* meet a threshold in a >=, so they are counted up to it.                 *)
(***************************************************************************)
EXTENDS Naturals, FiniteSets

CONSTANTS
  Users, Machines,
  Admins,         \* the users in teraguchi-admins
  priority,       \* per machine, lower is better
  OkThreshold,    \* HEALTH_OK_THRESHOLD
  FailThreshold,  \* HEALTH_FAIL_THRESHOLD
  Configured,     \* assignments in broker.yml, may name machines that are gone
  Legacy,         \* the old fields pool and assigned_user, as assignments
  MaxEdits,       \* bound: edits of the assignments
  MaxRestarts,    \* bound: restarts of the broker
  MaxFaults       \* bound: machines lost, probes and saves failed

ASSUME AdminsAssumption == Admins \subseteq Users
ASSUME PriorityAssumption == priority \in [Machines -> Nat]
ASSUME ThresholdAssumption == OkThreshold \in Nat \ {0} /\ FailThreshold \in Nat \ {0}
ASSUME ConfigAssumption == DOMAIN Configured \subseteq Users /\ DOMAIN Legacy \subseteq Users
ASSUME BoundsAssumption == MaxEdits \in Nat /\ MaxRestarts \in Nat /\ MaxFaults \in Nat

VARIABLES
  up,            \* the machines that answer
  sessions,      \* per machine, the users with a runtime
  connected,     \* per machine, those with a client connected
  healthy, okRun, failRun,  \* per machine: healthy, consecutive_ok, consecutive_fail
  seen,          \* per machine, active_sessions of the last good probe
  userMachines,  \* _user_machines
  machineUsers,  \* _machine_users
  floating,      \* _floating
  file,          \* the assignments file
  ticket,        \* per user, the machine he has a token for
  recent,        \* history, per machine: results of the last probes, latest first
  fresh,         \* history, per machine: users that came since the last good probe
  edits, restarts, faults

site    == <<up, sessions, connected>>
probes  == <<healthy, okRun, failRun, seen, recent>>
indexes == <<userMachines, machineUsers, floating>>
counts  == <<edits, restarts, faults>>
vars    == <<site, probes, fresh, indexes, file, ticket, counts>>

None == "none"
NoAssignments == [u \in {} |-> {}]
Absent == [is |-> "absent", says |-> NoAssignments]
Torn == [is |-> "torn", says |-> NoAssignments]   \* opened for writing, not written
Written(a) == [is |-> "written", says |-> a]
Window == 1..(IF OkThreshold < FailThreshold THEN FailThreshold ELSE OkThreshold)
IsAssignments(a) ==
  DOMAIN a \subseteq Users /\ a \in [DOMAIN a -> (SUBSET Machines) \ {{}}]

TypeOK ==
  /\ up \subseteq Machines
  /\ sessions \in [Machines -> SUBSET Users] /\ connected \in [Machines -> SUBSET Users]
  /\ healthy \in [Machines -> BOOLEAN]
  /\ okRun \in [Machines -> 0..OkThreshold] /\ failRun \in [Machines -> 0..FailThreshold]
  /\ seen \in [Machines -> SUBSET Users] /\ fresh \in [Machines -> SUBSET Users]
  /\ recent \in [Machines -> [Window -> {"ok", "fail", None}]]
  /\ IsAssignments(userMachines)
  /\ machineUsers \in [Machines -> SUBSET Users]
  /\ floating \subseteq Machines
  /\ file \in {Absent, Torn} \/ (file = Written(file.says) /\ IsAssignments(file.says))
  /\ ticket \in [Users -> Machines \cup {None}]
  /\ edits \in 0..MaxEdits /\ restarts \in 0..MaxRestarts /\ faults \in 0..MaxFaults
-----------------------------------------------------------------------------
\* Assignments and their indexes.

\* Names of unknown machines are skipped, and users left without any.
Valid(a) == [u \in {v \in DOMAIN a : a[v] \cap Machines # {}} |-> a[u] \cap Machines]

SetIndexesKeepingFloating(a) ==
  /\ userMachines' = Valid(a)
  /\ machineUsers' = [m \in Machines |-> {u \in DOMAIN a : m \in a[u]}]
  /\ floating' = {m \in floating : \A u \in DOMAIN a : m \notin a[u]}
SetIndexes(a) ==
  /\ userMachines' = Valid(a)
  /\ machineUsers' = [m \in Machines |-> {u \in DOMAIN a : m \in a[u]}]
  /\ floating' = {m \in Machines : \A u \in DOMAIN a : m \notin a[u]}

\* main and MachinePool.__init__: the file before the configuration, and the
\* legacy fields where neither assigns anything.
Effective ==
  LET a == IF file = Absent THEN Configured ELSE file.says IN
  IF DOMAIN a = {} THEN Legacy ELSE a

Init ==
  /\ up \in SUBSET Machines
  /\ sessions = [m \in Machines |-> {}] /\ connected = [m \in Machines |-> {}]
  /\ healthy = [m \in Machines |-> FALSE]
  /\ okRun = [m \in Machines |-> 0] /\ failRun = [m \in Machines |-> 0]
  /\ seen = [m \in Machines |-> {}] /\ fresh = [m \in Machines |-> {}]
  /\ recent = [m \in Machines |-> [i \in Window |-> None]]
  /\ file = Absent
  /\ userMachines = Valid(Effective)
  /\ machineUsers = [m \in Machines |-> {u \in DOMAIN Effective : m \in Effective[u]}]
  /\ floating = {m \in Machines : \A u \in DOMAIN Effective : m \notin Effective[u]}
  /\ ticket = [u \in Users |-> None]
  /\ edits = 0 /\ restarts = 0 /\ faults = 0
-----------------------------------------------------------------------------
\* _probe_one.

Capped(n, cap) == IF n < cap THEN n + 1 ELSE cap
Note(m, r) ==
  recent' = [recent EXCEPT ![m] = [i \in Window |-> IF i = 1 THEN r ELSE recent[m][i - 1]]]

ProbeOkSeeingOnceHealthy(m) ==
  /\ m \in up
  /\ okRun' = [okRun EXCEPT ![m] = Capped(@, OkThreshold)]
  /\ failRun' = [failRun EXCEPT ![m] = 0]
  /\ healthy' = [healthy EXCEPT ![m] = @ \/ okRun'[m] >= OkThreshold]
  /\ seen' = IF healthy[m] THEN [seen EXCEPT ![m] = connected[m]] ELSE seen
  /\ fresh' = [fresh EXCEPT ![m] = {}]
  /\ Note(m, "ok")
  /\ UNCHANGED <<site, indexes, file, ticket, counts>>
ProbeOk(m) ==
  /\ m \in up
  /\ seen' = [seen EXCEPT ![m] = connected[m]]
  /\ fresh' = [fresh EXCEPT ![m] = {}]
  /\ okRun' = [okRun EXCEPT ![m] = Capped(@, OkThreshold)]
  /\ failRun' = [failRun EXCEPT ![m] = 0]
  /\ healthy' = [healthy EXCEPT ![m] = @ \/ okRun'[m] >= OkThreshold]
  /\ Note(m, "ok")
  /\ UNCHANGED <<site, indexes, file, ticket, counts>>

\* The session list stays what it was.
ProbeFails(m) ==
  /\ \/ m \notin up /\ UNCHANGED faults
     \/ m \in up /\ faults < MaxFaults /\ faults' = faults + 1
  /\ failRun' = [failRun EXCEPT ![m] = Capped(@, FailThreshold)]
  /\ okRun' = [okRun EXCEPT ![m] = 0]
  /\ healthy' = [healthy EXCEPT ![m] = @ /\ failRun'[m] < FailThreshold]
  /\ Note(m, "fail")
  /\ UNCHANGED <<site, seen, fresh, indexes, file, ticket, edits, restarts>>

\* No connection is a failure like any other.
ProbeAnswered(m) == ProbeOk(m) \/ (m \in up /\ ProbeFails(m))
Probe(m) == ProbeOk(m) \/ ProbeFails(m)
-----------------------------------------------------------------------------
\* handle_client.

Candidates(u) == IF u \in DOMAIN userMachines THEN userMachines[u] ELSE floating
MayHave(u, m) == m \in Candidates(u)

\* assign: a machine he is on already, else the best of the idle ones, else,
\* for those that may share, the best of all.
Home(u) == {m \in Candidates(u) : healthy[m] /\ u \in seen[m]}
Idle(u) == {m \in Candidates(u) : healthy[m] /\ seen[m] = {}}
Shared(u) ==
  {m \in Candidates(u) : healthy[m] /\ (u \in Admins \/ u \in DOMAIN userMachines)}
Load(m) == Cardinality(seen[m])
Best(ms) ==
  {m \in ms : \A n \in ms : \/ Load(m) < Load(n)
                            \/ Load(m) = Load(n) /\ priority[m] <= priority[n]}
Choices(u) ==
  IF Home(u) # {} THEN Home(u) ELSE IF Idle(u) # {} THEN Best(Idle(u)) ELSE Best(Shared(u))

\* The user names a machine, or leaves it to the broker.  He was shown a list,
\* up to 30 seconds ago, of all machines or of those he could have: he may
\* name any by now, and what he names is looked up.  A user turned away, or
\* too late, leaves no trace.
RequestableOnceListed(u, m) == healthy[m]
Requestable(u, m) == MayHave(u, m) /\ healthy[m]

Assign(u) ==
  /\ \E m \in {n \in Machines : Requestable(u, n)} \cup Choices(u) :
       ticket' = [ticket EXCEPT ![u] = m]
  /\ UNCHANGED <<site, probes, fresh, indexes, file, counts>>
-----------------------------------------------------------------------------
\* The machines.

\* The token is taken to the machine, which doesn't know the assignments, or
\* it expires.
Arrive(u) ==
  /\ ticket[u] \in up
  /\ sessions' = [sessions EXCEPT ![ticket[u]] = @ \cup {u}]
  /\ connected' = [connected EXCEPT ![ticket[u]] = @ \cup {u}]
  /\ fresh' = [fresh EXCEPT ![ticket[u]] = @ \cup {u}]
  /\ ticket' = [ticket EXCEPT ![u] = None]
  /\ UNCHANGED <<up, probes, indexes, file, counts>>
Expire(u) ==
  /\ ticket[u] # None
  /\ ticket' = [ticket EXCEPT ![u] = None]
  /\ UNCHANGED <<site, probes, fresh, indexes, file, counts>>

\* The last client of a user goes; the runtime stays for his return.
Leave(u, m) ==
  /\ u \in connected[m]
  /\ connected' = [connected EXCEPT ![m] = @ \ {u}]
  /\ UNCHANGED <<up, sessions, probes, fresh, indexes, file, ticket, counts>>

GoDown(m) ==
  /\ m \in up /\ faults < MaxFaults
  /\ faults' = faults + 1
  /\ up' = up \ {m}
  /\ sessions' = [sessions EXCEPT ![m] = {}] /\ connected' = [connected EXCEPT ![m] = {}]
  /\ UNCHANGED <<probes, fresh, indexes, file, ticket, edits, restarts>>
ComeUp(m) ==
  /\ m \notin up
  /\ up' = up \cup {m}
  /\ UNCHANGED <<sessions, connected, probes, fresh, indexes, file, ticket, counts>>
-----------------------------------------------------------------------------
\* AdminServer: set-user and delete-user; the file first, then the pool.

Edited(u, ms) ==
  [v \in (DOMAIN userMachines \ {u}) \cup (IF ms = {} THEN {} ELSE {u}) |->
     IF v = u THEN ms ELSE userMachines[v]]

SaveAndSet(a) ==
  \/ /\ file' = Written(a) /\ SetIndexes(a)
     /\ UNCHANGED faults
  \* The file can't be opened, or can't be written.
  \/ /\ faults < MaxFaults /\ faults' = faults + 1
     /\ file' \in {file, Torn}
     /\ UNCHANGED indexes

Edit(u, ms) ==
  /\ edits < MaxEdits
  /\ edits' = edits + 1
  /\ SaveAndSet(Edited(u, ms))
  /\ UNCHANGED <<site, probes, fresh, ticket, restarts>>

\* Tokens are good after a restart: the secret is in a file.
Restart ==
  /\ restarts < MaxRestarts
  /\ restarts' = restarts + 1
  /\ SetIndexes(Effective)
  /\ healthy' = [m \in Machines |-> FALSE]
  /\ okRun' = [m \in Machines |-> 0] /\ failRun' = [m \in Machines |-> 0]
  /\ seen' = [m \in Machines |-> {}]
  /\ recent' = [m \in Machines |-> [i \in Window |-> None]]
  /\ UNCHANGED <<site, fresh, file, ticket, edits, faults>>
-----------------------------------------------------------------------------
Next ==
  \/ \E m \in Machines : Probe(m) \/ GoDown(m) \/ ComeUp(m)
  \/ \E u \in Users : Assign(u) \/ Arrive(u) \/ Expire(u)
  \/ \E u \in Users, m \in Machines : Leave(u, m)
  \/ \E u \in Users, ms \in SUBSET Machines : Edit(u, ms)
  \/ Restart

\* _probe_loop goes on for ever.
Spec == Init /\ [][Next]_vars /\ \A m \in Machines : WF_vars(Probe(m))
-----------------------------------------------------------------------------
(* The three indexes, rebuilt one after the other by every edit, say the same:
   a machine is somebody's exactly if it is not in the floating pool, so that
   no machine is out of everybody's reach. *)
IndexesAgree ==
  /\ \A u \in Users, m \in Machines :
       u \in machineUsers[m] <=> (u \in DOMAIN userMachines /\ m \in userMachines[u])
  /\ floating = {m \in Machines : machineUsers[m] = {}}

(* A machine comes into use only when it has answered OkThreshold times running,
   and goes out of use only when it has failed FailThreshold times running, or with
   the broker: whatever the order of good and bad probes, one of the other
   kind starts the count anew. *)
LastAll(m, n, r) == \A i \in 1..n : recent[m][i] = r
Thresholds ==
  [][\A m \in Machines :
       /\ ~healthy[m] /\ healthy'[m] => LastAll(m, OkThreshold, "ok")'
       /\ healthy[m] /\ ~healthy'[m] =>
            LastAll(m, FailThreshold, "fail")' \/ restarts' # restarts]_vars

(* A user is sent to machines only that are healthy and his when he is sent
   there, though the list he picked from may be half a minute old. *)
SentWhereAllowed ==
  [][\A u \in Users : ticket'[u] \notin {ticket[u], None}
       => healthy[ticket'[u]] /\ MayHave(u, ticket'[u])]_vars

(* Whoever is connected to a machine of the pool is in its session list, or has
   come since the machine was last probed: a machine that goes down and comes
   back, or is found again by a restarted broker, isn't taken for idle. *)
Accounted ==
  \A m \in Machines : healthy[m] => connected[m] \subseteq seen[m] \cup fresh[m]

(* A machine that answers for good comes into use for good, one that is gone
   for good goes out of use, if only finitely many probes go wrong. *)
HealthFollows ==
  \A m \in Machines :
    /\ (<>[](m \in up) => <>[]healthy[m])
    /\ (<>[](m \notin up) => <>[]~healthy[m])
=============================================================================
