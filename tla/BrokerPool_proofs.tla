------------------------- MODULE BrokerPool_proofs -------------------------
(***************************************************************************)
(* Proofs about BrokerPool for all sets of users and machines and for all  *)
(* thresholds: the indexes of the assignments agree, machines come into    *)
(* and go out of use at the thresholds only, users are sent where they may *)
(* go, and nobody on a machine escapes the broker but a new arrival.       *)
(***************************************************************************)
EXTENDS BrokerPool, TLAPS

(* What is left of an assignment without unknown names is an assignment. *)
LEMMA ValidIsAssignments ==
  ASSUME NEW a, DOMAIN a \subseteq Users
  PROVE  IsAssignments(Valid(a))
BY DEF IsAssignments, Valid

(* What a starting broker goes by speaks of known users. *)
LEMMA EffectiveUsers == ASSUME TypeOK PROVE DOMAIN Effective \subseteq Users
BY ConfigAssumption
DEF Effective, TypeOK, IsAssignments, Absent, Torn, Written, NoAssignments

(* An edit makes an assignment of an assignment. *)
LEMMA EditedIsAssignments ==
  ASSUME TypeOK, NEW u \in Users, NEW ms \in SUBSET Machines
  PROVE  IsAssignments(Edited(u, ms))
BY DEF TypeOK, IsAssignments, Edited

(* Indexes built from an assignment are of their types, and agree. *)
LEMMA IndexesBuilt ==
  ASSUME NEW a, DOMAIN a \subseteq Users, SetIndexes(a)
  PROVE  /\ IsAssignments(userMachines)'
         /\ machineUsers' \in [Machines -> SUBSET Users]
         /\ floating' \subseteq Machines
         /\ IndexesAgree'
<1>1. IsAssignments(userMachines)'  BY ValidIsAssignments DEF SetIndexes, IsAssignments
<1>2. machineUsers' \in [Machines -> SUBSET Users] /\ floating' \subseteq Machines
  BY DEF SetIndexes
<1>3. \A u \in Users, m \in Machines :
        u \in machineUsers'[m] <=> (u \in DOMAIN userMachines' /\ m \in userMachines'[u])
  BY DEF SetIndexes, Valid
<1>4. floating' = {m \in Machines : machineUsers'[m] = {}}
  <2>1. \A m \in Machines :
          machineUsers'[m] = {} <=> \A u \in DOMAIN a : m \notin a[u]
    BY DEF SetIndexes
  <2> QED BY <2>1 DEF SetIndexes
<1> QED BY <1>1, <1>2, <1>3, <1>4 DEF IndexesAgree

(* Both counters stay within their caps. *)
LEMMA CappedType ==
  ASSUME NEW cap \in Nat \ {0}, NEW n \in 0..cap
  PROVE  Capped(n, cap) \in 0..cap
BY DEF Capped

(* A probe's result shifts the results before it. *)
LEMMA NoteType ==
  ASSUME TypeOK, NEW m \in Machines, NEW r \in {"ok", "fail"}, Note(m, r)
  PROVE  recent' \in [Machines -> [Window -> {"ok", "fail", None}]]
<1>1. \A i \in Window : i # 1 => i - 1 \in Window  BY ThresholdAssumption DEF Window
<1> QED BY <1>1 DEF TypeOK, Note

(* TypeOK is an invariant. *)
THEOREM TypeCorrect == Spec => []TypeOK
<1>1. Init => TypeOK
  <2> SUFFICES ASSUME Init PROVE TypeOK  OBVIOUS
  <2>1. DOMAIN Effective \subseteq Users
    BY ConfigAssumption DEF Init, Effective, Absent, NoAssignments
  <2>2. IsAssignments(userMachines)  BY <2>1, ValidIsAssignments DEF Init
  <2> QED BY <2>1, <2>2, BoundsAssumption, ThresholdAssumption DEF Init, TypeOK
<1>2. TypeOK /\ [Next]_vars => TypeOK'
  <2> SUFFICES ASSUME TypeOK, [Next]_vars PROVE TypeOK'  OBVIOUS
  <2>1. ASSUME NEW m \in Machines, ProbeOk(m) PROVE TypeOK'
    <3>1. recent' \in [Machines -> [Window -> {"ok", "fail", None}]]
      BY <2>1, NoteType DEF ProbeOk
    <3>2. okRun' \in [Machines -> 0..OkThreshold]
      BY <2>1, CappedType, ThresholdAssumption DEF ProbeOk, TypeOK
    <3>3. healthy' \in [Machines -> BOOLEAN]  BY <2>1 DEF ProbeOk, TypeOK
    <3> QED BY <2>1, <3>1, <3>2, <3>3, ThresholdAssumption
      DEF ProbeOk, TypeOK, site, indexes, counts, IsAssignments
  <2>2. ASSUME NEW m \in Machines, ProbeFails(m) PROVE TypeOK'
    <3>1. recent' \in [Machines -> [Window -> {"ok", "fail", None}]]
      BY <2>2, NoteType DEF ProbeFails
    <3>2. failRun' \in [Machines -> 0..FailThreshold]
      BY <2>2, CappedType, ThresholdAssumption DEF ProbeFails, TypeOK
    <3>3. healthy' \in [Machines -> BOOLEAN]  BY <2>2 DEF ProbeFails, TypeOK
    <3>4. faults' \in 0..MaxFaults  BY <2>2, BoundsAssumption DEF ProbeFails, TypeOK
    <3> QED BY <2>2, <3>1, <3>2, <3>3, <3>4, ThresholdAssumption
      DEF ProbeFails, TypeOK, site, indexes, IsAssignments
  <2>3. ASSUME NEW m \in Machines, GoDown(m) PROVE TypeOK'
    <3>1. faults' \in 0..MaxFaults  BY <2>3, BoundsAssumption DEF GoDown, TypeOK
    <3> QED BY <2>3, <3>1 DEF GoDown, TypeOK, probes, indexes, IsAssignments
  <2>4. ASSUME NEW m \in Machines, ComeUp(m) PROVE TypeOK'
    BY <2>4 DEF ComeUp, TypeOK, probes, indexes, counts, IsAssignments
  <2>5. ASSUME NEW u \in Users, Assign(u) PROVE TypeOK'
    <3>1. PICK m \in {n \in Machines : Requestable(u, n)} \cup Choices(u) :
            ticket' = [ticket EXCEPT ![u] = m]
      BY <2>5 DEF Assign
    <3>2. m \in Machines
      BY <3>1 DEF Choices, Home, Idle, Shared, Best, Candidates, TypeOK, IsAssignments
    <3> QED BY <2>5, <3>1, <3>2 DEF Assign, TypeOK, site, probes, indexes, counts, IsAssignments
  <2>6. ASSUME NEW u \in Users, Arrive(u) PROVE TypeOK'
    BY <2>6 DEF Arrive, TypeOK, probes, indexes, counts, IsAssignments
  <2>7. ASSUME NEW u \in Users, Expire(u) PROVE TypeOK'
    BY <2>7 DEF Expire, TypeOK, site, probes, indexes, counts, IsAssignments
  <2>8. ASSUME NEW u \in Users, NEW m \in Machines, Leave(u, m) PROVE TypeOK'
    BY <2>8 DEF Leave, TypeOK, probes, indexes, counts, IsAssignments
  <2>9. ASSUME NEW u \in Users, NEW ms \in SUBSET Machines, Edit(u, ms) PROVE TypeOK'
    <3> DEFINE a == Edited(u, ms)
    <3>1. IsAssignments(a)  BY EditedIsAssignments
    <3>2. edits' \in 0..MaxEdits  BY <2>9, BoundsAssumption DEF Edit, TypeOK
    <3>3. CASE file' = Written(a) /\ SetIndexes(a) /\ UNCHANGED faults
      <4>1. DOMAIN a \subseteq Users  BY <3>1 DEF IsAssignments
      <4>2. /\ IsAssignments(userMachines)'
            /\ machineUsers' \in [Machines -> SUBSET Users] /\ floating' \subseteq Machines
        BY <3>3, <4>1, IndexesBuilt
      <4>3. file' = Written(file'.says) /\ IsAssignments(file'.says)
        BY <3>1, <3>3 DEF Written
      <4> QED BY <2>9, <3>2, <3>3, <4>2, <4>3 DEF Edit, TypeOK, site, probes, IsAssignments
    <3>4. CASE /\ faults < MaxFaults /\ faults' = faults + 1
               /\ file' \in {file, Torn} /\ UNCHANGED indexes
      <4>1. faults' \in 0..MaxFaults  BY <3>4, BoundsAssumption DEF TypeOK
      <4> QED BY <2>9, <3>2, <3>4, <4>1 DEF Edit, TypeOK, site, probes, indexes, IsAssignments
    <3> QED BY <2>9, <3>3, <3>4 DEF Edit, SaveAndSet
  <2>10. CASE Restart
    <3>1. /\ IsAssignments(userMachines)'
          /\ machineUsers' \in [Machines -> SUBSET Users] /\ floating' \subseteq Machines
      BY <2>10, EffectiveUsers, IndexesBuilt DEF Restart
    <3>2. restarts' \in 0..MaxRestarts  BY <2>10, BoundsAssumption DEF Restart, TypeOK
    <3> QED BY <2>10, <3>1, <3>2, ThresholdAssumption DEF Restart, TypeOK, site, IsAssignments
  <2>11. CASE UNCHANGED vars
    BY <2>11 DEF vars, TypeOK, site, probes, indexes, counts, IsAssignments
  <2> QED BY <2>1, <2>2, <2>3, <2>4, <2>5, <2>6, <2>7, <2>8, <2>9, <2>10, <2>11 DEF Next, Probe
<1> QED BY <1>1, <1>2, PTL DEF Spec

(* The three indexes of the assignments always agree. *)
THEOREM IndexesAlwaysAgree == Spec => []IndexesAgree
<1>1. Init => IndexesAgree
  <2> SUFFICES ASSUME Init PROVE IndexesAgree  OBVIOUS
  <2> DEFINE a == Effective
  <2>1. \A u \in Users, m \in Machines :
          u \in machineUsers[m] <=> (u \in DOMAIN userMachines /\ m \in userMachines[u])
    BY DEF Init, Valid
  <2>2. \A m \in Machines : machineUsers[m] = {} <=> \A u \in DOMAIN a : m \notin a[u]
    BY DEF Init
  <2>3. floating = {m \in Machines : machineUsers[m] = {}}  BY <2>2 DEF Init
  <2> QED BY <2>1, <2>3 DEF IndexesAgree
<1>2. TypeOK /\ IndexesAgree /\ [Next]_vars => IndexesAgree'
  <2> SUFFICES ASSUME TypeOK, IndexesAgree, [Next]_vars PROVE IndexesAgree'  OBVIOUS
  <2>1. CASE UNCHANGED indexes  BY <2>1 DEF indexes, IndexesAgree
  <2>2. ASSUME NEW u \in Users, NEW ms \in SUBSET Machines, Edit(u, ms) PROVE IndexesAgree'
    <3>1. DOMAIN Edited(u, ms) \subseteq Users  BY EditedIsAssignments DEF IsAssignments
    <3>2. SetIndexes(Edited(u, ms)) \/ UNCHANGED indexes  BY <2>2 DEF Edit, SaveAndSet
    <3> QED BY <2>1, <3>1, <3>2, IndexesBuilt
  <2>3. CASE Restart  BY <2>3, EffectiveUsers, IndexesBuilt DEF Restart
  <2>4. (\E u \in Users, ms \in SUBSET Machines : Edit(u, ms)) \/ Restart \/ UNCHANGED indexes
    BY DEF Next, vars, Probe, ProbeOk, ProbeFails, GoDown, ComeUp, Assign, Arrive, Expire, Leave
  <2> QED BY <2>1, <2>2, <2>3, <2>4
<1> QED BY <1>1, <1>2, TypeCorrect, PTL DEF Spec

(* The counters say what the last probes were: the strengthening Thresholds needs. *)
RunsAreRecent ==
  \A m \in Machines :
    /\ \A i \in 1..okRun[m] : recent[m][i] = "ok"
    /\ \A i \in 1..failRun[m] : recent[m][i] = "fail"

(* A result of kind r lengthens a run of that kind. *)
LEMMA RunGrows ==
  ASSUME TypeOK, NEW m \in Machines, NEW r \in {"ok", "fail"}, Note(m, r),
         NEW cap \in {OkThreshold, FailThreshold}, NEW n \in 0..cap,
         \A i \in 1..n : recent[m][i] = r
  PROVE  \A i \in 1..Capped(n, cap) : recent'[m][i] = r
<1> SUFFICES ASSUME NEW i \in 1..Capped(n, cap) PROVE recent'[m][i] = r  OBVIOUS
<1>1. i \in Window /\ i \in 1..n + 1  BY ThresholdAssumption DEF Window, Capped
<1>2. recent'[m][i] = IF i = 1 THEN r ELSE recent[m][i - 1]
  BY <1>1 DEF Note, TypeOK
<1>3. i # 1 => i - 1 \in 1..n  BY <1>1, ThresholdAssumption
<1> QED BY <1>2, <1>3

(* A step leaves the probes alone, or is a probe or a restart. *)
LEMMA ProbeSteps ==
  ASSUME [Next]_vars
  PROVE  (\E m \in Machines : ProbeOk(m) \/ ProbeFails(m)) \/ Restart \/ UNCHANGED probes
BY DEF Next, vars, Probe, GoDown, ComeUp, Assign, Arrive, Expire, Leave, Edit

(* The counters keep saying it. *)
LEMMA RunsAlwaysRecent == Spec => []RunsAreRecent
<1>1. Init => RunsAreRecent  BY DEF Init, RunsAreRecent
<1>2. TypeOK /\ RunsAreRecent /\ [Next]_vars => RunsAreRecent'
  <2> SUFFICES ASSUME TypeOK, RunsAreRecent, [Next]_vars PROVE RunsAreRecent'  OBVIOUS
  <2>1. ASSUME NEW m \in Machines, ProbeOk(m) PROVE RunsAreRecent'
    <3>1. \A i \in 1..okRun'[m] : recent'[m][i] = "ok"
      <4>1. okRun'[m] = Capped(okRun[m], OkThreshold) /\ okRun[m] \in 0..OkThreshold
        BY <2>1 DEF ProbeOk, TypeOK
      <4> QED BY <2>1, <4>1, RunGrows DEF ProbeOk, RunsAreRecent
    <3>2. failRun'[m] = 0  BY <2>1 DEF ProbeOk, TypeOK
    <3>3. \A n \in Machines \ {m} :
            okRun'[n] = okRun[n] /\ failRun'[n] = failRun[n] /\ recent'[n] = recent[n]
      BY <2>1 DEF ProbeOk, Note, TypeOK
    <3> QED BY <3>1, <3>2, <3>3 DEF RunsAreRecent
  <2>2. ASSUME NEW m \in Machines, ProbeFails(m) PROVE RunsAreRecent'
    <3>1. \A i \in 1..failRun'[m] : recent'[m][i] = "fail"
      <4>1. failRun'[m] = Capped(failRun[m], FailThreshold) /\ failRun[m] \in 0..FailThreshold
        BY <2>2 DEF ProbeFails, TypeOK
      <4> QED BY <2>2, <4>1, RunGrows DEF ProbeFails, RunsAreRecent
    <3>2. okRun'[m] = 0  BY <2>2 DEF ProbeFails, TypeOK
    <3>3. \A n \in Machines \ {m} :
            okRun'[n] = okRun[n] /\ failRun'[n] = failRun[n] /\ recent'[n] = recent[n]
      BY <2>2 DEF ProbeFails, Note, TypeOK
    <3> QED BY <3>1, <3>2, <3>3 DEF RunsAreRecent
  <2>3. CASE Restart  BY <2>3 DEF Restart, RunsAreRecent
  <2>4. CASE UNCHANGED probes  BY <2>4 DEF probes, RunsAreRecent
  <2> QED BY <2>1, <2>2, <2>3, <2>4, ProbeSteps
<1> QED BY <1>1, <1>2, TypeCorrect, PTL DEF Spec

(* Machines come into and go out of use at the thresholds only. *)
THEOREM ThresholdsHold == Spec => Thresholds
<1> DEFINE Step ==
      \A m \in Machines :
        /\ ~healthy[m] /\ healthy'[m] => LastAll(m, OkThreshold, "ok")'
        /\ healthy[m] /\ ~healthy'[m] =>
             LastAll(m, FailThreshold, "fail")' \/ restarts' # restarts
<1>1. TypeOK /\ TypeOK' /\ RunsAreRecent' /\ [Next]_vars => Step
  <2> SUFFICES ASSUME TypeOK, TypeOK', RunsAreRecent', [Next]_vars PROVE Step  OBVIOUS
  <2>1. ASSUME NEW m \in Machines, ProbeOk(m) PROVE Step
    <3>1. healthy'[m] = (healthy[m] \/ okRun'[m] >= OkThreshold)
      BY <2>1 DEF ProbeOk, TypeOK
    <3>2. okRun'[m] >= OkThreshold => LastAll(m, OkThreshold, "ok")'
      BY ThresholdAssumption DEF RunsAreRecent, LastAll, TypeOK
    <3>3. \A n \in Machines \ {m} : healthy'[n] = healthy[n]  BY <2>1 DEF ProbeOk, TypeOK
    <3> QED BY <3>1, <3>2, <3>3, Zenon
  <2>2. ASSUME NEW m \in Machines, ProbeFails(m) PROVE Step
    <3>1. healthy'[m] = (healthy[m] /\ failRun'[m] < FailThreshold)
      BY <2>2 DEF ProbeFails, TypeOK
    <3>2. ~(failRun'[m] < FailThreshold) => LastAll(m, FailThreshold, "fail")'
      BY ThresholdAssumption DEF RunsAreRecent, LastAll, TypeOK
    <3>3. \A n \in Machines \ {m} : healthy'[n] = healthy[n]  BY <2>2 DEF ProbeFails, TypeOK
    <3> QED BY <3>1, <3>2, <3>3, Zenon
  <2>3. CASE Restart
    <3>1. restarts' # restarts  BY <2>3, BoundsAssumption DEF Restart, TypeOK
    <3>2. \A m \in Machines : ~healthy'[m]  BY <2>3 DEF Restart
    <3> QED BY <3>1, <3>2
  <2>4. CASE UNCHANGED probes  BY <2>4 DEF probes
  <2> QED BY <2>1, <2>2, <2>3, <2>4, ProbeSteps
<1> QED BY <1>1, TypeCorrect, RunsAlwaysRecent, PTL DEF Spec, Thresholds

(* Whatever happens between a user's hello and his choice, he is sent to a
   machine that is healthy and his. *)
THEOREM SentWhereAllowedHolds == Spec => SentWhereAllowed
<1> DEFINE Step ==
      \A u \in Users : ticket'[u] \notin {ticket[u], None}
        => healthy[ticket'[u]] /\ MayHave(u, ticket'[u])
<1>1. TypeOK /\ [Next]_vars => Step
  <2> SUFFICES ASSUME TypeOK, [Next]_vars PROVE Step  OBVIOUS
  <2>1. ASSUME NEW u \in Users, Assign(u) PROVE Step
    <3>1. PICK m \in {n \in Machines : Requestable(u, n)} \cup Choices(u) :
            ticket' = [ticket EXCEPT ![u] = m]
      BY <2>1 DEF Assign
    <3>2. healthy[m] /\ MayHave(u, m)
      BY <3>1 DEF Requestable, Choices, Home, Idle, Shared, Best, MayHave
    <3>3. ticket'[u] = m /\ \A v \in Users \ {u} : ticket'[v] = ticket[v]
      BY <3>1 DEF TypeOK
    <3> QED BY <3>2, <3>3, Zenon
  <2>2. ASSUME NEW u \in Users, Arrive(u) \/ Expire(u) PROVE Step
    BY <2>2 DEF Arrive, Expire, TypeOK
  <2>3. CASE UNCHANGED ticket  BY <2>3
  <2> QED BY <2>1, <2>2, <2>3
    DEF Next, vars, Probe, ProbeOk, ProbeFails, GoDown, ComeUp, Leave, Edit, Restart
<1> QED BY <1>1, TypeCorrect, PTL DEF Spec, SentWhereAllowed

(* Nobody is connected to a machine in use without the broker having seen him,
   but those that came since it last looked. *)
THEOREM AlwaysAccounted == Spec => []Accounted
<1>1. Init => Accounted  BY DEF Init, Accounted
<1>2. TypeOK /\ Accounted /\ [Next]_vars => Accounted'
  <2> SUFFICES ASSUME TypeOK, Accounted, [Next]_vars PROVE Accounted'  OBVIOUS
  <2>1. ASSUME NEW m \in Machines, ProbeOk(m) PROVE Accounted'
    <3>1. seen'[m] = connected[m] /\ connected' = connected
      BY <2>1 DEF ProbeOk, TypeOK, site
    <3>2. \A n \in Machines \ {m} :
            healthy'[n] = healthy[n] /\ seen'[n] = seen[n] /\ fresh'[n] = fresh[n]
      BY <2>1 DEF ProbeOk, TypeOK
    <3> QED BY <3>1, <3>2 DEF Accounted
  <2>2. ASSUME NEW m \in Machines, ProbeFails(m) PROVE Accounted'
    <3>1. \A n \in Machines : healthy'[n] => healthy[n]  BY <2>2 DEF ProbeFails, TypeOK
    <3> QED BY <2>2, <3>1 DEF ProbeFails, Accounted, site
  <2>3. ASSUME NEW m \in Machines, GoDown(m) \/ ComeUp(m) PROVE Accounted'
    BY <2>3 DEF GoDown, ComeUp, Accounted, TypeOK, probes
  <2>4. ASSUME NEW u \in Users, Arrive(u) PROVE Accounted'
    BY <2>4 DEF Arrive, Accounted, TypeOK, probes
  <2>5. ASSUME NEW u \in Users, NEW m \in Machines, Leave(u, m) PROVE Accounted'
    BY <2>5 DEF Leave, Accounted, TypeOK, probes
  <2>6. CASE Restart  BY <2>6 DEF Restart, Accounted
  <2>7. CASE UNCHANGED <<connected, probes, fresh>>  BY <2>7 DEF Accounted, probes
  <2> QED BY <2>1, <2>2, <2>3, <2>4, <2>5, <2>6, <2>7
    DEF Next, vars, site, Probe, Assign, Expire, Edit
<1> QED BY <1>1, <1>2, TypeCorrect, PTL DEF Spec
=============================================================================
