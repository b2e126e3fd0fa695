---------------------------- MODULE Shell_proofs ----------------------------
(***************************************************************************)
(* Proofs about what the user moves between the machines and about the     *)
(* client's window: the transfer of large clipboards, the tabs and their   *)
(* sessions with the picker of machines, and the USB devices.              *)
(***************************************************************************)
EXTENDS ClipboardTransfer, ClientShell, FiniteSetTheorems, SequenceTheorems, TLAPS

\* What a list is after an item has been taken out of it.
LEMMA Removed ==
  ASSUME NEW S, NEW s \in Seq(S), NEW i \in 1..Len(s)
  PROVE  /\ RemoveAt(s, i) \in Seq(S) /\ Len(RemoveAt(s, i)) = Len(s) - 1
         /\ \A j \in 1..Len(s) - 1 : RemoveAt(s, i)[j] = IF j < i THEN s[j] ELSE s[j + 1]
<1> DEFINE a == SubSeq(s, 1, i - 1)
           b == SubSeq(s, i + 1, Len(s))
<1>1. a \in Seq(S) /\ Len(a) = i - 1 /\ \A j \in 1..i - 1 : a[j] = s[j]
  OBVIOUS
<1>2. b \in Seq(S) /\ Len(b) = Len(s) - i /\ \A j \in 1..Len(s) - i : b[j] = s[j + i]
  OBVIOUS
<1>3. RemoveAt(s, i) = a \o b  BY DEF RemoveAt
<1> HIDE DEF a, b
<1>4. a \o b \in Seq(S) /\ Len(a \o b) = Len(s) - 1
  <2>1. a \o b \in Seq(S) /\ Len(a \o b) = Len(a) + Len(b)  BY <1>1, <1>2, ConcatProperties
  <2>2. Len(s) \in Nat  OBVIOUS
  <2> QED BY <1>1, <1>2, <2>1, <2>2
<1>5. ASSUME NEW j \in 1..Len(s) - 1 PROVE (a \o b)[j] = IF j < i THEN s[j] ELSE s[j + 1]
  <2>1. CASE j < i
    <3>1. (a \o b)[j] = a[j]  BY <1>1, <1>2, <2>1
    <3> QED BY <1>1, <2>1, <3>1
  <2>2. CASE ~(j < i)
    <3>1. j - (i - 1) \in 1..Len(s) - i  BY <2>2
    <3>2. (a \o b)[j] = b[j - (i - 1)]  BY <1>1, <1>2, <2>2
    <3>3. (j - (i - 1)) + i = j + 1  OBVIOUS
    <3>4. b[j - (i - 1)] = s[j + 1]  BY <1>2, <3>1, <3>3
    <3> QED BY <2>2, <3>2, <3>4
  <2> QED BY <2>1, <2>2
<1> QED BY <1>3, <1>4, <1>5

-----------------------------------------------------------------------------
(* ClipboardTransfer: types.                                               *)

\* A table of assemblers and the chunks they hold, as TypeOK has it.
Table(as, hs) ==
  /\ DOMAIN as \subseteq Seqs
  /\ \A s \in DOMAIN as : as[s] \in [total : 1..MaxTotal, old : BOOLEAN]
  /\ \A s \in DOMAIN as : {h.index : h \in {g \in hs : g.seq = s}} # 0..as[s].total - 1
  /\ \A h \in hs : h \in Chunk /\ h.seq \in DOMAIN as /\ h.index < as[h.seq].total

\* Assemblers that go with what they hold leave the others complete.
LEMMA TableKept ==
  ASSUME NEW as, NEW hs, Table(as, hs), NEW S \in SUBSET DOMAIN as
  PROVE  Table(Restrict(as, S), {h \in hs : h.seq \in S})
<1> DEFINE bs == Restrict(as, S)
           gs == {h \in hs : h.seq \in S}
<1>1. DOMAIN bs = S /\ \A s \in S : bs[s] = as[s]  BY DEF Restrict
<1>2. ASSUME NEW s \in S PROVE {g \in gs : g.seq = s} = {g \in hs : g.seq = s}
  OBVIOUS
<1> HIDE DEF bs
<1>3. \A s \in DOMAIN bs : {h.index : h \in {g \in gs : g.seq = s}} # 0..bs[s].total - 1
  BY <1>1, <1>2 DEF Table
<1>4. \A h \in gs : h \in Chunk /\ h.seq \in DOMAIN bs /\ h.index < bs[h.seq].total
  BY <1>1 DEF Table
<1> QED BY <1>1, <1>3, <1>4 DEF Table, bs

\* So does reaping.
LEMMA Reaped ==
  ASSUME NEW as, NEW hs, Table(as, hs), Reap(as, hs)
  PROVE  Table(asm', held') /\ held' \subseteq hs
<1> DEFINE S == {s \in DOMAIN as : ~as[s].old}
<1>1. held' = {h \in hs : h.seq \in S} /\ asm' = Restrict(as, S)  BY DEF Reap
<1>2. S \in SUBSET DOMAIN as  OBVIOUS
<1> HIDE DEF S
<1> QED BY <1>1, <1>2, TableKept

\* The table that has taken in m.
Taken(m) == [s \in DOMAIN asm \cup {m.seq} |->
              IF s = m.seq THEN [total |-> TotalOf(m), old |-> AgeOf(m)] ELSE asm[s]]

\* It is a table still, if m didn't complete it.
LEMMA TakenTable ==
  ASSUME Table(asm, held), NEW m \in Chunk, ~Complete(m),
         m.seq \in DOMAIN asm \/ m.total <= MaxTotal
  PROVE  Table(Taken(m), HeldWith(m))
<1> DEFINE as == Taken(m)
           hs == HeldWith(m)
<1>1. /\ m.seq \in Seqs /\ m.index \in Nat /\ m.total \in Nat \ {0}
  BY SizesAssumption DEF Chunk
<1>2. TotalOf(m) \in 1..MaxTotal /\ AgeOf(m) \in BOOLEAN
  BY <1>1, CapAssumption DEF TotalOf, AgeOf, Table
<1>3. /\ DOMAIN as = DOMAIN asm \cup {m.seq}
      /\ as[m.seq] = [total |-> TotalOf(m), old |-> AgeOf(m)]
      /\ \A s \in DOMAIN asm \ {m.seq} : as[s] = asm[s]
  BY DEF Taken
<1>4. hs = held \/ (hs = held \cup {m} /\ m.index < TotalOf(m))  BY DEF HeldWith
<1>5. m.seq \in DOMAIN asm => asm[m.seq].total = TotalOf(m)  BY DEF TotalOf
<1> HIDE DEF as
<1>9. as[m.seq].total = TotalOf(m) /\ as[m.seq] \in [total : 1..MaxTotal, old : BOOLEAN]
  BY <1>2, <1>3
<1>6. /\ DOMAIN as \subseteq Seqs
      /\ \A s \in DOMAIN as : as[s] \in [total : 1..MaxTotal, old : BOOLEAN]
  BY <1>1, <1>3, <1>9 DEF Table
<1>7. ASSUME NEW h \in hs
      PROVE  h \in Chunk /\ h.seq \in DOMAIN as /\ h.index < as[h.seq].total
  <2>1. CASE h = m /\ m.index < TotalOf(m)  BY <1>3, <1>9, <2>1
  <2>2. CASE h \in held
    <3>1. h \in Chunk /\ h.seq \in DOMAIN asm /\ h.index < asm[h.seq].total
      BY <2>2 DEF Table
    <3>2. as[h.seq].total = asm[h.seq].total  BY <1>3, <1>5, <1>9, <3>1
    <3> QED BY <1>3, <3>1, <3>2
  <2> QED BY <1>4, <2>1, <2>2
<1>8. ASSUME NEW s \in DOMAIN as
      PROVE  {h.index : h \in {g \in hs : g.seq = s}} # 0..as[s].total - 1
  <2>1. CASE s # m.seq
    <3>1. {g \in hs : g.seq = s} = {g \in held : g.seq = s}  BY <1>4, <2>1
    <3>2. s \in DOMAIN asm /\ as[s] = asm[s]  BY <1>3, <2>1
    <3> QED BY <3>1, <3>2 DEF Table
  <2>2. CASE s = m.seq /\ hs = held
    <3>1. CASE s \in DOMAIN asm
      <4>1. as[s].total = asm[s].total  BY <1>5, <1>9, <2>2, <3>1
      <4> QED BY <2>2, <3>1, <4>1 DEF Table
    <3>2. CASE s \notin DOMAIN asm
      <4>1. {h.index : h \in {g \in hs : g.seq = s}} = {}  BY <2>2, <3>2 DEF Table
      <4>2. as[s].total = TotalOf(m)  BY <1>9, <2>2
      <4>3. 0 \in 0..as[s].total - 1  BY <1>2, <4>2
      <4> QED BY <4>1, <4>3
    <3> QED BY <3>1, <3>2
  <2>3. CASE s = m.seq /\ hs # held
    <3>1. PICK i \in 0..TotalOf(m) - 1 : ~\E h \in hs : h.seq = m.seq /\ h.index = i
      BY <2>3 DEF Complete
    <3>2. i \in 0..as[s].total - 1  BY <1>9, <2>3
    <3> QED BY <2>3, <3>1, <3>2
  <2> QED BY <2>1, <2>2, <2>3
<1> QED BY <1>6, <1>7, <1>8 DEF Table, as

\* Numbers turned away are never more than the set may hold.
LEMMA Tracked ==
  ASSUME dropped \subseteq Seqs, Cardinality(dropped) <= DropCap, NEW s \in Seqs, Track(s)
  PROVE  dropped' \subseteq Seqs /\ Cardinality(dropped') <= DropCap
<1>1. IsFiniteSet(Seqs)
  BY FS_Interval, CapAssumption DEF Seqs
<1>2. IsFiniteSet(dropped) /\ Cardinality(dropped) \in Nat
  BY <1>1, FS_Subset, FS_CardinalityType
<1>3. DropCap \in Nat \ {0}  BY CapAssumption
<1>4. ASSUME NEW T, IsFiniteSet(T) PROVE Cardinality(T \cup {s}) <= Cardinality(T) + 1
  <2>1. Cardinality(T) \in Nat  BY <1>4, FS_CardinalityType
  <2>2. \/ Cardinality(T \cup {s}) = Cardinality(T)
        \/ Cardinality(T \cup {s}) = Cardinality(T) + 1
    BY <1>4, FS_AddElement
  <2> QED BY <2>1, <2>2
<1>5. ASSUME Cardinality(dropped) >= DropCap
      PROVE  dropped' \subseteq Seqs /\ Cardinality(dropped') <= DropCap
  <2>1. PICK e \in dropped : dropped' = (dropped \ {e}) \cup {s}  BY <1>5 DEF Track
  <2> DEFINE T == dropped \ {e}
  <2>2. IsFiniteSet(T) /\ Cardinality(T) = Cardinality(dropped) - 1
    BY <1>2, FS_RemoveElement
  <2>3. dropped' = T \cup {s}  BY <2>1
  <2>4. dropped' \subseteq Seqs  BY <2>1
  <2> HIDE DEF T
  <2>5. Cardinality(dropped') <= Cardinality(T) + 1  BY <1>4, <2>2, <2>3
  <2>6. Cardinality(dropped') \in Nat
    BY <2>2, <2>3, FS_AddElement, FS_CardinalityType
  <2> QED BY <1>2, <1>3, <2>2, <2>4, <2>5, <2>6
<1>6. ASSUME ~(Cardinality(dropped) >= DropCap)
      PROVE  dropped' \subseteq Seqs /\ Cardinality(dropped') <= DropCap
  <2>1. dropped' = dropped \cup {s}  BY <1>6 DEF Track
  <2>2. Cardinality(dropped') <= Cardinality(dropped) + 1  BY <1>2, <1>4, <2>1
  <2>3. Cardinality(dropped') \in Nat
    BY <1>2, <2>1, FS_AddElement, FS_CardinalityType
  <2> QED BY <1>2, <1>3, <1>6, <2>1, <2>2, <2>3
<1> QED BY <1>5, <1>6

\* What may have become of a payload.
Fates == {"unsent", "sent", "gated", "accepted", "spoiled", "arrived"}

\* TypeOK, part by part.
LEMMA Parts ==
  /\ TypeOK =>
       /\ Table(asm, held) /\ wire \in Seq(Chunk) /\ fate \in [Payloads -> Fates]
       /\ dropped \subseteq Seqs /\ Cardinality(dropped) <= DropCap
  /\ /\ way' \in {"c2s", "s2c"} /\ ctog' \subseteq Kinds /\ stog' \subseteq Kinds
     /\ wire' \in Seq(Chunk) /\ Len(wire') <= WireMax
     /\ lastSeq' \in Seqs /\ sent' \in 0..MaxSends
     /\ Table(asm', held')
     /\ dropped' \subseteq Seqs /\ Cardinality(dropped') <= DropCap
     /\ clip' \in [parts : SUBSET Payloads, whole : BOOLEAN]
     /\ fate' \in [Payloads -> Fates]
     /\ flips' \in 0..MaxFlips /\ faults' \in 0..MaxFaults /\ restarts' \in 0..MaxRestarts
     => TypeOK'
BY DEF TypeOK, Table, Fates

\* What spoils payloads changes nothing else of their fates.
LEMMA Spoiled ==
  ASSUME fate \in [Payloads -> Fates], NEW ps, Spoil(ps)
  PROVE  /\ fate' \in [Payloads -> Fates]
         /\ \A p \in Payloads : fate'[p] \in {fate[p], "spoiled"}
BY DEF Spoil, Fates

\* What is put on the wire: the chunks of one payload, in their order.
LEMMA CutFacts ==
  ASSUME NEW p \in Payloads, NEW k \in Kinds, NEW n \in Sizes, lastSeq \in Seqs
  PROVE  /\ NextSeq \in Seqs
         /\ Cut(p, k, n) \in Seq(Chunk) /\ Len(Cut(p, k, n)) = n
         /\ \A i \in 1..n : /\ Cut(p, k, n)[i].seq = NextSeq /\ Cut(p, k, n)[i].of = p
                            /\ Cut(p, k, n)[i].index = i - 1
<1>1. n \in Nat \ {0}  BY SizesAssumption
<1>2. NextSeq \in Seqs  BY CapAssumption DEF NextSeq, Seqs
<1>3. \A i \in 1..n :
        [seq |-> NextSeq, index |-> i - 1, total |-> n, kind |-> k, of |-> p] \in Chunk
  BY <1>1, <1>2 DEF Chunk
<1> QED BY <1>1, <1>2, <1>3 DEF Cut

\* So is the table of a receiver that begins.
LEMMA EmptyTable == Table(<<>>, {})
BY DEF Table

\* The chunk that is handled.
LEMMA HeadOfWire ==
  ASSUME TypeOK, wire # <<>>
  PROVE  /\ Head(wire) \in Chunk /\ Head(wire) = wire[1] /\ 1 \in 1..Len(wire)
         /\ Tail(wire) \in Seq(Chunk) /\ Len(Tail(wire)) = Len(wire) - 1
         /\ \A i \in 1..Len(wire) - 1 : Tail(wire)[i] = wire[i + 1]
BY DEF TypeOK

\* What becomes of the payload of a chunk that is handled.
LEMMA FateTypes ==
  ASSUME NEW m \in Chunk, fate \in [Payloads -> Fates]
  PROVE  Fate(m) \in Fates
<1>1. m.of \in Payloads  BY DEF Chunk
<1> QED BY <1>1 DEF Fate, Fates

\* A chunk is handled: the table keeps to its numbers, whichever way it goes.
LEMMA ReceiveTypes ==
  ASSUME TypeOK, Receive
  PROVE  TypeOK'
<1> DEFINE m == Head(wire)
<1>1. wire # <<>> /\ wire' = Tail(wire) /\ UNCHANGED <<toggles, sender, counts>>
  BY DEF Receive
<1>2. TurnAway(m) \/ Skip(m) \/ Collect(m) \/ Finish(m)  BY DEF Receive
<1>3. fate' = [fate EXCEPT ![m.of] = IF fate[m.of] = "gated" THEN "gated" ELSE Fate(m)]
  BY DEF Receive
<1>4. m \in Chunk  BY <1>1, HeadOfWire
<1>5. wire' \in Seq(Chunk) /\ Len(wire') <= WireMax
  BY <1>1, HeadOfWire, BoundsAssumption DEF TypeOK
<1> HIDE DEF m
<1>6. fate' \in [Payloads -> Fates]
  <2>1. fate \in [Payloads -> Fates]  BY Parts
  <2>2. Fate(m) \in Fates  BY <1>4, <2>1, FateTypes
  <2> QED BY <1>3, <2>1, <2>2 DEF Fates
<1>7. /\ Table(asm', held') /\ dropped' \subseteq Seqs /\ Cardinality(dropped') <= DropCap
      /\ clip' \in [parts : SUBSET Payloads, whole : BOOLEAN]
  <2>0. /\ Table(asm, held) /\ dropped \subseteq Seqs /\ Cardinality(dropped) <= DropCap
        /\ clip \in [parts : SUBSET Payloads, whole : BOOLEAN] /\ m.seq \in Seqs
    BY <1>4, Parts DEF TypeOK, Chunk
  <2>1. CASE TurnAway(m)  BY <2>0, <2>1, Tracked DEF TurnAway
  <2>2. CASE Skip(m)  BY <2>0, <2>2 DEF Skip, table
  <2>3. CASE Collect(m)
    <3>1. Reap(Taken(m), HeldWith(m)) /\ UNCHANGED <<dropped, clip>>
      BY <2>3 DEF Collect, Taken
    <3>2. Table(Taken(m), HeldWith(m))  BY <1>4, <2>0, <2>3, TakenTable DEF Collect
    <3> QED BY <2>0, <3>1, <3>2, Reaped
  <2>4. CASE Finish(m)
    <3> DEFINE S == DOMAIN asm \ {m.seq}
               rest == Restrict(asm, S)
               others == {h \in held : h.seq # m.seq}
               parts == {h.of : h \in ChunksOf(m.seq, HeldWith(m))}
    <3>1. others = {h \in held : h.seq \in S}  BY <2>0 DEF Table
    <3>2. Table(rest, others)  BY <2>0, <3>1, TableKept
    <3>3. HeldWith(m) \subseteq held \cup {m}  BY DEF HeldWith
    <3>4. parts \subseteq Payloads  BY <1>4, <2>0, <3>3 DEF ChunksOf, Table, Chunk
    <3>5. /\ dropped' = dropped
          /\ \/ clip' = [parts |-> parts, whole |-> ~Corrupts(m)] /\ Reap(rest, others)
             \/ clip' = clip /\ asm' = rest /\ held' = others
      BY <2>4 DEF Finish
    <3> HIDE DEF rest, others, parts
    <3>6. Table(asm', held')  BY <3>2, <3>5, Reaped
    <3>7. clip' \in [parts : SUBSET Payloads, whole : BOOLEAN]
      <4>1. (~Corrupts(m)) \in BOOLEAN  BY Zenon DEF Corrupts
      <4>2. CASE clip' = clip  BY <2>0, <4>2
      <4>3. CASE clip' = [parts |-> parts, whole |-> ~Corrupts(m)]
        <5> DEFINE w == ~Corrupts(m)
        <5>1. w \in BOOLEAN /\ clip' = [parts |-> parts, whole |-> w]  BY <4>1, <4>3
        <5> HIDE DEF w
        <5> QED BY <3>4, <5>1
      <4> QED BY <3>5, <4>2, <4>3
    <3> QED BY <2>0, <3>5, <3>6, <3>7
  <2> QED BY <1>2, <2>1, <2>2, <2>3, <2>4
<1>8. /\ way' \in {"c2s", "s2c"} /\ ctog' \subseteq Kinds /\ stog' \subseteq Kinds
      /\ lastSeq' \in Seqs /\ sent' \in 0..MaxSends
      /\ flips' \in 0..MaxFlips /\ faults' \in 0..MaxFaults /\ restarts' \in 0..MaxRestarts
  BY <1>1 DEF TypeOK, toggles, sender, counts
<1> QED BY <1>5, <1>6, <1>7, <1>8, Parts

\* Every step keeps the types.
LEMMA TypeStep ==
  ASSUME TypeOK, [Next]_vars
  PROVE  TypeOK'
<1> USE DEF toggles, sender, table, counts
<1>0. /\ Table(asm, held) /\ wire \in Seq(Chunk) /\ fate \in [Payloads -> Fates]
      /\ way \in {"c2s", "s2c"} /\ ctog \subseteq Kinds /\ stog \subseteq Kinds
      /\ Len(wire) <= WireMax /\ lastSeq \in Seqs /\ sent \in 0..MaxSends
      /\ dropped \subseteq Seqs /\ Cardinality(dropped) <= DropCap
      /\ clip \in [parts : SUBSET Payloads, whole : BOOLEAN]
      /\ flips \in 0..MaxFlips /\ faults \in 0..MaxFaults /\ restarts \in 0..MaxRestarts
      /\ {MaxSends, MaxFlips, MaxFaults, MaxRestarts, WireMax} \subseteq Nat
  BY Parts, BoundsAssumption DEF TypeOK
<1>1. ASSUME NEW k \in Kinds, NEW n \in Sizes, Send(k, n) PROVE TypeOK'
  <2>1. sent < MaxSends /\ sent + 1 \in Payloads /\ sent' = sent + 1 /\ sent' \in 0..MaxSends
    BY <1>0, <1>1 DEF Send, Payloads
  <2>2. NextSeq \in Seqs /\ Cut(sent + 1, k, n) \in Seq(Chunk) /\ Len(Cut(sent + 1, k, n)) = n
    BY <1>0, <2>1, CutFacts
  <2>3. wire' \in Seq(Chunk) /\ Len(wire') <= WireMax
    <3>1. wire' = wire \o Cut(sent + 1, k, n) /\ Len(wire) + n <= WireMax  BY <1>1 DEF Send
    <3> QED BY <1>0, <2>2, <3>1
  <2>4. fate' \in [Payloads -> Fates]  BY <1>0, <1>1 DEF Send, Fates
  <2>5. lastSeq' \in Seqs /\ UNCHANGED <<toggles, table, clip, counts>>
    BY <1>1, <2>2 DEF Send
  <2> QED BY <1>0, <2>1, <2>3, <2>4, <2>5, Parts
<1>2. ASSUME NEW k \in Kinds, Flip(k) PROVE TypeOK'
  <2>1. flips' \in 0..MaxFlips /\ ctog' \subseteq Kinds  BY <1>0, <1>2 DEF Flip
  <2> QED BY <1>0, <1>2, <2>1, Parts DEF Flip
<1>3. CASE Lose
  <2>1. PICK i \in 1..Len(wire) : wire' = RemoveAt(wire, i) /\ Spoil({wire[i].of})
    BY <1>3 DEF Lose
  <2>2. wire' \in Seq(Chunk) /\ Len(wire') <= WireMax  BY <1>0, <2>1, Removed
  <2>3. fate' \in [Payloads -> Fates]  BY <1>0, <2>1, Spoiled
  <2>4. faults' \in 0..MaxFaults /\ UNCHANGED <<toggles, sender, table, clip, flips, restarts>>
    BY <1>0, <1>3 DEF Lose
  <2> QED BY <1>0, <2>2, <2>3, <2>4, Parts
<1>4. ASSUME NewConnection
      PROVE  /\ wire' \in Seq(Chunk) /\ Len(wire') <= WireMax /\ stog' \subseteq Kinds
             /\ Table(asm', held') /\ dropped' \subseteq Seqs
             /\ Cardinality(dropped') <= DropCap /\ fate' \in [Payloads -> Fates]
  <2>1. wire' = <<>> /\ stog' = ctog /\ Spoil(Payloads)  BY <1>4 DEF NewConnection
  <2>2. \/ asm' = <<>> /\ held' = {} /\ dropped' = {}
        \/ asm' = asm /\ held' = held /\ dropped' = dropped
    BY <1>4 DEF NewConnection
  <2>3. Table(asm', held')  BY <1>0, <2>2, EmptyTable
  <2>4. dropped' \subseteq Seqs /\ Cardinality(dropped') <= DropCap
    <3>1. Cardinality({}) = 0 /\ DropCap \in Nat  BY FS_EmptySet, CapAssumption
    <3>2. CASE dropped' = {}
      <4>1. Cardinality(dropped') = 0  BY <3>1, <3>2
      <4> QED BY <3>1, <3>2, <4>1
    <3>3. CASE dropped' = dropped  BY <1>0, <3>3
    <3> QED BY <2>2, <3>2, <3>3
  <2>5. fate' \in [Payloads -> Fates]  BY <1>0, <2>1, Spoiled
  <2> QED BY <1>0, <2>1, <2>3, <2>4, <2>5, EmptySeq
<1>5. CASE Reconnect
  <2>1. NewConnection /\ faults' \in 0..MaxFaults
        /\ UNCHANGED <<way, ctog, sender, clip, flips, restarts>>
    BY <1>0, <1>5 DEF Reconnect
  <2> QED BY <1>0, <1>4, <2>1, Parts
<1>6. CASE Restart
  <2>1. NewConnection /\ restarts' \in 0..MaxRestarts
        /\ UNCHANGED <<way, ctog, sent, clip, flips, faults>>
    BY <1>0, <1>6 DEF Restart
  <2>2. lastSeq' \in Seqs  BY <1>0, <1>6, CapAssumption, SMTT(30) DEF Restart, Seqs
  <2> QED BY <1>0, <1>4, <2>1, <2>2, Parts
<1>7. ASSUME NEW s \in Seqs, GrowOld(s) PROVE TypeOK'
  <2>1. asm' = [asm EXCEPT ![s].old = TRUE] /\ held' = held /\ s \in DOMAIN asm
    BY <1>7 DEF GrowOld
  <2>2. Spoil({h.of : h \in {g \in held : g.seq = s}})
        /\ UNCHANGED <<toggles, wire, sender, dropped, clip, counts>>
    BY <1>7 DEF GrowOld
  <2>3. /\ DOMAIN asm' = DOMAIN asm
        /\ \A t \in DOMAIN asm : /\ asm'[t] \in [total : 1..MaxTotal, old : BOOLEAN]
                                 /\ asm'[t].total = asm[t].total
    BY <1>0, <2>1 DEF Table
  <2>4. Table(asm', held')  BY <1>0, <2>1, <2>3, ZenonT(30) DEF Table
  <2>5. fate' \in [Payloads -> Fates]  BY <1>0, <2>2, Spoiled
  <2> QED BY <1>0, <2>2, <2>4, <2>5, Parts
<1>8. CASE Receive  BY <1>8, ReceiveTypes
<1>9. CASE UNCHANGED vars
  <2>1. UNCHANGED <<toggles, wire, sender, table, clip, fate, counts>>  BY <1>9 DEF vars
  <2> QED BY <1>0, <2>1, Parts
<1> QED BY <1>1, <1>2, <1>3, <1>5, <1>6, <1>7, <1>8, <1>9 DEF Next
-----------------------------------------------------------------------------
(* ClipboardTransfer: payloads are kept apart.                             *)

\* A payload is in the receiver's hands under its own number, and nowhere whole.
Known ==
  /\ lastSeq = sent
  /\ \A i \in 1..Len(wire) : wire[i].seq = wire[i].of /\ wire[i].of <= sent
  /\ \A h \in held : h.seq = h.of /\ h.of <= sent
  /\ clip.parts \subseteq 1..sent
  /\ \E p \in Payloads \cup {0} : clip.parts \subseteq {p}

\* No chunk is on the wire twice.
Once ==
  \A i, j \in 1..Len(wire) :
    wire[i].of = wire[j].of /\ wire[i].index = wire[j].index => i = j

\* Not on the clipboard, and not beginning to be put together.
Fresh(p) == p \notin clip.parts /\ \A h \in held : ~(h.of = p /\ h.index = 0)

\* A payload whose first chunk is still under way was neither let in nor turned
\* away; one that was turned away stays out.
Opened ==
  \A i \in 1..Len(wire) :
    wire[i].index = 0 => Fresh(wire[i].of) /\ fate[wire[i].of] # "gated"
Shut == \A p \in Payloads : fate[p] = "gated" => Fresh(p)

Apart == Known /\ Once /\ Opened /\ Shut

\* Steps that take from the wire, or from what is held, and add nothing.
LEMMA Fewer ==
  ASSUME TypeOK, Apart, lastSeq' = lastSeq, sent' = sent, clip' = clip, held' \subseteq held,
         wire' \in Seq(Chunk), NEW f \in [1..Len(wire') -> 1..Len(wire)],
         \A i \in 1..Len(wire') : wire'[i] = wire[f[i]],
         \A i, j \in 1..Len(wire') : f[i] = f[j] => i = j,
         \A p \in Payloads : fate'[p] = "gated" => fate[p] = "gated"
  PROVE  Apart'
<1>0. ASSUME NEW i \in 1..Len(wire') PROVE f[i] \in 1..Len(wire) /\ wire'[i].of \in Payloads
  <2>1. wire'[i] \in Chunk  OBVIOUS
  <2> QED BY <2>1 DEF Chunk
<1>1. Known'  BY <1>0 DEF Apart, Known
<1>2. Once'
  <2> SUFFICES ASSUME NEW i \in 1..Len(wire'), NEW j \in 1..Len(wire'),
                      wire'[i].of = wire'[j].of, wire'[i].index = wire'[j].index
               PROVE  i = j
    BY DEF Once
  <2>1. f[i] \in 1..Len(wire) /\ f[j] \in 1..Len(wire)  BY <1>0
  <2>2. wire'[i] = wire[f[i]] /\ wire'[j] = wire[f[j]]  OBVIOUS
  <2>3. Once  BY DEF Apart
  <2>4. f[i] = f[j]  BY <2>1, <2>2, <2>3 DEF Once
  <2> QED BY <2>4
<1>3. \A p : Fresh(p) => Fresh(p)'  BY DEF Fresh
<1>4. Opened'  BY <1>0, <1>3, SMTT(30) DEF Apart, Opened
<1>5. Shut'  BY <1>3 DEF Apart, Shut
<1> QED BY <1>1, <1>2, <1>4, <1>5 DEF Apart

\* What spoils payloads turns none away.
LEMMA StillGated ==
  ASSUME NEW ps, Spoil(ps)
  PROVE  \A p \in Payloads : fate'[p] = "gated" => fate[p] = "gated"
BY DEF Spoil

\* A new payload takes a number that was never used.
LEMMA SendApart ==
  ASSUME MaxSends < SeqModulus, TypeOK, Apart, NEW k \in Kinds, NEW n \in Sizes, Send(k, n)
  PROVE  Apart'
<1> DEFINE p == sent + 1
           c == Cut(p, k, n)
<1>1. /\ p \in Payloads /\ sent \in Nat /\ lastSeq \in Seqs /\ lastSeq = sent
      /\ wire \in Seq(Chunk) /\ n \in Nat
  BY BoundsAssumption, SizesAssumption DEF Send, Payloads, TypeOK, Apart, Known
<1>2. NextSeq = p
  <2>1. p <= MaxSends /\ MaxSends \in Nat /\ SeqModulus \in Nat \ {0}
    BY <1>1, BoundsAssumption, CapAssumption DEF Payloads
  <2>2. p % SeqModulus = p  BY <1>1, <2>1
  <2> QED BY <1>1, <2>2 DEF NextSeq
<1>3. /\ c \in Seq(Chunk) /\ Len(c) = n
      /\ \A i \in 1..n : c[i].seq = p /\ c[i].of = p /\ c[i].index = i - 1
  BY <1>1, <1>2, CutFacts
<1>4. /\ sent' = p /\ lastSeq' = p /\ wire' = wire \o c
      /\ fate' = [fate EXCEPT ![p] = "sent"] /\ held' = held /\ clip' = clip
  BY <1>2 DEF Send, table
<1> HIDE DEF c
<1>5. Len(wire') = Len(wire) + n /\ Len(wire) \in Nat
  <2>1. Len(wire') = Len(wire) + Len(c)  BY <1>1, <1>3, <1>4, ConcatProperties
  <2>2. Len(wire) \in Nat  BY <1>1
  <2> QED BY <1>3, <2>1, <2>2
<1>6. ASSUME NEW i \in 1..Len(wire')
      PROVE  \/ i \in 1..Len(wire) /\ wire'[i] = wire[i]
             \/ /\ i \notin 1..Len(wire)
                /\ wire'[i].seq = p /\ wire'[i].of = p /\ wire'[i].index = i - Len(wire) - 1
  <2>1. CASE i <= Len(wire)  BY <1>1, <1>3, <1>4, <2>1
  <2>2. CASE ~(i <= Len(wire))
    <3>1. i - Len(wire) \in 1..n  BY <1>1, <1>5, <2>2
    <3>2. wire'[i] = c[i - Len(wire)]  BY <1>1, <1>3, <1>4, <1>5, <2>2
    <3> QED BY <1>3, <2>2, <3>1, <3>2
  <2> QED BY <2>1, <2>2
<1>7. ASSUME NEW i \in 1..Len(wire)
      PROVE  /\ wire[i].seq = wire[i].of /\ wire[i].of <= sent
             /\ wire[i].of \in Payloads /\ wire[i].of <= p /\ wire[i].of # p
  <2>1. wire[i] \in Chunk  BY <1>1
  <2>2. wire[i].of \in Payloads /\ wire[i].of <= sent  BY <2>1 DEF Apart, Known, Chunk
  <2>3. wire[i].of <= p /\ wire[i].of # p  BY <1>1, <2>2 DEF Payloads
  <2> QED BY <2>2, <2>3 DEF Apart, Known
<1>8. ASSUME NEW h \in held PROVE h.seq = h.of /\ h.of <= p /\ h.of # p
  <2>1. h.of \in Payloads /\ h.of <= sent  BY DEF Apart, Known, TypeOK, Chunk
  <2>2. h.of <= p /\ h.of # p  BY <1>1, <2>1 DEF Payloads
  <2> QED BY <2>2 DEF Apart, Known
<1>9. Known'
  <2>1. \A i \in 1..Len(wire') : wire'[i].seq = wire'[i].of /\ wire'[i].of <= p
    <3>1. p <= p  BY <1>1
    <3> QED BY <1>6, <1>7, <3>1
  <2>3. \A h \in held' : h.seq = h.of /\ h.of <= p  BY <1>4, <1>8
  <2>4. clip'.parts \subseteq 1..p  BY <1>1, <1>4 DEF Apart, Known
  <2> QED BY <1>4, <2>1, <2>3, <2>4 DEF Apart, Known
<1>10. Once'
  <2> SUFFICES ASSUME NEW i \in 1..Len(wire'), NEW j \in 1..Len(wire'),
                      wire'[i].of = wire'[j].of, wire'[i].index = wire'[j].index
               PROVE  i = j
    BY DEF Once
  <2>1. CASE i \in 1..Len(wire) /\ j \in 1..Len(wire)
    BY <1>6, <2>1 DEF Apart, Once
  <2>2. CASE i \in 1..Len(wire) /\ j \notin 1..Len(wire)
    BY <1>6, <1>7, <2>2
  <2>3. CASE i \notin 1..Len(wire) /\ j \in 1..Len(wire)
    BY <1>6, <1>7, <2>3
  <2>4. CASE i \notin 1..Len(wire) /\ j \notin 1..Len(wire)
    BY <1>5, <1>6, <2>4
  <2> QED BY <2>1, <2>2, <2>3, <2>4
<1>11. Fresh(p)
  <2>1. p \notin clip.parts  BY <1>1 DEF Apart, Known
  <2> QED BY <1>8, <2>1 DEF Fresh
<1>12. \A q : Fresh(q) => Fresh(q)'  BY <1>4 DEF Fresh
<1>13. fate'[p] = "sent" /\ \A q \in Payloads : q # p => fate'[q] = fate[q]
  BY <1>1, <1>4 DEF TypeOK
<1>14. Opened'
  <2> SUFFICES ASSUME NEW i \in 1..Len(wire'), wire'[i].index = 0
               PROVE  (Fresh(wire[i].of) /\ fate[wire[i].of] # "gated")'
    BY DEF Opened
  <2>1. CASE i \in 1..Len(wire) /\ wire'[i] = wire[i]
    <3>1. Fresh(wire[i].of) /\ fate[wire[i].of] # "gated"  BY <2>1 DEF Apart, Opened
    <3>2. wire[i].of # p  BY <1>7, <2>1
    <3>3. Fresh(wire[i].of)'  BY <1>12, <3>1, <2>1 DEF Fresh
    <3> QED BY <1>7, <1>13, <2>1, <3>1, <3>2, <3>3
  <2>2. CASE wire'[i].of = p
    <3>1. p \notin clip'.parts /\ \A h \in held' : ~(h.of = p /\ h.index = 0)
      BY <1>4, <1>11 DEF Fresh
    <3> QED BY <1>13, <2>2, <3>1 DEF Fresh
  <2> QED BY <1>6, <2>1, <2>2
<1>15. Shut'  BY <1>12, <1>13 DEF Apart, Shut
<1> QED BY <1>9, <1>10, <1>14, <1>15 DEF Apart

\* The rest of a wire whose oldest chunk is handled.
LEMMA RestOfWire ==
  ASSUME TypeOK, Apart, wire # <<>>, wire' = Tail(wire)
  PROVE  /\ wire' \in Seq(Chunk)
         /\ \A i \in 1..Len(wire') :
              /\ i + 1 \in 1..Len(wire) /\ wire'[i] = wire[i + 1]
              /\ ~(wire'[i].of = Head(wire).of /\ wire'[i].index = Head(wire).index)
<1>1. /\ Head(wire) = wire[1] /\ 1 \in 1..Len(wire)
      /\ Len(wire') = Len(wire) - 1 /\ wire' \in Seq(Chunk)
      /\ \A i \in 1..Len(wire) - 1 : wire'[i] = wire[i + 1]
  BY HeadOfWire
<1>2. \A i \in 1..Len(wire') : i + 1 \in 1..Len(wire) /\ wire'[i] = wire[i + 1] /\ i + 1 # 1
  BY <1>1
<1> QED BY <1>1, <1>2 DEF Apart, Once

\* Putting m to the others lets in no payload but m's, and not that one if its
\* first chunk is neither m nor held.
LEMMA StaysFresh ==
  ASSUME TypeOK, Known, NEW m \in Chunk, m.seq = m.of, m.of <= sent,
         Collect(m) \/ Finish(m)
  PROVE  /\ \A h \in held' : h.seq = h.of /\ h.of <= sent
         /\ clip' = clip \/ clip'.parts = {m.of}
         /\ \A p : Fresh(p) /\ ~(m.of = p /\ m.index = 0) => Fresh(p)'
<1>1. HeldWith(m) \subseteq held \cup {m}  BY DEF HeldWith
<1>2. held' \subseteq held \cup {m}
  <2>1. CASE Collect(m)
    <3>1. held' \subseteq HeldWith(m)  BY <2>1 DEF Collect, Reap
    <3> QED BY <1>1, <3>1
  <2>2. CASE Finish(m)
    <3>1. held' \subseteq held  BY <2>2 DEF Finish, Reap
    <3> QED BY <3>1
  <2> QED BY <2>1, <2>2
<1>3. \A h \in held' : h.seq = h.of /\ h.of <= sent  BY <1>2 DEF Known
<1>4. CASE clip' = clip
  <2>1. \A p : Fresh(p) /\ ~(m.of = p /\ m.index = 0) => Fresh(p)'
    BY <1>2, <1>4 DEF Fresh
  <2> QED BY <1>3, <1>4, <2>1
<1>5. CASE clip' # clip
  <2> DEFINE parts == {h.of : h \in ChunksOf(m.seq, HeldWith(m))}
  <2>1. Finish(m) /\ Complete(m) /\ clip' = [parts |-> parts, whole |-> ~Corrupts(m)]
    BY <1>5 DEF Collect, Finish
  <2>2. clip'.parts = parts  BY <2>1
  <2>3. PICK h0 \in HeldWith(m) : h0.seq = m.seq /\ h0.index = 0
    <3>1. TotalOf(m) \in Nat \ {0}
      <4>1. m.total \in Nat \ {0}  BY SizesAssumption DEF Chunk
      <4>2. CASE m.seq \in DOMAIN asm
        <5>1. asm[m.seq].total \in 1..MaxTotal  BY <4>2 DEF TypeOK
        <5> QED BY <4>2, <5>1, CapAssumption DEF TotalOf
      <4> QED BY <4>1, <4>2 DEF TotalOf
    <3>2. 0 \in 0..TotalOf(m) - 1  BY <3>1
    <3> QED BY <2>1, <3>2 DEF Complete
  <2>4. \A h \in HeldWith(m) : h.seq = m.seq => h.of = m.of  BY <1>1 DEF Known
  <2>5. parts = {m.of}  BY <2>3, <2>4 DEF ChunksOf
  <2>6. h0 \in held \/ h0 = m  BY <1>1
  <2>7. h0.of = m.of  BY <2>3, <2>4
  <2>8. ASSUME NEW p, Fresh(p), ~(m.of = p /\ m.index = 0) PROVE Fresh(p)'
    <3>1. p # m.of  BY <2>3, <2>6, <2>7, <2>8 DEF Fresh
    <3> QED BY <1>2, <2>2, <2>5, <2>8, <3>1 DEF Fresh
  <2> QED BY <1>3, <2>2, <2>5, <2>8
<1> QED BY <1>4, <1>5

\* A chunk is handled: payloads are kept apart.
LEMMA ReceiveApart ==
  ASSUME TypeOK, Apart, Receive
  PROVE  Apart'
<1> DEFINE m == Head(wire)
<1>1. wire # <<>> /\ wire' = Tail(wire) /\ UNCHANGED <<toggles, sender, counts>>
  BY DEF Receive
<1>2. TurnAway(m) \/ Skip(m) \/ Collect(m) \/ Finish(m)  BY DEF Receive
<1>3. fate' = [fate EXCEPT ![m.of] = IF fate[m.of] = "gated" THEN "gated" ELSE Fate(m)]
  BY DEF Receive
<1>4. m \in Chunk /\ m = wire[1] /\ 1 \in 1..Len(wire)  BY <1>1, HeadOfWire
<1>5. /\ wire' \in Seq(Chunk)
      /\ \A i \in 1..Len(wire') :
           /\ i + 1 \in 1..Len(wire) /\ wire'[i] = wire[i + 1]
           /\ ~(wire'[i].of = m.of /\ wire'[i].index = m.index)
  BY <1>1, RestOfWire
<1>6. sent' = sent /\ lastSeq' = lastSeq  BY <1>1 DEF sender
<1> HIDE DEF m
<1>7. m.seq = m.of /\ m.of <= sent /\ m.of \in Payloads /\ sent \in 0..MaxSends
  BY <1>4 DEF Apart, Known, Chunk, TypeOK
<1>8. m.index = 0 => Fresh(m.of) /\ fate[m.of] # "gated"  BY <1>4 DEF Apart, Opened
<1>9. fate \in [Payloads -> Fates]  BY Parts
<1>10. /\ Known /\ Shut
       /\ \A i \in 1..Len(wire') :
            /\ wire'[i].seq = wire'[i].of /\ wire'[i].of <= sent /\ wire'[i].of \in Payloads
            /\ wire'[i].index = 0 => Fresh(wire'[i].of) /\ fate[wire'[i].of] # "gated"
  <2>1. ASSUME NEW i \in 1..Len(wire') PROVE wire'[i].of \in Payloads
    <3>1. wire'[i] \in Chunk  BY <1>5
    <3> QED BY <3>1 DEF Chunk
  <2> QED BY <1>5, <2>1 DEF Apart, Known, Opened
<1>11. Once'  BY <1>5 DEF Apart, Once
<1>12. CASE TurnAway(m)
  <2>1. held' = held /\ clip' = clip /\ m.index = 0  BY <1>12 DEF TurnAway, Gated
  <2>2. \A p : Fresh(p)' <=> Fresh(p)  BY <2>1 DEF Fresh
  <2>3. \A p \in Payloads : p # m.of => fate'[p] = fate[p]  BY <1>3, <1>9
  <2>4. Known'  BY <1>6, <1>10, <2>1 DEF Known
  <2>5. Opened'  BY <1>5, <1>10, <2>1, <2>2, <2>3 DEF Opened
  <2>6. Shut'  BY <1>8, <1>10, <2>1, <2>2, <2>3 DEF Shut
  <2> QED BY <1>11, <2>4, <2>5, <2>6 DEF Apart
<1>13. ASSUME ~Gated(m) PROVE \A p \in Payloads : fate'[p] = "gated" => fate[p] = "gated"
  <2>1. Fate(m) # "gated" \/ fate[m.of] = "gated"  BY <1>13 DEF Fate, Gated
  <2> QED BY <1>3, <1>9, <2>1
<1>14. CASE Skip(m)
  <2> DEFINE f == [i \in 1..Len(wire') |-> i + 1]
  <2>1. held' = held /\ clip' = clip /\ ~Gated(m)  BY <1>14 DEF Skip, table
  <2>2. /\ f \in [1..Len(wire') -> 1..Len(wire)]
        /\ \A i \in 1..Len(wire') : wire'[i] = wire[f[i]]
        /\ \A i, j \in 1..Len(wire') : f[i] = f[j] => i = j
    BY <1>5
  <2> HIDE DEF f
  <2> QED BY <1>5, <1>6, <1>13, <2>1, <2>2, Fewer
<1>15. CASE Collect(m) \/ Finish(m)
  <2>0. ~Gated(m)  BY <1>15 DEF Collect, Finish
  <2>1. /\ \A h \in held' : h.seq = h.of /\ h.of <= sent
        /\ clip' = clip \/ clip'.parts = {m.of}
        /\ \A p : Fresh(p) /\ ~(m.of = p /\ m.index = 0) => Fresh(p)'
    BY <1>4, <1>7, <1>10, <1>15, StaysFresh
  <2>2. /\ clip'.parts \subseteq 1..sent
        /\ \E p \in Payloads \cup {0} : clip'.parts \subseteq {p}
    <3>1. CASE clip' = clip  BY <1>10, <3>1 DEF Known
    <3>2. CASE clip'.parts = {m.of}
      <4>1. m.of \in 1..sent  BY <1>7, BoundsAssumption DEF Payloads
      <4> QED BY <1>7, <3>2, <4>1
    <3> QED BY <2>1, <3>1, <3>2
  <2>3. Known'  BY <1>6, <1>10, <2>1, <2>2 DEF Known
  <2>4. Opened'
    <3> SUFFICES ASSUME NEW i \in 1..Len(wire'), wire'[i].index = 0
                 PROVE  (Fresh(wire[i].of) /\ fate[wire[i].of] # "gated")'
      BY DEF Opened
    <3>1. PICK p \in Payloads : p = wire'[i].of  BY <1>10
    <3>2. Fresh(p) /\ fate[p] # "gated"  BY <1>10, <3>1
    <3>3. ~(m.of = p /\ m.index = 0)  BY <1>5, <3>1
    <3>4. Fresh(p)'  BY <2>1, <3>2, <3>3
    <3>5. fate'[p] # "gated"  BY <1>13, <2>0, <3>2
    <3> QED BY <3>1, <3>4, <3>5 DEF Fresh
  <2>5. Shut'
    <3> SUFFICES ASSUME NEW p \in Payloads, fate'[p] = "gated" PROVE Fresh(p)'
      BY DEF Shut
    <3>1. fate[p] = "gated"  BY <1>13, <2>0
    <3>2. Fresh(p) /\ ~(m.of = p /\ m.index = 0)  BY <1>8, <1>10, <3>1 DEF Shut
    <3> QED BY <2>1, <3>2
  <2> QED BY <1>11, <2>3, <2>4, <2>5 DEF Apart
<1> QED BY <1>2, <1>12, <1>14, <1>15

(* Every step keeps payloads apart while the numbers come from one count; there
   are fewer payloads than numbers, so that none is taken twice. *)
LEMMA ApartStep ==
  ASSUME MaxSends < SeqModulus, TypeOK, OneCount => Apart, [Next]_vars
  PROVE  (OneCount => Apart)'
<1> SUFFICES ASSUME OneCount' PROVE Apart'  OBVIOUS
<1>1. OneCount /\ (restarts' # restarts => way = "c2s")
  <2>1. restarts \in Nat  BY BoundsAssumption DEF TypeOK
  <2>2. CASE Restart
    <3>1. way' = way /\ restarts' = restarts + 1  BY <2>2 DEF Restart
    <3> QED BY <2>1, <3>1 DEF OneCount
  <2>3. CASE UNCHANGED <<way, restarts>>  BY <2>3 DEF OneCount
  <2>4. Restart \/ UNCHANGED <<way, restarts>>
    BY DEF Next, Send, Flip, Lose, Reconnect, GrowOld, Receive, vars, toggles, counts
  <2> QED BY <2>2, <2>3, <2>4
<1>2. Apart  BY <1>1
<1>3. wire \in Seq(Chunk)  BY DEF TypeOK
<1>4. ASSUME lastSeq' = lastSeq, sent' = sent, clip' = clip, held' \subseteq held,
             wire' = wire \/ wire' = <<>>,
             \A p \in Payloads : fate'[p] = "gated" => fate[p] = "gated"
      PROVE  Apart'
  <2> DEFINE f == [i \in 1..Len(wire') |-> i]
  <2>1. wire' \in Seq(Chunk) /\ 1..Len(wire') \subseteq 1..Len(wire)
    <3>1. CASE wire' = <<>>
      <4>1. Len(wire') = 0 /\ wire' \in Seq(Chunk)  BY <3>1, EmptySeq
      <4> QED BY <4>1
    <3> QED BY <1>3, <1>4, <3>1
  <2>2. /\ f \in [1..Len(wire') -> 1..Len(wire)]
        /\ \A i \in 1..Len(wire') : wire'[i] = wire[f[i]]
        /\ \A i, j \in 1..Len(wire') : f[i] = f[j] => i = j
    BY <1>4, <2>1
  <2> HIDE DEF f
  <2> QED BY <1>2, <1>4, <2>1, <2>2, Fewer
<1>5. ASSUME NEW k \in Kinds, NEW n \in Sizes, Send(k, n) PROVE Apart'
  BY <1>2, <1>5, SendApart
<1>6. ASSUME NEW k \in Kinds, Flip(k) PROVE Apart'
  BY <1>4, <1>6 DEF Flip, sender, table
<1>7. CASE Lose
  <2>1. PICK i \in 1..Len(wire) : wire' = RemoveAt(wire, i) /\ Spoil({wire[i].of})
    BY <1>7 DEF Lose
  <2>2. /\ lastSeq' = lastSeq /\ sent' = sent /\ clip' = clip /\ held' = held
    BY <1>7 DEF Lose, sender, table
  <2> DEFINE f == [j \in 1..Len(wire') |-> IF j < i THEN j ELSE j + 1]
  <2>3. /\ wire' \in Seq(Chunk) /\ Len(wire') = Len(wire) - 1
        /\ \A j \in 1..Len(wire) - 1 : wire'[j] = IF j < i THEN wire[j] ELSE wire[j + 1]
    BY <1>3, <2>1, Removed
  <2>4. /\ f \in [1..Len(wire') -> 1..Len(wire)]
        /\ \A j \in 1..Len(wire') : wire'[j] = wire[f[j]]
        /\ \A j, l \in 1..Len(wire') : f[j] = f[l] => j = l
    BY <1>3, <2>3
  <2>5. \A p \in Payloads : fate'[p] = "gated" => fate[p] = "gated"  BY <2>1, StillGated
  <2> HIDE DEF f
  <2> QED BY <1>2, <2>2, <2>3, <2>4, <2>5, Fewer
<1>8. ASSUME NewConnection, lastSeq' = lastSeq, sent' = sent, clip' = clip PROVE Apart'
  <2>1. wire' = <<>> /\ Spoil(Payloads) /\ held' \subseteq held
    BY <1>8 DEF NewConnection, table
  <2>2. \A p \in Payloads : fate'[p] = "gated" => fate[p] = "gated"  BY <2>1, StillGated
  <2> QED BY <1>4, <1>8, <2>1, <2>2
<1>9. CASE Reconnect  BY <1>8, <1>9 DEF Reconnect, sender
<1>10. CASE Restart
  <2>1. restarts' # restarts  BY <1>10, BoundsAssumption DEF Restart, TypeOK
  <2>2. lastSeq' = lastSeq  BY <1>1, <1>10, <2>1 DEF Restart
  <2> QED BY <1>8, <1>10, <2>2 DEF Restart
<1>11. ASSUME NEW s \in Seqs, GrowOld(s) PROVE Apart'
  <2>1. \A p \in Payloads : fate'[p] = "gated" => fate[p] = "gated"
    BY <1>11, StillGated DEF GrowOld
  <2> QED BY <1>4, <1>11, <2>1 DEF GrowOld, sender
<1>12. CASE Receive  BY <1>2, <1>12, ReceiveApart
<1>13. CASE UNCHANGED vars  BY <1>4, <1>13 DEF vars, sender, table
<1> QED BY <1>5, <1>6, <1>7, <1>9, <1>10, <1>11, <1>12, <1>13 DEF Next

\* It holds in the beginning.
LEMMA Begins == Init => TypeOK /\ Apart
<1> SUFFICES ASSUME Init PROVE TypeOK /\ Apart  OBVIOUS
<1>1. Len(wire) = 0 /\ wire \in Seq(Chunk)  BY EmptySeq DEF Init
<1>2. Cardinality(dropped) = 0  BY FS_EmptySet DEF Init
<1>3. DOMAIN asm = {}  BY DEF Init
<1>4. 0 \in Seqs /\ DropCap \in Nat  BY CapAssumption DEF Seqs
<1>5. TypeOK  BY <1>1, <1>2, <1>3, <1>4, BoundsAssumption DEF Init, TypeOK
<1>6. Apart  BY <1>1 DEF Init, Apart, Known, Once, Opened, Shut
<1> QED BY <1>5, <1>6

(* The tables of the clipboard's receiver are well formed: an assembler lacks a
   chunk, chunks are held by assemblers only and within their length, and the
   set of numbers turned away doesn't outgrow its cap. *)
THEOREM TransferTypeCorrect == Spec => []TypeOK
<1>1. Init => TypeOK  BY Begins
<1>2. TypeOK /\ [Next]_vars => TypeOK'  BY TypeStep
<1> QED BY <1>1, <1>2, PTL DEF Spec

\* The invariant, for a count that doesn't wrap round.
LEMMA AlwaysApart ==
  ASSUME MaxSends < SeqModulus
  PROVE  Spec => [](TypeOK /\ (OneCount => Apart))
<1>1. Init => TypeOK /\ (OneCount => Apart)  BY Begins
<1>2. TypeOK /\ (OneCount => Apart) /\ [Next]_vars => (TypeOK /\ (OneCount => Apart))'
  BY TypeStep, ApartStep
<1> QED BY <1>1, <1>2, PTL DEF Spec

(* What reaches the clipboard is made of the chunks of one payload, whatever was
   lost, turned away or abandoned, for any number of payloads below 2^32: beyond
   it a sequence number is used again, which the code accepts
   (session_runtime.py, next_clipboard_seq). *)
THEOREM UnmixedHolds ==
  ASSUME MaxSends < SeqModulus
  PROVE  Spec => []Unmixed
<1>1. TypeOK /\ (OneCount => Apart) => Unmixed
  <2> SUFFICES ASSUME TypeOK, OneCount, Apart PROVE Cardinality(clip.parts) <= 1
    BY DEF Unmixed
  <2>1. PICK p \in Payloads \cup {0} : clip.parts \subseteq {p}  BY DEF Apart, Known
  <2>2. clip.parts = {} \/ clip.parts = {p}  BY <2>1
  <2>3. Cardinality({}) = 0 /\ Cardinality({p}) = 1  BY FS_EmptySet, FS_Singleton
  <2> QED BY <2>2, <2>3
<1> QED BY <1>1, AlwaysApart, PTL

(* A payload turned away at its first chunk never reaches the clipboard, whatever
   the toggles do meanwhile and whichever numbers the bounded set forgets. *)
THEOREM GatedStaysOutHolds ==
  ASSUME MaxSends < SeqModulus
  PROVE  Spec => []GatedStaysOut
<1>1. TypeOK /\ (OneCount => Apart) => GatedStaysOut
  BY DEF GatedStaysOut, Apart, Shut, Fresh, TypeOK
<1> QED BY <1>1, AlwaysApart, PTL
-----------------------------------------------------------------------------
(* ClientShell: the tabs.                                                  *)

\* The tabs and the window's table of them.
Strip ==
  /\ pages \in Seq(Sessions) /\ IsInjective(pages) /\ current \in 0..Len(pages)
  /\ \A i \in DOMAIN views : i \in Nat \ {0} /\ views[i] \in Sessions
  /\ open \in BOOLEAN /\ begun \subseteq Sessions /\ moves \in 0..MaxMoves
  /\ Range(pages) \subseteq begun
  /\ pages # <<>> => current # 0
  /\ moves = 0 => DOMAIN views = DOMAIN pages /\ \A i \in DOMAIN pages : views[i] = pages[i]

\* The sessions' threads and the pickers.
States == {"off", "idle", "asking", "target", "connected"}
Threads ==
  /\ io \in [Sessions -> States]
  /\ signals \in [Sessions -> Seq({"machines", "connected"})]
  /\ \A s \in Sessions : Len(signals[s]) <= MaxSignals
  /\ dialogs \in Seq(Sessions)
  /\ future \in [Sessions -> Machines \cup {AutoPick, Pending, None}]
  /\ posted \in [Sessions -> Machines \cup {AutoPick, None}]
  /\ preferred \in [Sessions -> Machines \cup {AutoPick}]
  /\ picked \in [Sessions -> Machines \cup {None}]

\* A future is there while the user is asked, and then no machine is preferred.
Waits ==
  \A s \in Sessions : /\ io[s] = "asking" <=> future[s] # None
                      /\ io[s] = "asking" => preferred[s] = AutoPick

\* Nothing is known of a session before it begins.
Untouched ==
  \A s \in Sessions \ begun :
    /\ io[s] = "off" /\ picked[s] = None /\ signals[s] = <<>>
    /\ \A i \in DOMAIN dialogs : dialogs[i] # s

\* Together they are the type invariant.
LEMMA StripThreads == Strip /\ Threads => TabsTypeOK
BY DEF Strip, Threads, TabsTypeOK, States

\* ... and after one has been put into it.
LEMMA Inserted ==
  ASSUME NEW S, NEW s \in Seq(S), NEW i \in 1..Len(s) + 1, NEW e \in S
  PROVE  /\ InsertAt(s, i, e) \in Seq(S) /\ Len(InsertAt(s, i, e)) = Len(s) + 1
         /\ \A j \in 1..Len(s) + 1 :
              InsertAt(s, i, e)[j] = IF j < i THEN s[j] ELSE IF j = i THEN e ELSE s[j - 1]
<1> DEFINE a == SubSeq(s, 1, i - 1)
           b == SubSeq(s, i, Len(s))
           c == Append(a, e)
<1>0. Len(s) \in Nat  OBVIOUS
<1>1. a \in Seq(S) /\ Len(a) = i - 1 /\ \A j \in 1..i - 1 : a[j] = s[j]
  OBVIOUS
<1>2. b \in Seq(S) /\ Len(b) = Len(s) - i + 1
      /\ \A j \in 1..Len(s) - i + 1 : b[j] = s[j + i - 1]
  OBVIOUS
<1>3. /\ c \in Seq(S) /\ Len(c) = i /\ c[i] = e /\ \A j \in 1..i - 1 : c[j] = s[j]
  BY <1>1
<1>4. c = a \o <<e>>  BY <1>1
<1>5. InsertAt(s, i, e) = c \o b  BY <1>4 DEF InsertAt
<1> HIDE DEF a, b, c
<1>6. c \o b \in Seq(S) /\ Len(c \o b) = Len(s) + 1
  <2>1. c \o b \in Seq(S) /\ Len(c \o b) = Len(c) + Len(b)  BY <1>2, <1>3, ConcatProperties
  <2> QED BY <1>0, <1>2, <1>3, <2>1
<1>7. ASSUME NEW j \in 1..Len(s) + 1
      PROVE  (c \o b)[j] = IF j < i THEN s[j] ELSE IF j = i THEN e ELSE s[j - 1]
  <2>1. CASE j <= i
    <3>1. (c \o b)[j] = c[j]  BY <1>2, <1>3, <2>1
    <3> QED BY <1>3, <2>1, <3>1
  <2>2. CASE ~(j <= i)
    <3>1. j - i \in 1..Len(s) - i + 1  BY <1>0, <2>2
    <3>2. (c \o b)[j] = b[j - i]  BY <1>0, <1>2, <1>3, <2>2
    <3>3. (j - i) + i - 1 = j - 1  OBVIOUS
    <3>4. b[j - i] = s[j - 1]  BY <1>2, <3>1, <3>3
    <3> QED BY <2>2, <3>2, <3>4
  <2> QED BY <2>1, <2>2
<1> QED BY <1>5, <1>6, <1>7

\* The same, for one of its places.
LEMMA InsertedEach ==
  ASSUME NEW S, NEW s \in Seq(S), NEW i \in 1..Len(s) + 1, NEW e \in S,
         NEW j \in 1..Len(s) + 1
  PROVE  InsertAt(s, i, e)[j] = IF j < i THEN s[j] ELSE IF j = i THEN e ELSE s[j - 1]
BY Inserted

\* Dragging a tab leaves the same tabs in another order.
LEMMA Moved ==
  ASSUME Strip, NEW i, NEW j, MoveTab(i, j)
  PROVE  /\ pages' \in Seq(Sessions) /\ Len(pages') = Len(pages) /\ IsInjective(pages')
         /\ \A k \in 1..Len(pages) : \E l \in 1..Len(pages) : pages'[k] = pages[l]
         /\ \A l \in 1..Len(pages) : \E k \in 1..Len(pages) : pages'[k] = pages[l]
<1> DEFINE s == pages
           t == pages'
           S == Sessions
           r == RemoveAt(s, i)
           g(k) == IF k = j THEN i
                   ELSE IF k < j THEN (IF k < i THEN k ELSE k + 1)
                        ELSE IF k - 1 < i THEN k - 1 ELSE k
           h(l) == IF l = i THEN j
                   ELSE IF l < i THEN (IF l < j THEN l ELSE l + 1)
                        ELSE IF l - 1 < j THEN l - 1 ELSE l
<1>0. /\ s \in Seq(S) /\ IsInjective(s) /\ Len(s) \in Nat
      /\ i \in 1..Len(s) /\ j \in 1..Len(s)
      /\ t = InsertAt(r, j, s[i])
  BY DEF MoveTab, Strip
<1>1. /\ r \in Seq(S) /\ Len(r) = Len(s) - 1
      /\ \A k \in 1..Len(s) - 1 : r[k] = IF k < i THEN s[k] ELSE s[k + 1]
  BY <1>0, Removed
<1> HIDE DEF r, s, t, S
<1>2. s[i] \in S /\ j \in 1..Len(r) + 1  BY <1>0, <1>1
<1>3. /\ t \in Seq(S) /\ Len(t) = Len(s)
      /\ \A k \in 1..Len(s) : t[k] = IF k < j THEN r[k] ELSE IF k = j THEN s[i] ELSE r[k - 1]
  <2> DEFINE e == s[i]
  <2>1. e \in S /\ t = InsertAt(r, j, e) /\ j \in 1..Len(r) + 1 /\ r \in Seq(S)
    BY <1>0, <1>1, <1>2
  <2> HIDE DEF e, g, h
  <2>2. /\ t \in Seq(S) /\ Len(t) = Len(r) + 1
        /\ \A k \in 1..Len(r) + 1 :
             t[k] = IF k < j THEN r[k] ELSE IF k = j THEN e ELSE r[k - 1]
    <3>1. InsertAt(r, j, e) \in Seq(S) /\ Len(InsertAt(r, j, e)) = Len(r) + 1
      BY <2>1, Inserted
    <3>2. ASSUME NEW k \in 1..Len(r) + 1
          PROVE  InsertAt(r, j, e)[k] = IF k < j THEN r[k] ELSE IF k = j THEN e ELSE r[k - 1]
      BY <2>1, InsertedEach
    <3> QED BY <2>1, <3>1, <3>2
  <2>3. Len(r) + 1 = Len(s)  BY <1>0, <1>1
  <2> QED BY <2>2, <2>3 DEF e
<1>4. ASSUME NEW k \in 1..Len(s) PROVE g(k) \in 1..Len(s) /\ t[k] = s[g(k)]
  <2>1. CASE k = j  BY <1>0, <1>3, <2>1
  <2>2. CASE k < j
    <3>1. k \in 1..Len(s) - 1  BY <1>0, <2>2
    <3>2. t[k] = r[k]  BY <1>0, <1>3, <2>2
    <3> QED BY <1>0, <1>1, <2>2, <3>1, <3>2
  <2>3. CASE k > j
    <3>1. k - 1 \in 1..Len(s) - 1 /\ (k - 1) + 1 = k  BY <1>0, <2>3
    <3>2. t[k] = r[k - 1]  BY <1>0, <1>3, <2>3
    <3> QED BY <1>0, <1>1, <2>3, <3>1, <3>2
  <2> QED BY <1>0, <2>1, <2>2, <2>3
<1>5. ASSUME NEW k \in 1..Len(s), NEW l \in 1..Len(s), g(k) = g(l) PROVE k = l
  BY <1>0, <1>5
<1>6. ASSUME NEW l \in 1..Len(s) PROVE h(l) \in 1..Len(s) /\ g(h(l)) = l
  BY <1>0
<1> HIDE DEF g, h
<1>7. DOMAIN t = 1..Len(s) /\ DOMAIN s = 1..Len(s)  BY <1>0, <1>3
<1>8. IsInjective(t)  BY <1>0, <1>4, <1>5, <1>7 DEF IsInjective
<1>9. \A l \in 1..Len(s) : t[h(l)] = s[l]  BY <1>4, <1>6
<1>10. /\ \A k \in 1..Len(s) : \E l \in 1..Len(s) : t[k] = s[l]
       /\ \A l \in 1..Len(s) : \E k \in 1..Len(s) : t[k] = s[l]
  BY <1>4, <1>6, <1>9
<1> QED BY <1>3, <1>8, <1>10 DEF s, t, S

\* The tab that is closed is the session that is cleaned up, as long as no tab
\* was dragged: then the table has the pages.
LEMMA Rekeyed ==
  ASSUME Strip, NEW i, CloseTab(i)
  PROVE  /\ \A k \in DOMAIN views' : k \in Nat \ {0} /\ views'[k] \in Sessions
         /\ moves = 0 => /\ DOMAIN views' = DOMAIN pages'
                         /\ \A k \in DOMAIN pages' : views'[k] = pages'[k]
<1> DEFINE rest == RemoveAt(pages, i)
           old == [k \in DOMAIN views \ {i} |-> views[k]]
           vs == views'
           found == {k \in DOMAIN rest : rest[k] \in Range(old)}
           lost == {k \in DOMAIN old : old[k] \notin Range(rest)}
<1>0. pages \in Seq(Sessions) /\ i \in 1..Len(pages) /\ Len(pages) \in Nat
  BY DEF Strip, CloseTab
<1>9. pages' = rest /\ vs = Rekey(old, rest)  BY DEF CloseTab
<1> HIDE DEF vs
<1>1. /\ rest \in Seq(Sessions) /\ Len(rest) = Len(pages) - 1
      /\ \A k \in 1..Len(pages) - 1 : rest[k] = IF k < i THEN pages[k] ELSE pages[k + 1]
  BY <1>0, Removed
<1>4. DOMAIN old = DOMAIN views \ {i} /\ \A k \in DOMAIN old : old[k] = views[k]
  OBVIOUS
<1> HIDE DEF rest, old
<1>2. DOMAIN rest = 1..Len(pages) - 1  BY <1>1
<1>3. /\ DOMAIN vs = found \cup lost
      /\ \A k \in found : vs[k] = rest[k]
      /\ \A k \in lost \ found : vs[k] = old[k]
  <2>1. vs = [k \in found \cup lost |-> IF k \in found THEN rest[k] ELSE old[k]]
    BY <1>9 DEF Rekey
  <2> HIDE DEF found, lost
  <2> QED BY <2>1
<1>5. ASSUME NEW k \in DOMAIN vs PROVE k \in Nat \ {0} /\ vs[k] \in Sessions
  <2>1. CASE k \in found
    <3>1. k \in DOMAIN rest /\ vs[k] = rest[k]  BY <1>3, <2>1
    <3> QED BY <1>0, <1>1, <1>2, <3>1
  <2>2. CASE k \in lost \ found
    <3>1. k \in DOMAIN views /\ vs[k] = views[k]  BY <1>3, <1>4, <2>2
    <3> QED BY <3>1 DEF Strip
  <2> QED BY <1>3, <2>1, <2>2
<1>6. ASSUME moves = 0
      PROVE  DOMAIN vs = DOMAIN rest /\ \A k \in DOMAIN rest : vs[k] = rest[k]
  <2>1. DOMAIN views = 1..Len(pages) /\ \A k \in 1..Len(pages) : views[k] = pages[k]
    BY <1>0, <1>6 DEF Strip
  <2>2. ASSUME NEW k \in DOMAIN rest PROVE k \in found
    <3>1. k \in 1..Len(pages) - 1  BY <1>2
    <3>2. CASE k < i
      <4>1. k \in DOMAIN old  BY <1>0, <1>4, <2>1, <3>1, <3>2
      <4>2. old[k] = rest[k]  BY <1>0, <1>1, <1>4, <2>1, <3>1, <3>2, <4>1
      <4> QED BY <4>1, <4>2 DEF Range
    <3>3. CASE ~(k < i)
      <4>1. k + 1 \in DOMAIN old  BY <1>0, <1>4, <2>1, <3>1, <3>3
      <4>2. old[k + 1] = rest[k]  BY <1>0, <1>1, <1>4, <2>1, <3>1, <3>3, <4>1
      <4> QED BY <4>1, <4>2 DEF Range
    <3> QED BY <3>2, <3>3
  <2>3. ASSUME NEW k \in DOMAIN old PROVE k \notin lost
    <3>1. k \in 1..Len(pages) /\ k # i /\ old[k] = pages[k]  BY <1>4, <2>1
    <3>2. CASE k < i
      <4>1. k \in DOMAIN rest /\ rest[k] = old[k]  BY <1>0, <1>1, <1>2, <3>1, <3>2
      <4> QED BY <4>1 DEF Range
    <3>3. CASE ~(k < i)
      <4>1. k - 1 \in 1..Len(pages) - 1 /\ ~(k - 1 < i) /\ (k - 1) + 1 = k
        BY <1>0, <3>1, <3>3
      <4>2. k - 1 \in DOMAIN rest /\ rest[k - 1] = old[k]  BY <1>1, <1>2, <3>1, <4>1
      <4> QED BY <4>2 DEF Range
    <3> QED BY <3>2, <3>3
  <2>4. DOMAIN rest = found /\ lost = {}  BY <2>2, <2>3
  <2> QED BY <1>3, <2>4
<1> QED BY <1>5, <1>6, <1>9 DEF vs

\* The tab strip after a tab has been closed ...
LEMMA CloseTabStrip ==
  ASSUME Strip, NEW i, CloseTab(i)
  PROVE  Strip'
<1> DEFINE rest == RemoveAt(pages, i)
<1>0. /\ i \in DOMAIN pages /\ i \in 1..Len(pages)
      /\ Len(pages) \in Nat /\ current \in 0..Len(pages)
  BY DEF CloseTab, Strip
<1>1. /\ rest \in Seq(Sessions) /\ Len(rest) = Len(pages) - 1
      /\ \A k \in 1..Len(pages) - 1 : rest[k] = IF k < i THEN pages[k] ELSE pages[k + 1]
  BY <1>0, Removed DEF Strip
<1>2. /\ pages' = rest
      /\ current' = (IF i < current \/ current > Len(rest) THEN current - 1 ELSE current)
      /\ UNCHANGED <<open, begun, moves>>
  BY DEF CloseTab
<1>3. /\ \A k \in DOMAIN views' : k \in Nat \ {0} /\ views'[k] \in Sessions
      /\ moves = 0 => /\ DOMAIN views' = DOMAIN rest
                      /\ \A k \in DOMAIN rest : views'[k] = rest[k]
  BY <1>2, Rekeyed
<1> HIDE DEF rest
<1>4. DOMAIN rest = 1..Len(pages) - 1 /\ DOMAIN pages = 1..Len(pages)  BY <1>1 DEF Strip
<1>5. IsInjective(rest)
  <2> SUFFICES ASSUME NEW a \in 1..Len(pages) - 1, NEW b \in 1..Len(pages) - 1,
                      rest[a] = rest[b]
               PROVE  a = b
    BY <1>4 DEF IsInjective
  <2>1. /\ a \in 1..Len(pages) /\ a + 1 \in 1..Len(pages)
        /\ b \in 1..Len(pages) /\ b + 1 \in 1..Len(pages)
    BY <1>0
  <2>2. \A c, d \in 1..Len(pages) : pages[c] = pages[d] => c = d
    BY <1>4 DEF Strip, IsInjective
  <2>3. CASE a < i /\ b < i  BY <1>1, <2>1, <2>2, <2>3
  <2>4. CASE a < i /\ ~(b < i)  BY <1>0, <1>1, <2>1, <2>2, <2>4
  <2>5. CASE ~(a < i) /\ b < i  BY <1>0, <1>1, <2>1, <2>2, <2>5
  <2>6. CASE ~(a < i) /\ ~(b < i)  BY <1>1, <2>1, <2>2, <2>6
  <2> QED BY <2>3, <2>4, <2>5, <2>6
<1>6. Range(rest) \subseteq begun
  <2> SUFFICES ASSUME NEW k \in 1..Len(pages) - 1 PROVE rest[k] \in begun
    BY <1>4 DEF Range
  <2>1. \A l \in 1..Len(pages) : pages[l] \in begun  BY <1>4 DEF Strip, Range
  <2>2. k \in 1..Len(pages) /\ k + 1 \in 1..Len(pages)  BY <1>0
  <2> QED BY <1>1, <2>1, <2>2
<1>7. current' \in 0..Len(rest) /\ (rest # <<>> => current' # 0)
  <2>1. rest # <<>> => Len(rest) # 0  BY <1>1
  <2>2. current # 0  BY <1>0 DEF Strip
  <2> QED BY <1>0, <1>1, <1>2, <2>1, <2>2
<1> QED BY <1>1, <1>2, <1>3, <1>5, <1>6, <1>7 DEF Strip

\* ... or opened ...
LEMMA NewSessionStrip ==
  ASSUME Strip, NEW s \in Sessions, NewSession(s)
  PROVE  Strip'
<1> DEFINE i == Len(pages) + 1
<1>0. pages \in Seq(Sessions) /\ Len(pages) \in Nat  BY DEF Strip
<1>1. /\ pages' = Append(pages, s) /\ current' = i
      /\ views' = [k \in DOMAIN views \cup {i} |-> IF k = i THEN s ELSE views[k]]
      /\ s \notin begun /\ begun' = begun \cup {s} /\ UNCHANGED <<open, moves>>
  BY DEF NewSession, Connect
<1>2. /\ pages' \in Seq(Sessions) /\ Len(pages') = i /\ pages'[i] = s
      /\ \A k \in 1..Len(pages) : pages'[k] = pages[k]
  BY <1>0, <1>1
<1>3. /\ DOMAIN views' = DOMAIN views \cup {i} /\ views'[i] = s
      /\ \A k \in DOMAIN views \ {i} : views'[k] = views[k]
  BY <1>1
<1>4. DOMAIN pages = 1..Len(pages) /\ DOMAIN pages' = 1..i  BY <1>0, <1>2
<1>5. \A k \in 1..Len(pages) : pages[k] \in begun  BY <1>4 DEF Strip, Range
<1>6. \A k \in 1..i : k \in 1..Len(pages) \/ k = i  BY <1>0
<1>7. IsInjective(pages')
  BY <1>1, <1>2, <1>4, <1>5, <1>6 DEF Strip, IsInjective
<1>8. Range(pages') \subseteq begun'  BY <1>1, <1>2, <1>4, <1>5, <1>6 DEF Range
<1>9. \A k \in DOMAIN views' : k \in Nat \ {0} /\ views'[k] \in Sessions
  BY <1>0, <1>3 DEF Strip
<1>10. moves = 0 => /\ DOMAIN views' = DOMAIN pages'
                    /\ \A k \in DOMAIN pages' : views'[k] = pages'[k]
  BY <1>0, <1>2, <1>3, <1>4, <1>6 DEF Strip
<1>11. current' \in 0..Len(pages') /\ current' # 0  BY <1>0, <1>1, <1>2
<1> QED BY <1>1, <1>2, <1>7, <1>8, <1>9, <1>10, <1>11 DEF Strip

\* ... or dragged ...
LEMMA MoveTabStrip ==
  ASSUME Strip, NEW i, NEW j, MoveTab(i, j)
  PROVE  Strip'
<1>0. /\ pages \in Seq(Sessions) /\ IsInjective(pages) /\ Len(pages) \in Nat
      /\ i \in 1..Len(pages) /\ j \in 1..Len(pages)
      /\ DOMAIN pages = 1..Len(pages) /\ moves < MaxMoves /\ moves' = moves + 1
      /\ pages' = InsertAt(RemoveAt(pages, i), j, pages[i])
      /\ UNCHANGED <<views, open, begun>>
  BY DEF MoveTab, Strip
<1>1. /\ pages' \in Seq(Sessions) /\ Len(pages') = Len(pages) /\ IsInjective(pages')
      /\ \A k \in 1..Len(pages) : \E l \in 1..Len(pages) : pages'[k] = pages[l]
      /\ \A l \in 1..Len(pages) : \E k \in 1..Len(pages) : pages'[k] = pages[l]
  BY Moved
<1>2. DOMAIN pages' = 1..Len(pages)  BY <1>1
<1>3. current \in 1..Len(pages)  BY <1>0 DEF Strip
<1>4. current' \in DOMAIN pages'
  <2>1. \E k \in DOMAIN pages' : pages'[k] = pages[current]  BY <1>1, <1>2, <1>3
  <2> QED BY <2>1 DEF MoveTab
<1>5. Range(pages') \subseteq begun
  <2>1. \A l \in 1..Len(pages) : pages[l] \in begun  BY <1>0 DEF Strip, Range
  <2> QED BY <1>1, <1>2, <2>1 DEF Range
<1>6. moves' \in 0..MaxMoves /\ moves' # 0
  BY <1>0, TabsAssumption DEF Strip
<1>7. current' \in 0..Len(pages') /\ current' # 0
  <2>1. current' \in 1..Len(pages)  BY <1>2, <1>4
  <2> QED BY <1>0, <1>1, <2>1
<1> QED BY <1>0, <1>1, <1>5, <1>6, <1>7 DEF Strip

\* ... or the window closed.
LEMMA QuitStrip ==
  ASSUME Strip, Quit
  PROVE  Strip'
<1>1. /\ pages' = <<>> /\ views' = <<>> /\ current' = 0 /\ open' = FALSE
      /\ UNCHANGED <<begun, moves>>
  BY DEF Quit
<1>2. Len(pages') = 0 /\ pages' \in Seq(Sessions) /\ DOMAIN pages' = {} /\ DOMAIN views' = {}
  BY <1>1, EmptySeq
<1>3. IsInjective(pages') /\ Range(pages') = {}  BY <1>2 DEF IsInjective, Range
<1>4. current' \in 0..Len(pages')  BY <1>1, <1>2
<1>5. open' \in BOOLEAN /\ begun' \subseteq Sessions /\ moves' \in 0..MaxMoves
  BY <1>1 DEF Strip
<1> QED BY <1>1, <1>2, <1>3, <1>4, <1>5 DEF Strip
-----------------------------------------------------------------------------
(* ClientShell: the threads and the pickers.                               *)

\* All that passes between the window and the threads.
Talk == Threads /\ Waits /\ Untouched /\ PickKept
talkVars == <<begun, io, signals, picker>>

\* Steps that leave it alone.
LEMMA TalkSame ==
  ASSUME Talk, UNCHANGED talkVars
  PROVE  Talk'
BY DEF Talk, talkVars, picker, Threads, Waits, Untouched, PickKept

\* Sessions whose thread is thrown away, with whatever is forgotten besides.
LEMMA TalkLess ==
  ASSUME Talk, NEW ss, Disconnected(ss), begun' = begun,
         UNCHANGED <<signals, posted, preferred, picked>>,
         dialogs' \in Seq(Sessions),
         \A i \in DOMAIN dialogs' : i \in DOMAIN dialogs /\ dialogs'[i] = dialogs[i]
  PROVE  Talk'
<1>1. /\ io' = [s \in Sessions |-> IF s \in ss THEN "off" ELSE io[s]]
      /\ future' = [s \in Sessions |-> IF s \in ss THEN None ELSE future[s]]
  BY DEF Disconnected
<1>2. Threads'  BY <1>1 DEF Talk, Threads, States
<1>3. Waits'  BY <1>1 DEF Talk, Waits
<1>4. Untouched'  BY <1>1 DEF Talk, Untouched
<1>5. PickKept'  BY <1>1 DEF Talk, PickKept
<1> QED BY <1>2, <1>3, <1>4, <1>5 DEF Talk

\* A session begins with nothing asked and nothing picked.
LEMMA NewSessionTalk ==
  ASSUME Talk, NEW s \in Sessions, NewSession(s)
  PROVE  Talk'
<1>1. /\ io' = [io EXCEPT ![s] = "idle"] /\ begun' = begun \cup {s} /\ s \notin begun
      /\ UNCHANGED <<signals, picker>>
  BY DEF NewSession, Connect
<1>2. io[s] = "off" /\ picked[s] = None /\ future[s] = None
  BY <1>1 DEF Talk, Untouched, Waits
<1>3. Threads'  BY <1>1 DEF Talk, Threads, States, picker
<1>4. Waits'  BY <1>1, <1>2 DEF Talk, Threads, Waits, picker
<1>5. Untouched'  BY <1>1 DEF Talk, Threads, Untouched, picker
<1>6. PickKept'  BY <1>1, <1>2 DEF Talk, Threads, PickKept, picker
<1> QED BY <1>3, <1>4, <1>5, <1>6 DEF Talk

\* The window's end forgets everything.
LEMMA QuitTalk ==
  ASSUME Talk, Quit
  PROVE  Talk'
<1>1. /\ io' = [s \in Sessions |-> "off"] /\ future' = [s \in Sessions |-> None]
      /\ signals' = [s \in Sessions |-> <<>>] /\ posted' = [s \in Sessions |-> None]
      /\ preferred' = [s \in Sessions |-> AutoPick] /\ picked' = [s \in Sessions |-> None]
      /\ UNCHANGED <<begun, dialogs>>
  BY DEF Quit, Disconnected
<1>2. Threads'
  <2>1. \A s \in Sessions : /\ Len(signals'[s]) = 0
                            /\ signals'[s] \in Seq({"machines", "connected"})
    BY <1>1, EmptySeq
  <2> QED BY <1>1, <2>1, TabsAssumption DEF Talk, Threads, States
<1>3. Waits' /\ PickKept'  BY <1>1 DEF Waits, PickKept
<1>4. Untouched'  BY <1>1 DEF Talk, Untouched
<1> QED BY <1>2, <1>3, <1>4 DEF Talk

\* A signal is handled; it came from a session that has begun.
LEMMA SignalHandled ==
  ASSUME Talk, NEW s \in Sessions, HandleSignal(s)
  PROVE  Talk'
<1>0. Threads /\ Untouched  BY DEF Talk
<1>1. /\ signals[s] # <<>> /\ signals' = [signals EXCEPT ![s] = Tail(signals[s])]
      /\ dialogs' = (IF Head(signals[s]) = "machines" THEN Append(dialogs, s) ELSE dialogs)
      /\ UNCHANGED <<begun, io, future, posted, preferred, picked>>
  BY DEF HandleSignal
<1>2. /\ signals[s] \in Seq({"machines", "connected"}) /\ Len(signals[s]) <= MaxSignals
      /\ s \in begun
  BY <1>0, <1>1 DEF Threads, Untouched
<1>3. Tail(signals[s]) \in Seq({"machines", "connected"}) /\ Len(Tail(signals[s])) <= MaxSignals
  <2>1. Len(Tail(signals[s])) = Len(signals[s]) - 1 /\ Len(signals[s]) \in Nat
    BY <1>1, <1>2
  <2> QED BY <1>1, <1>2, <2>1, TabsAssumption
<1>4. /\ dialogs' \in Seq(Sessions)
      /\ \A i \in DOMAIN dialogs' :
           dialogs'[i] = s \/ (i \in DOMAIN dialogs /\ dialogs'[i] = dialogs[i])
  BY <1>0, <1>1 DEF Threads
<1>5. Threads'  BY <1>0, <1>1, <1>3, <1>4 DEF Threads
<1>6. Waits' /\ PickKept'  BY <1>1 DEF Talk, Waits, PickKept
<1>7. Untouched'  BY <1>0, <1>1, <1>2, <1>4, SMTT(30) DEF Threads, Untouched
<1> QED BY <1>5, <1>6, <1>7 DEF Talk

\* A choice is posted to who waits for it, or becomes the preference.
LEMMA ChooseTalk ==
  ASSUME Talk, NEW m \in Machines \cup {AutoPick}, Choose(m)
  PROVE  Talk'
<1> DEFINE s == Last(dialogs)
<1>0. Threads /\ Untouched /\ dialogs \in Seq(Sessions)  BY DEF Talk, Threads
<1>1. /\ dialogs # <<>> /\ dialogs' = Front(dialogs) /\ Select(s, m)
      /\ picked' = [picked EXCEPT ![s] = IF m = AutoPick THEN None ELSE m]
      /\ UNCHANGED <<begun, io, signals, future>>
  BY DEF Choose
<1>2. /\ s \in Sessions /\ s \in begun
      /\ dialogs' \in Seq(Sessions)
      /\ \A i \in DOMAIN dialogs' : i \in DOMAIN dialogs /\ dialogs'[i] = dialogs[i]
  <2>1. Len(dialogs) \in DOMAIN dialogs  BY <1>0, <1>1
  <2>2. s \in Sessions /\ s \in begun  BY <1>0, <2>1 DEF Last, Untouched
  <2> QED BY <1>0, <1>1, <2>2 DEF Front
<1> HIDE DEF s
<1>3. \/ future[s] # None /\ posted' = [posted EXCEPT ![s] = m] /\ preferred' = preferred
      \/ future[s] = None /\ preferred' = [preferred EXCEPT ![s] = m] /\ posted' = posted
  BY <1>1 DEF Select
<1>4. Threads'  BY <1>0, <1>1, <1>2, <1>3 DEF Threads
<1>5. Waits'  BY <1>0, <1>1, <1>2, <1>3 DEF Talk, Threads, Waits
<1>6. Untouched'  BY <1>0, <1>1, <1>2, <1>3 DEF Threads, Untouched
<1>7. PickKept'  BY <1>0, <1>1, <1>2, <1>3, TabsAssumption DEF Talk, Threads, PickKept
<1> QED BY <1>4, <1>5, <1>6, <1>7 DEF Talk

\* A picker is cancelled: its session goes with it.
LEMMA CancelTalk ==
  ASSUME Talk, Cancel
  PROVE  Talk'
<1>1. dialogs \in Seq(Sessions) /\ dialogs # <<>> /\ dialogs' = Front(dialogs)
  BY DEF Talk, Threads, Cancel
<1>2. /\ dialogs' \in Seq(Sessions)
      /\ \A i \in DOMAIN dialogs' : i \in DOMAIN dialogs /\ dialogs'[i] = dialogs[i]
  BY <1>1 DEF Front
<1> QED BY <1>2, TalkLess DEF Cancel

\* A thread that emits a signal is that of a session that has begun.
LEMMA Emitted ==
  ASSUME Threads, NEW s \in Sessions, NEW w \in {"machines", "connected"}, Emits(s, w)
  PROVE  /\ signals' \in [Sessions -> Seq({"machines", "connected"})]
         /\ \A t \in Sessions : Len(signals'[t]) <= MaxSignals
         /\ \A t \in Sessions : t # s => signals'[t] = signals[t]
<1>1. /\ signals' = [signals EXCEPT ![s] = Append(signals[s], w)]
      /\ Len(signals[s]) < MaxSignals
  BY DEF Emits
<1>2. signals[s] \in Seq({"machines", "connected"})  BY DEF Threads
<1>3. Append(signals[s], w) \in Seq({"machines", "connected"})
  BY <1>2
<1>4. Len(Append(signals[s], w)) = Len(signals[s]) + 1 /\ Len(signals[s]) \in Nat  BY <1>2
<1>5. Len(Append(signals[s], w)) <= MaxSignals  BY <1>1, <1>4, TabsAssumption
<1> QED BY <1>1, <1>3, <1>5 DEF Threads

\* The I/O thread's steps: a choice moves from the loop to the future and from
\* there to the preference, and isn't lost on the way.
LEMMA ThreadTalk ==
  ASSUME Talk, NEW s \in Sessions,
         \/ BrokerHello(s) \/ Resolve(s) \/ Selected(s)
         \/ NotAssigned(s) \/ Connected(s) \/ Fails(s)
  PROVE  Talk'
<1>0. Threads /\ Waits /\ Untouched /\ PickKept  BY DEF Talk
<1>1. CASE BrokerHello(s)
  <2>1. /\ io[s] = "idle" /\ posted[s] = None /\ future[s] = None
        /\ picked' = [picked EXCEPT ![s] = None]
        /\ UNCHANGED <<begun, dialogs, posted, preferred>>
        /\ \/ io' = [io EXCEPT ![s] = "target"] /\ UNCHANGED <<signals, future>>
           \/ /\ preferred[s] = AutoPick /\ io' = [io EXCEPT ![s] = "asking"]
              /\ future' = [future EXCEPT ![s] = Pending] /\ Emits(s, "machines")
    BY <1>0, <1>1 DEF BrokerHello, Waits
  <2>2. /\ signals' \in [Sessions -> Seq({"machines", "connected"})]
        /\ \A t \in Sessions : Len(signals'[t]) <= MaxSignals
        /\ \A t \in Sessions : t # s => signals'[t] = signals[t]
    BY <1>0, <2>1, Emitted DEF Threads
  <2>3. Threads'  BY <1>0, <2>1, <2>2 DEF Threads, States
  <2>4. Waits'  BY <1>0, <2>1 DEF Threads, Waits, Pending, None
  <2>5. Untouched'  BY <1>0, <2>1, <2>2 DEF Threads, Untouched
  <2>6. PickKept'  BY <1>0, <2>1 DEF Threads, PickKept
  <2> QED BY <2>3, <2>4, <2>5, <2>6 DEF Talk
<1>2. CASE Resolve(s)
  <2>1. /\ posted[s] # None /\ posted' = [posted EXCEPT ![s] = None]
        /\ \/ /\ future[s] = Pending /\ future' = [future EXCEPT ![s] = posted[s]]
              /\ picked' = picked
           \/ picked' = [picked EXCEPT ![s] = None] /\ future' = future
        /\ UNCHANGED <<begun, io, signals, dialogs, preferred>>
    BY <1>2 DEF Resolve
  <2>3. Threads'  BY <1>0, <2>1 DEF Threads
  <2>4. Waits'  BY <1>0, <2>1 DEF Threads, Waits, Pending, None
  <2>5. Untouched'  BY <1>0, <2>1 DEF Threads, Untouched
  <2>6. PickKept'
    <3> SUFFICES ASSUME NEW t \in Sessions, picked'[t] # None, io'[t] # "off"
                 PROVE  \/ picked'[t] \in {posted'[t], future'[t], preferred'[t]}
                        \/ preferred'[t] = AutoPick /\ io'[t] \in {"idle", "connected"}
      BY DEF PickKept
    <3>1. /\ picked'[t] = picked[t] /\ picked[t] # None /\ picked[t] \in Machines
          /\ io'[t] = io[t] /\ preferred'[t] = preferred[t]
      BY <1>0, <2>1 DEF Threads
    <3>2. \/ picked[t] \in {posted[t], future[t], preferred[t]}
          \/ preferred[t] = AutoPick /\ io[t] \in {"idle", "connected"}
      BY <1>0, <3>1 DEF PickKept
    <3>3. picked[t] # Pending  BY <3>1, TabsAssumption
    <3> QED BY <1>0, <2>1, <3>1, <3>2, <3>3 DEF Threads
  <2> QED BY <2>3, <2>4, <2>5, <2>6 DEF Talk
<1>3. CASE Selected(s)
  <2> DEFINE m == IF future[s] = Pending THEN AutoPick ELSE future[s]
  <2>1. /\ io[s] = "asking" /\ preferred' = [preferred EXCEPT ![s] = m]
        /\ picked' = [picked EXCEPT ![s] = IF m = picked[s] THEN None ELSE picked[s]]
        /\ future' = [future EXCEPT ![s] = None] /\ io' = [io EXCEPT ![s] = "target"]
        /\ UNCHANGED <<begun, signals, dialogs, posted>>
    BY <1>3 DEF Selected
  <2>2. m \in Machines \cup {AutoPick} /\ future[s] # None /\ preferred[s] = AutoPick
    BY <1>0, <2>1 DEF Threads, Waits
  <2>7. picked[s] # None => picked[s] \in {posted[s], m}
    <3>1. ASSUME picked[s] # None
          PROVE  picked[s] \in {posted[s], future[s]} /\ picked[s] # Pending
      <4>1. picked[s] \in Machines  BY <1>0, <3>1 DEF Threads
      <4>2. picked[s] \in {posted[s], future[s], preferred[s]}
        BY <1>0, <2>1, <3>1 DEF PickKept
      <4> QED BY <2>2, <4>1, <4>2, TabsAssumption
    <3> QED BY <3>1
  <2> HIDE DEF m
  <2>3. Threads'  BY <1>0, <2>1, <2>2 DEF Threads, States
  <2>4. Waits'  BY <1>0, <2>1, <2>2 DEF Threads, Waits
  <2>5. Untouched'  BY <1>0, <2>1, <2>2 DEF Threads, Untouched
  <2>6. PickKept'  BY <1>0, <2>1, <2>7 DEF Threads, PickKept
  <2> QED BY <2>3, <2>4, <2>5, <2>6 DEF Talk
<1>4. CASE NotAssigned(s)
  <2>1. /\ io[s] = "target" /\ io' = [io EXCEPT ![s] = "idle"]
        /\ UNCHANGED <<begun, signals, picker>>
    BY <1>4 DEF NotAssigned
  <2>3. Threads'  BY <1>0, <2>1 DEF Threads, States, picker
  <2>4. Waits'  BY <1>0, <2>1 DEF Threads, Waits, picker
  <2>5. Untouched'  BY <1>0, <2>1 DEF Threads, Untouched, picker
  <2>6. PickKept'  BY <1>0, <2>1 DEF Threads, PickKept, picker
  <2> QED BY <2>3, <2>4, <2>5, <2>6 DEF Talk
<1>5. CASE Connected(s)
  <2>1. /\ io[s] \in {"target", "idle"} /\ io' = [io EXCEPT ![s] = "connected"]
        /\ Emits(s, "connected") /\ UNCHANGED <<begun, picker>>
    BY <1>5 DEF Connected
  <2>2. /\ signals' \in [Sessions -> Seq({"machines", "connected"})]
        /\ \A t \in Sessions : Len(signals'[t]) <= MaxSignals
        /\ \A t \in Sessions : t # s => signals'[t] = signals[t]
    BY <1>0, <2>1, Emitted
  <2>3. Threads'  BY <1>0, <2>1, <2>2 DEF Threads, States, picker
  <2>4. Waits'  BY <1>0, <2>1 DEF Threads, Waits, picker
  <2>5. Untouched'  BY <1>0, <2>1, <2>2 DEF Threads, Untouched, picker
  <2>6. PickKept'  BY <1>0, <2>1 DEF Threads, PickKept, picker
  <2> QED BY <2>3, <2>4, <2>5, <2>6 DEF Talk
<1>6. CASE Fails(s)
  <2>1. /\ io[s] \in {"target", "connected", "idle"}
        /\ \/ io' = [io EXCEPT ![s] = "idle"]
           \/ io' = [io EXCEPT ![s] = "off"]
        /\ preferred' = [preferred EXCEPT ![s] = AutoPick]
        /\ UNCHANGED <<begun, signals, dialogs, future, posted, picked>>
    BY <1>6 DEF Fails
  <2>3. Threads'  BY <1>0, <2>1 DEF Threads, States
  <2>4. Waits'  BY <1>0, <2>1 DEF Threads, Waits
  <2>5. Untouched'  BY <1>0, <2>1 DEF Threads, Untouched
  <2>6. PickKept'  BY <1>0, <2>1 DEF Threads, PickKept
  <2> QED BY <2>3, <2>4, <2>5, <2>6 DEF Talk
<1> QED BY <1>1, <1>2, <1>3, <1>4, <1>5, <1>6
-----------------------------------------------------------------------------
(* ClientShell: the theorems.                                              *)

\* What the window and the threads keep to: the table has the pages until a tab
\* is dragged, and no thread runs but behind a page of it.
Shell == Strip /\ Talk /\ NoOrphans

\* A step that moves no tab and starts no thread.
LEMMA Quiet ==
  ASSUME Strip, NoOrphans, Talk', UNCHANGED <<tabs, open, begun, moves>>,
         \A s \in Sessions : io'[s] # "off" => io[s] # "off"
  PROVE  Shell'
<1>1. Strip'  BY DEF Strip, tabs
<1>2. NoOrphans'  BY DEF NoOrphans, tabs
<1> QED BY <1>1, <1>2 DEF Shell

\* A session begins behind a tab of its own.
LEMMA NewSessionShell ==
  ASSUME Shell, NEW s \in Sessions, NewSession(s)
  PROVE  Shell'
<1>1. Strip' /\ Talk'  BY NewSessionStrip, NewSessionTalk DEF Shell
<1>2. NoOrphans'
  <2>1. /\ open /\ open' = open /\ moves' = moves /\ pages' = Append(pages, s)
        /\ pages \in Seq(Sessions) /\ s \in Sessions
        /\ \A t \in Sessions : t # s => io'[t] = io[t]
    BY DEF NewSession, Connect, AtWindow, Shell, Strip, Talk, Threads
  <2>2. Range(pages) \cup {s} \subseteq Range(pages')
    <3>1. DOMAIN pages' = 1..Len(pages) + 1 /\ Len(pages) \in Nat /\ pages'[Len(pages) + 1] = s
      BY <2>1
    <3>2. \A k \in DOMAIN pages : k \in DOMAIN pages' /\ pages'[k] = pages[k]  BY <2>1
    <3>3. Len(pages) + 1 \in DOMAIN pages'  BY <3>1
    <3> QED BY <3>1, <3>2, <3>3 DEF Range
  <2> QED BY <2>1, <2>2 DEF Shell, NoOrphans
<1> QED BY <1>1, <1>2 DEF Shell

\* The session whose tab is closed is the one whose thread ends.
LEMMA CloseTabShell ==
  ASSUME Shell, NEW i, CloseTab(i)
  PROVE  Shell'
<1>1. Strip'  BY CloseTabStrip DEF Shell
<1>2. /\ Disconnected(Closed(i)) /\ pages' = RemoveAt(pages, i) /\ i \in DOMAIN pages
      /\ UNCHANGED <<open, begun, signals, dialogs, moves, posted, preferred, picked>>
  BY DEF CloseTab
<1>3. Talk'
  <2>1. dialogs' \in Seq(Sessions)  BY <1>2 DEF Shell, Talk, Threads
  <2> QED BY <1>2, <2>1, TalkLess DEF Shell
<1>4. NoOrphans'
  <2> SUFFICES ASSUME moves = 0, NEW s \in Sessions, io'[s] # "off"
               PROVE  open' /\ s \in Range(pages')
    BY <1>2 DEF NoOrphans
  <2>1. s \notin Closed(i) /\ io[s] # "off"  BY <1>2 DEF Disconnected
  <2>2. open /\ s \in Range(pages)  BY <2>1 DEF Shell, NoOrphans
  <2>3. PICK k \in DOMAIN pages : pages[k] = s  BY <2>2 DEF Range
  <2>4. /\ pages \in Seq(Sessions) /\ k \in 1..Len(pages) /\ i \in 1..Len(pages)
        /\ Len(pages) \in Nat
    BY <1>2, <2>3 DEF Shell, Strip
  <2>5. k # i
    <3>1. DOMAIN views = DOMAIN pages /\ views[i] = pages[i]  BY <1>2 DEF Shell, Strip
    <3> QED BY <1>2, <2>1, <2>3, <3>1 DEF Closed
  <2>6. /\ pages' \in Seq(Sessions) /\ Len(pages') = Len(pages) - 1
        /\ \A j \in 1..Len(pages) - 1 : pages'[j] = IF j < i THEN pages[j] ELSE pages[j + 1]
    BY <1>2, <2>4, Removed
  <2>7. \E j \in DOMAIN pages' : pages'[j] = s
    <3>1. CASE k < i
      <4>1. k \in 1..Len(pages) - 1  BY <2>4, <3>1
      <4> QED BY <2>3, <2>6, <3>1, <4>1
    <3>2. CASE k > i
      <4>1. k - 1 \in 1..Len(pages) - 1 /\ ~(k - 1 < i) /\ (k - 1) + 1 = k  BY <2>4, <3>2
      <4>2. k - 1 \in DOMAIN pages' /\ pages'[k - 1] = s  BY <2>3, <2>6, <4>1
      <4> QED BY <4>2
    <3> QED BY <2>4, <2>5, <3>1, <3>2
  <2> QED BY <1>2, <2>2, <2>7 DEF Range
<1> QED BY <1>1, <1>3, <1>4 DEF Shell

\* Every step keeps the invariant.
LEMMA ShellStep ==
  ASSUME Shell, [ShellNext]_shellVars
  PROVE  Shell'
<1>0. Strip /\ Talk /\ NoOrphans /\ Threads  BY DEF Shell, Talk
<1>1. ASSUME NEW s \in Sessions, NewSession(s) PROVE Shell'  BY <1>1, NewSessionShell
<1>2. ASSUME NEW i \in DOMAIN pages, SwitchTab(i) PROVE Shell'
  <2>1. /\ current' = i
        /\ UNCHANGED <<pages, views, open, begun, io, signals, picker, moves>>
    BY <1>2 DEF SwitchTab
  <2>2. current' \in 0..Len(pages') /\ current' # 0  BY <1>0, <2>1 DEF Strip
  <2>3. Strip'  BY <1>0, <2>1, <2>2 DEF Strip
  <2>4. Talk'  BY <1>0, <2>1, TalkSame DEF talkVars
  <2>5. NoOrphans'  BY <1>0, <2>1 DEF NoOrphans
  <2> QED BY <2>3, <2>4, <2>5 DEF Shell
<1>3. ASSUME NEW i \in DOMAIN pages, NEW j \in DOMAIN pages, MoveTab(i, j) PROVE Shell'
  <2>1. Strip'  BY <1>0, <1>3, MoveTabStrip
  <2>2. Talk'  BY <1>0, <1>3, TalkSame DEF MoveTab, talkVars
  <2>3. moves' # 0
    <3>1. moves' = moves + 1 /\ moves \in Nat  BY <1>0, <1>3, TabsAssumption DEF MoveTab, Strip
    <3> QED BY <3>1
  <2> QED BY <2>1, <2>2, <2>3 DEF Shell, NoOrphans
<1>4. ASSUME NEW m \in Machines \cup {AutoPick}, Choose(m) PROVE Shell'
  <2>1. Talk'  BY <1>0, <1>4, ChooseTalk
  <2> QED BY <1>0, <1>4, <2>1, Quiet DEF Choose
<1>5. CASE Cancel
  <2>1. Talk'  BY <1>0, <1>5, CancelTalk
  <2>2. \A s \in Sessions : io'[s] # "off" => io[s] # "off"
    BY <1>5 DEF Cancel, Disconnected
  <2> QED BY <1>0, <1>5, <2>1, <2>2, Quiet DEF Cancel
<1>6. ASSUME NEW i, CloseTab(i) PROVE Shell'  BY <1>6, CloseTabShell
<1>7. CASE DisconnectActive  BY <1>6, <1>7 DEF DisconnectActive
<1>8. CASE Quit
  <2>1. Strip' /\ Talk'  BY <1>0, <1>8, QuitStrip, QuitTalk
  <2>2. NoOrphans'  BY <1>8 DEF Quit, Disconnected, NoOrphans
  <2> QED BY <2>1, <2>2 DEF Shell
<1>9. ASSUME NEW s \in Sessions, HandleSignal(s) PROVE Shell'
  <2>1. Talk'  BY <1>0, <1>9, SignalHandled
  <2> QED BY <1>0, <1>9, <2>1, Quiet DEF HandleSignal
<1>10. ASSUME NEW s \in Sessions,
              \/ BrokerHello(s) \/ Resolve(s) \/ Selected(s)
              \/ NotAssigned(s) \/ Connected(s) \/ Fails(s)
       PROVE  Shell'
  <2>1. Talk'  BY <1>0, <1>10, ThreadTalk
  <2>2. UNCHANGED <<tabs, open, begun, moves>>
    BY <1>10 DEF BrokerHello, Resolve, Selected, NotAssigned, Connected, Fails
  <2>3. \A t \in Sessions : io'[t] # "off" => io[t] # "off"
    BY <1>0, <1>10
    DEF Threads, BrokerHello, Resolve, Selected, NotAssigned, Connected, Fails
  <2> QED BY <1>0, <2>1, <2>2, <2>3, Quiet
<1>11. ASSUME UNCHANGED tabVars PROVE Shell'
  <2>1. Talk'  BY <1>0, <1>11, TalkSame DEF tabVars, talkVars
  <2> QED BY <1>0, <1>11, <2>1, Quiet DEF tabVars
<1>12. CASE Window  BY <1>1, <1>2, <1>3, <1>4, <1>5, <1>6, <1>7, <1>8, <1>12 DEF Window
<1>13. CASE Elsewhere  BY <1>11, <1>13 DEF Elsewhere
<1>14. ASSUME NEW s \in Sessions, Handle(s) \/ Thread(s) \/ Panel(s) \/ Server(s)
       PROVE  Shell'
  BY <1>9, <1>10, <1>11, <1>14 DEF Handle, Thread, Panel, Server
<1>15. CASE UNCHANGED shellVars  BY <1>11, <1>15 DEF shellVars
<1> QED BY <1>12, <1>13, <1>14, <1>15 DEF ShellNext

\* It holds in the beginning.
LEMMA ShellBegins == TabsInit => Shell
<1> SUFFICES ASSUME TabsInit PROVE Shell  OBVIOUS
<1> USE DEF TabsInit
<1>1. Strip
  <2>1. Len(pages) = 0 /\ pages \in Seq(Sessions) /\ Range(pages) = {} /\ IsInjective(pages)
    BY EmptySeq DEF Range, IsInjective
  <2>2. moves \in 0..MaxMoves /\ current \in 0..Len(pages)  BY <2>1, TabsAssumption
  <2>3. DOMAIN views = {} /\ DOMAIN pages = {}  OBVIOUS
  <2> QED BY <2>1, <2>2, <2>3 DEF Strip
<1>2. Threads
  <2>1. \A s \in Sessions : signals[s] \in Seq({"machines", "connected"}) /\ Len(signals[s]) = 0
    BY EmptySeq
  <2>2. dialogs \in Seq(Sessions)  BY EmptySeq
  <2> QED BY <2>1, <2>2, TabsAssumption DEF Threads, States
<1>3. Waits /\ PickKept /\ NoOrphans  BY DEF Waits, PickKept, NoOrphans
<1>4. Untouched  BY DEF Untouched
<1> QED BY <1>1, <1>2, <1>3, <1>4 DEF Shell, Talk

\* And so always.
LEMMA AlwaysShell == ShellSpec => []Shell
<1>1. ShellInit => Shell  BY ShellBegins DEF ShellInit
<1>2. Shell /\ [ShellNext]_shellVars => Shell'  BY ShellStep
<1> QED BY <1>1, <1>2, PTL DEF ShellSpec

(* The state of tabs, threads and pickers is well typed: no session has two tabs,
   and the tab in front is one there is. *)
THEOREM TabsTypeCorrect == ShellSpec => []TabsTypeOK
<1>1. Shell => TabsTypeOK  BY StripThreads DEF Shell, Talk
<1> QED BY <1>1, AlwaysShell, PTL

(* No session's thread runs on behind a tab or a window that is closed, as long as
   no tab was dragged: closing one cleans up the session that was behind it. *)
THEOREM NoOrphansHolds == ShellSpec => []NoOrphans
<1>1. Shell => NoOrphans  BY DEF Shell
<1> QED BY <1>1, AlwaysShell, PTL

(* A machine picked is with the loop, in the future or the preference until it is
   asked for, whichever of the two threads looks first. *)
THEOREM PickKeptHolds == ShellSpec => []PickKept
<1>1. Shell => PickKept  BY DEF Shell, Talk
<1> QED BY <1>1, AlwaysShell, PTL

\* Every step keeps the server's table and its kernel in agreement.
LEMMA UsbStep ==
  ASSUME ImportsKnown, [ShellNext]_shellVars
  PROVE  ImportsKnown'
<1> USE DEF ImportsKnown
<1>1. CASE UNCHANGED usbVars  BY <1>1 DEF usbVars
<1>2. ASSUME NEW ds, Unexported(ds), slipped' = slipped \cap imported', attached' = attached
      PROVE  ImportsKnown'
  BY <1>2 DEF Unexported
<1>3. ASSUME NEW ss, Cleanup(ss) PROVE ImportsKnown'  BY <1>2, <1>3 DEF Cleanup
<1>4. ASSUME NEW s, Advertise(s) PROVE ImportsKnown'  BY <1>4 DEF Advertise
<1>5. ASSUME NEW s, NEW d, Attach(s, d) PROVE ImportsKnown'  BY <1>5 DEF Attach
<1>6. ASSUME NEW s, NEW d, Detach(s, d) PROVE ImportsKnown'  BY <1>2, <1>6 DEF Detach
<1>7. ASSUME NEW s, HandleList(s) PROVE ImportsKnown'  BY <1>7 DEF HandleList
<1>8. ASSUME NEW s, HandleAttach(s) PROVE ImportsKnown'  BY <1>8 DEF HandleAttach
<1>9. ASSUME NEW ds, Releases(ds) PROVE ImportsKnown'  BY <1>9 DEF Releases
<1>10. ASSUME NEW s, HandleDetach(s) PROVE ImportsKnown'  BY <1>9, <1>10 DEF HandleDetach
<1>11. CASE StopRuntime  BY <1>9, <1>11 DEF StopRuntime
<1>12. ASSUME NEW d, PullOut(d) PROVE ImportsKnown'  BY <1>12 DEF PullOut
<1>13. ASSUME NEW s, LoseRequests(s) PROVE ImportsKnown'  BY <1>13 DEF LoseRequests
<1>14. CASE Window  BY <1>1, <1>3, <1>14 DEF Window
<1>15. CASE Elsewhere  BY <1>11, <1>12, <1>13, <1>15 DEF Elsewhere
<1>16. ASSUME NEW s \in Sessions, Handle(s) \/ Thread(s) \/ Panel(s) \/ Server(s)
       PROVE  ImportsKnown'
  <2>1. CASE Handle(s)  BY <1>1, <1>4, <2>1 DEF Handle
  <2>2. CASE Thread(s)  BY <1>1, <2>2 DEF Thread
  <2>3. CASE Panel(s)  BY <1>4, <1>5, <1>6, <2>3 DEF Panel
  <2>4. CASE Server(s)  BY <1>7, <1>8, <1>10, <2>4 DEF Server
  <2> QED BY <1>16, <2>1, <2>2, <2>3, <2>4
<1>17. CASE UNCHANGED shellVars  BY <1>1, <1>17 DEF shellVars
<1> QED BY <1>14, <1>15, <1>16, <1>17 DEF ShellNext

(* What the server's kernel has imported is in the manager's table, but for devices
   of which a usbip command failed without being noticed, whichever sessions
   attach, detach, break off or end in whichever order. *)
THEOREM ImportsKnownHolds == ShellSpec => []ImportsKnown
<1>1. ShellInit => ImportsKnown  BY DEF ShellInit, UsbInit, ImportsKnown
<1>2. ImportsKnown /\ [ShellNext]_shellVars => ImportsKnown'  BY UsbStep
<1> QED BY <1>1, <1>2, PTL DEF ShellSpec
=============================================================================
