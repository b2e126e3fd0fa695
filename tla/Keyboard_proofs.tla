-------------------------- MODULE Keyboard_proofs --------------------------
(***************************************************************************)
(* Proofs about Keyboard for all clients, keys, codes and modifiers: no    *)
(* modifier stays down that nobody holds, and the safety net doesn't rip   *)
(* the chord of the client that typed last.                                *)
(***************************************************************************)
EXTENDS Keyboard, SequenceTheorems, TLAPS

-----------------------------------------------------------------------------
(* Messages that put a thing down and messages that take it up: everything    *)
(* that is down, or will be by one of the first n messages of s, is either    *)
(* wanted or taken up again by a later one of these.                          *)

Covered(s, n, puts, offs, is, want) ==
  /\ is => want \/ \E i \in 1..n : s[i] \in offs
  /\ \A k \in 1..n : s[k] \in puts => want \/ \E i \in (k + 1)..n : s[i] \in offs

LEMMA CoveredMore ==
  ASSUME NEW M, NEW s \in Seq(M), NEW puts, NEW offs, NEW is, NEW want, NEW now,
         NEW e \in M,
         Covered(s, Len(s), puts, offs, is, want),
         want => now \/ e \in offs,
         e \in puts => now
  PROVE  Covered(Append(s, e), Len(s) + 1, puts, offs, is, now)
<1> DEFINE r == Append(s, e)
           n == Len(s)
<1>1. n \in Nat /\ r[n + 1] = e /\ \A i \in 1..n : r[i] = s[i]  OBVIOUS
<1> HIDE DEF r, n
<1>2. Covered(s, n, puts, offs, is, want)  BY DEF n
<1>3. is => now \/ \E i \in 1..(n + 1) : r[i] \in offs
  BY <1>1, <1>2 DEF Covered
<1>4. ASSUME NEW k \in 1..(n + 1), r[k] \in puts
      PROVE  now \/ \E i \in (k + 1)..(n + 1) : r[i] \in offs
  <2>1. CASE k = n + 1  BY <1>1, <1>4, <2>1
  <2>2. CASE k # n + 1
    <3>1. k \in 1..n /\ s[k] \in puts  BY <1>1, <1>4, <2>2
    <3>2. want \/ \E i \in (k + 1)..n : s[i] \in offs  BY <1>2, <3>1 DEF Covered
    <3>3. \A i \in (k + 1)..n : i \in (k + 1)..(n + 1) /\ r[i] = s[i]
      BY <1>1, <3>1
    <3>4. want => now \/ (n + 1 \in (k + 1)..(n + 1) /\ r[n + 1] \in offs)
      BY <1>1, <3>1
    <3> QED BY <3>2, <3>3, <3>4
  <2> QED BY <2>1, <2>2
<1> QED BY <1>3, <1>4 DEF Covered, r, n

LEMMA CoveredHandled ==
  ASSUME NEW M, NEW s \in Seq(M), s # <<>>, NEW n \in 1..Len(s),
         NEW puts, NEW offs, NEW is, NEW want, NEW now,
         Covered(s, n, puts, offs, is, want),
         now => (is \/ Head(s) \in puts) /\ Head(s) \notin offs
  PROVE  Covered(Tail(s), n - 1, puts, offs, now, want)
<1> DEFINE t == Tail(s)
<1>1. /\ Head(s) = s[1] /\ n \in Nat /\ n >= 1
      /\ \A i \in 1..(n - 1) : t[i] = s[i + 1]
  OBVIOUS
<1> HIDE DEF t
<1>2. ASSUME NEW i \in 2..n PROVE i - 1 \in 1..(n - 1) /\ t[i - 1] = s[i]
  <2>1. i - 1 \in 1..(n - 1) /\ (i - 1) + 1 = i  BY <1>1
  <2> QED BY <1>1, <2>1
<1>3. ASSUME now PROVE want \/ \E i \in 1..(n - 1) : t[i] \in offs
  <2>1. want \/ \E i \in 2..n : s[i] \in offs
    <3>1. CASE is
      <4>1. want \/ \E i \in 1..n : s[i] \in offs  BY <3>1 DEF Covered
      <4>2. s[1] \notin offs  BY <1>1, <1>3
      <4>3. \A i \in 1..n : i = 1 \/ i \in 2..n  BY <1>1
      <4> QED BY <4>1, <4>2, <4>3
    <3>2. CASE Head(s) \in puts
      <4>1. 1 \in 1..n /\ s[1] \in puts  BY <1>1, <3>2
      <4>2. want \/ \E i \in (1 + 1)..n : s[i] \in offs  BY <4>1 DEF Covered
      <4> QED BY <4>2
    <3> QED BY <1>3, <3>1, <3>2
  <2> QED BY <1>2, <2>1
<1>4. ASSUME NEW k \in 1..(n - 1), t[k] \in puts
      PROVE  want \/ \E i \in (k + 1)..(n - 1) : t[i] \in offs
  <2>1. k + 1 \in 1..n /\ s[k + 1] \in puts  BY <1>1, <1>4
  <2>2. want \/ \E i \in (k + 1 + 1)..n : s[i] \in offs  BY <2>1 DEF Covered
  <2>3. ASSUME NEW i \in (k + 1 + 1)..n
        PROVE  i - 1 \in (k + 1)..(n - 1) /\ t[i - 1] = s[i]
    <3>1. i \in 2..n /\ i - 1 \in (k + 1)..(n - 1)  BY <1>1
    <3> QED BY <1>2, <3>1
  <2> QED BY <2>2, <2>3
<1> QED BY <1>3, <1>4 DEF Covered, t

-----------------------------------------------------------------------------
(* Modifiers.                                                              *)

\* The messages that press a modifier, and those that release it.
PutsDown(m) == {e \in Message : e # Reset /\ e.down /\ e.code = m}
TakesUp(m) == {e \in Message : e = Reset \/ (~e.down /\ e.code = m)}

\* What the messages of c have done to m after the first n on the wire.
Heeded(c, m, n, want) ==
  Covered(wire[c], n, PutsDown(m), TakesUp(m), m \in pressed[c], want)

\* An event that says no modifier is held ends what was pressed before it, and
\* one that presses a modifier doesn't say so.
EndsChord(c, i) ==
  wire[c][i] # Reset /\ ~wire[c][i].mods =>
    /\ \A m \in Modifiers : Heeded(c, m, i, FALSE)
    /\ ~(wire[c][i].down /\ wire[c][i].code \in Modifiers)

\* What is pressed by c, now or soon, its user holds or will be released.
Truthful(c) ==
  /\ \A m \in Modifiers : attached[c] => Heeded(c, m, Len(wire[c]), m \in Wanted(c))
  /\ \A i \in 1..Len(wire[c]) : EndsChord(c, i)

\* Nothing is left of a chord the safety net may end.
ChordEnded == ~hadMods /\ last \in Clients => pressed[last] = {}

LEMMA MessageIsEvent ==
  ASSUME NEW e \in Message
  PROVE  e # Reset => e.code \in Codes \cup {NoCode} /\ e.down \in BOOLEAN
                      /\ e.mods \in BOOLEAN /\ e.caps \in BOOLEAN
BY DEF Message, KeyEvent

LEMMA OneEvent ==
  ASSUME NEW c \in Clients, NEW k \in Keys, NEW isDown \in BOOLEAN, NEW holding,
         NEW caps \in BOOLEAN
  PROVE  EventOf(c, k, isDown, holding, caps) \in Message
<1> DEFINE mods == HasModifiers(k, holding)
           on == caps /\ c \in Probing
<1>1. codeOf[k] \in Codes \cup {NoCode}  BY CodesAssumption
<1>2. mods \in BOOLEAN /\ on \in BOOLEAN  BY DEF HasModifiers
<1>3. EventOf(c, k, isDown, holding, caps) = KeyEvent(codeOf[k], isDown, mods, on)
  BY DEF EventOf
<1> HIDE DEF mods, on
<1> QED BY <1>1, <1>2, <1>3 DEF Message

(* What is sent. *)
LEMMA SentByOne ==
  ASSUME TypeOK, NEW c \in Clients, NEW e \in Message, Send(c, e)
  PROVE  /\ wire' \in [Clients -> Seq(Message)]
         /\ \A d \in Clients \ {c} : wire'[d] = wire[d]
         /\ ~attached[c] => wire'[c] = <<>>
<1>1. wire \in [Clients -> Seq(Message)] /\ (~attached[c] => wire[c] = <<>>)
  BY DEF TypeOK
<1>2. CASE attached[c]
  <2>1. Append(wire[c], e) \in Seq(Message)  BY <1>1
  <2>2. wire' = [wire EXCEPT ![c] = Append(wire[c], e)]  BY <1>2 DEF Send
  <2> QED BY <1>1, <1>2, <2>1, <2>2
<1>3. CASE ~attached[c]  BY <1>1, <1>3 DEF Send
<1> QED BY <1>2, <1>3

-----------------------------------------------------------------------------
(* Types.                                                                  *)

LEMMA TypeStep ==
  ASSUME TypeOK, [Next]_vars
  PROVE  TypeOK'
<1> USE CodesAssumption
<1>0. /\ held \in [Clients -> SUBSET Keys] /\ capsOn \in [Clients -> BOOLEAN]
      /\ focused \in [Clients -> BOOLEAN] /\ attached \in [Clients -> BOOLEAN]
      /\ wire \in [Clients -> Seq(Message)]
  BY DEF TypeOK
<1>1. ASSUME NEW c \in Clients, NEW k \in Keys, Press(c, k) PROVE TypeOK'
  <2>1. /\ held' = [held EXCEPT ![c] = @ \cup {k}]
        /\ capsOn' = [capsOn EXCEPT ![c] = IF codeOf[k] = LockKey THEN ~@ ELSE @]
        /\ UNCHANGED <<focused, attached, server>>
    BY <1>1 DEF Press
  <2>2. capsOn' \in [Clients -> BOOLEAN] /\ held' \in [Clients -> SUBSET Keys]
    BY <1>0, <2>1
  <2>3. EventOf(c, k, TRUE, held'[c], capsOn'[c]) \in Message
    BY <2>2, OneEvent
  <2>4. /\ wire' \in [Clients -> Seq(Message)]
        /\ \A d \in Clients : ~attached[d] => wire'[d] = <<>>
    <3>1. CASE wire' = wire  BY <1>0, <3>1 DEF TypeOK
    <3>2. CASE Send(c, EventOf(c, k, TRUE, held'[c], capsOn'[c]))
      BY <2>3, <3>2, SentByOne DEF TypeOK
    <3> QED BY <1>1, <3>1, <3>2 DEF Press
  <2> QED BY <2>1, <2>2, <2>4 DEF TypeOK, server
<1>2. ASSUME NEW c \in Clients, NEW k \in Keys, Release(c, k) PROVE TypeOK'
  <2>1. /\ held' = [held EXCEPT ![c] = @ \ {k}]
        /\ UNCHANGED <<capsOn, focused, attached, server>>
    BY <1>2 DEF Release
  <2>2. held' \in [Clients -> SUBSET Keys]  BY <1>0, <2>1
  <2>3. EventOf(c, k, FALSE, held'[c], capsOn[c]) \in Message
    BY <1>0, OneEvent
  <2>4. /\ wire' \in [Clients -> Seq(Message)]
        /\ \A d \in Clients : ~attached[d] => wire'[d] = <<>>
    <3>1. CASE wire' = wire  BY <1>0, <3>1 DEF TypeOK
    <3>2. CASE Send(c, EventOf(c, k, FALSE, held'[c], capsOn[c]))
      BY <2>3, <3>2, SentByOne DEF TypeOK
    <3> QED BY <1>2, <3>1, <3>2 DEF Release
  <2> QED BY <2>1, <2>2, <2>4 DEF TypeOK, server
<1>3. ASSUME NEW c \in Clients, FocusIn(c) PROVE TypeOK'
  BY <1>3 DEF FocusIn, TypeOK, server
<1>4. ASSUME NEW c \in Clients, FocusOut(c) \/ Panic(c) PROVE TypeOK'
  <2>1. Reset \in Message  BY DEF Message
  <2>2. Send(c, Reset) /\ UNCHANGED <<held, capsOn, attached, server>>
    BY <1>4 DEF FocusOut, Panic, user
  <2>3. focused' \in [Clients -> BOOLEAN]  BY <1>0, <1>4 DEF FocusOut, Panic, user
  <2>4. /\ wire' \in [Clients -> Seq(Message)]
        /\ \A d \in Clients : ~attached[d] => wire'[d] = <<>>
    BY <2>1, <2>2, SentByOne DEF TypeOK
  <2> QED BY <2>2, <2>3, <2>4 DEF TypeOK, server
<1>5. ASSUME NEW c \in Clients, AddClient(c) PROVE TypeOK'
  BY <1>5 DEF AddClient, ResetModifiers, TypeOK
<1>6. ASSUME NEW c \in Clients, RemoveClient(c) PROVE TypeOK'
  <2>1. <<>> \in Seq(Message)  OBVIOUS
  <2> QED BY <1>6, <2>1 DEF RemoveClient, TypeOK, server
<1>7. ASSUME NEW c \in Clients, HandleKey(c) PROVE TypeOK'
  <2> DEFINE s == wire[c]
             m == Head(s)
  <2>1. /\ s # <<>> /\ m # Reset /\ wire' = [wire EXCEPT ![c] = Tail(s)]
        /\ quiet' = FALSE /\ hadMods' = m.mods /\ last' = c
        /\ Inject(c, m) /\ UNCHANGED user
    BY <1>7 DEF HandleKey
  <2>2. s \in Seq(Message)  BY <1>0
  <2>3. m \in Message /\ Tail(s) \in Seq(Message)  BY <2>1, <2>2
  <2>4. wire' \in [Clients -> Seq(Message)] /\ \A d \in Clients \ {c} : wire'[d] = wire[d]
    BY <1>0, <2>1, <2>3
  <2> HIDE DEF m, s
  <2>5. m.code \in Codes \cup {NoCode} /\ m.down \in BOOLEAN /\ m.mods \in BOOLEAN
        /\ m.caps \in BOOLEAN
    BY <2>1, <2>3, MessageIsEvent
  <2>6. attached[c]  BY <2>1 DEF TypeOK, s
  <2>7. lock' \in BOOLEAN /\ lockCache' \in BOOLEAN
    BY <2>1, <2>5 DEF TypeOK, Inject, Corrected
  <2>8. down' = IF m.down THEN down \cup ({m.code} \ {NoCode}) ELSE down \ {m.code}
    BY <2>1 DEF Inject
  <2>9. /\ pressed' \in [Clients -> SUBSET Modifiers]
        /\ pressed'[c] = IF m.down THEN pressed[c] \cup ({m.code} \cap Modifiers)
                         ELSE pressed[c] \ {m.code}
        /\ \A d \in Clients \ {c} : pressed'[d] = pressed[d]
    <3>1. pressed \in [Clients -> SUBSET Modifiers]  BY DEF TypeOK
    <3>2. pressed' = [pressed EXCEPT ![c] = IF m.down THEN @ \cup ({m.code} \cap Modifiers)
                                             ELSE @ \ {m.code}]
      BY <2>1 DEF Inject
    <3> QED BY <3>1, <3>2
  <2>10. down' \subseteq Codes  BY <2>5, <2>8 DEF TypeOK
  <2>11. down' \cap Modifiers \subseteq UNION {pressed'[d] : d \in Clients}
    <3>1. ASSUME NEW x \in down' \cap Modifiers PROVE \E d \in Clients : x \in pressed'[d]
      <4>1. CASE m.down /\ x = m.code  BY <2>9, <4>1
      <4>2. CASE ~(m.down /\ x = m.code)
        <5>1. x \in down /\ (~m.down => x # m.code)  BY <2>8, <4>2
        <5>2. PICK d \in Clients : x \in pressed[d]  BY <5>1 DEF TypeOK
        <5> QED BY <2>9, <5>1, <5>2
      <4> QED BY <4>1, <4>2
    <3> QED BY <3>1
  <2>12. \A d \in Clients : ~attached[d] => wire'[d] = <<>>
    BY <2>4, <2>6 DEF TypeOK
  <2> QED BY <2>1, <2>4, <2>5, <2>7, <2>9, <2>10, <2>11, <2>12 DEF TypeOK, user
<1>8. ASSUME NEW c \in Clients, HandleReset(c) PROVE TypeOK'
  <2> DEFINE s == wire[c]
  <2>1. s # <<>> /\ s \in Seq(Message) /\ wire' = [wire EXCEPT ![c] = Tail(s)]
    BY <1>0, <1>8 DEF HandleReset
  <2>2. Tail(s) \in Seq(Message)  BY <2>1
  <2>3. attached[c]  BY <2>1 DEF TypeOK
  <2>4. wire' \in [Clients -> Seq(Message)] /\ \A d \in Clients : ~attached[d] => wire'[d] = <<>>
    BY <1>0, <2>1, <2>2, <2>3 DEF TypeOK
  <2> QED BY <1>8, <2>4 DEF HandleReset, ResetModifiers, TypeOK, user
<1>9. CASE TenSeconds  BY <1>9 DEF TenSeconds, TypeOK, user
<1>10. CASE PeriodicReset  BY <1>10 DEF PeriodicReset, ResetModifiers, TypeOK, user
<1>11. CASE UNCHANGED vars  BY <1>11 DEF vars, TypeOK
<1> QED BY <1>1, <1>2, <1>3, <1>4, <1>5, <1>6, <1>7, <1>8, <1>9, <1>10, <1>11 DEF Next

LEMMA TypeAtFirst ==
  ASSUME Init
  PROVE  TypeOK
<1>1. <<>> \in Seq(Message)  OBVIOUS
<1> QED BY <1>1 DEF Init, TypeOK

(* The keyboard is type correct: in particular, the modifiers that are down are
   among those a client pressed. *)
THEOREM TypeCorrect == Spec => []TypeOK
BY TypeAtFirst, TypeStep, PTL DEF Spec

-----------------------------------------------------------------------------
(* Modifiers are followed up.                                              *)

\* Releasing messages of a modifier, and pressing ones.
LEMMA EventCounts ==
  ASSUME NEW e \in Message, NEW m
  PROVE  /\ e \in TakesUp(m) <=> (e = Reset \/ (~e.down /\ e.code = m))
         /\ e \in PutsDown(m) <=> (e # Reset /\ e.down /\ e.code = m)
BY DEF PutsDown, TakesUp

(* A client from whom nothing comes, and who means no less. *)
LEMMA LeftAlone ==
  ASSUME NEW c \in Clients, Truthful(c),
         wire'[c] = wire[c], pressed'[c] \subseteq pressed[c], attached'[c] => attached[c],
         \A m \in Modifiers : m \in Wanted(c) => m \in Wanted(c)'
  PROVE  Truthful(c)'
<1>1. ASSUME NEW m \in Modifiers, attached'[c]
      PROVE  Covered(wire'[c], Len(wire'[c]), PutsDown(m), TakesUp(m), m \in pressed'[c],
                     (m \in Wanted(c))')
  BY <1>1 DEF Truthful, Heeded, Covered
<1>2. ASSUME NEW i \in 1..Len(wire'[c])
      PROVE  EndsChord(c, i)'
  <2>1. EndsChord(c, i)  BY <1>2 DEF Truthful
  <2>2. ASSUME NEW m \in Modifiers,
               Covered(wire[c], i, PutsDown(m), TakesUp(m), m \in pressed[c], FALSE)
        PROVE  Covered(wire'[c], i, PutsDown(m), TakesUp(m), m \in pressed'[c], FALSE)
    BY <2>2 DEF Covered
  <2> QED BY <2>1, <2>2 DEF EndsChord, Heeded, PutsDown, TakesUp
<1> QED BY <1>1, <1>2 DEF Truthful, Heeded, PutsDown, TakesUp

(* A client of whom nothing is on its way. *)
LEMMA NothingSent ==
  ASSUME NEW c \in Clients, wire'[c] = <<>>, attached'[c] => pressed'[c] = {}
  PROVE  Truthful(c)'
<1>1. Len(wire'[c]) = 0  OBVIOUS
<1>2. \A m \in Modifiers : attached'[c] =>
        Covered(wire'[c], Len(wire'[c]), PutsDown(m), TakesUp(m), m \in pressed'[c],
                (m \in Wanted(c))')
  BY <1>1 DEF Covered
<1>3. \A i \in 1..Len(wire'[c]) : EndsChord(c, i)'  BY <1>1
<1> QED BY <1>2, <1>3 DEF Truthful, Heeded, PutsDown, TakesUp

(* What c sends follows up what it has sent before. *)
LEMMA Sent ==
  ASSUME TypeOK, NEW c \in Clients, Truthful(c), NEW e \in Message, Send(c, e),
         pressed' = pressed, attached' = attached,
         \A m \in Modifiers : /\ m \in Wanted(c) => m \in Wanted(c)' \/ e \in TakesUp(m)
                              /\ e \in PutsDown(m) => m \in Wanted(c)',
         e # Reset /\ ~e.mods => /\ \A m \in Modifiers : ~(m \in Wanted(c))'
                                 /\ ~(e.down /\ e.code \in Modifiers)
  PROVE  Truthful(c)'
<1> DEFINE s == wire[c]
           r == Append(s, e)
<1>1. s \in Seq(Message) /\ Len(s) \in Nat  BY DEF TypeOK
<1>2. CASE ~attached[c]
  <2>1. wire'[c] = <<>>  BY <1>2 DEF Send, TypeOK
  <2> QED BY <1>2, <2>1, NothingSent
<1>3. CASE attached[c]
  <2>1. wire'[c] = r /\ Len(r) = Len(s) + 1 /\ r[Len(s) + 1] = e
        /\ \A i \in 1..Len(s) : r[i] = s[i]
    <3>1. wire' = [wire EXCEPT ![c] = r]  BY <1>3 DEF Send
    <3> QED BY <1>1, <3>1 DEF TypeOK
  <2>2. ASSUME NEW m \in Modifiers
        PROVE  Covered(r, Len(s) + 1, PutsDown(m), TakesUp(m), m \in pressed[c], m \in Wanted(c)')
    <3>1. Covered(s, Len(s), PutsDown(m), TakesUp(m), m \in pressed[c], m \in Wanted(c))
      BY <1>3 DEF Truthful, Heeded
    <3> HIDE DEF s
    <3> QED BY <1>1, <3>1, CoveredMore
  <2> HIDE DEF s, r
  <2>3. \A m \in Modifiers :
          Covered(wire'[c], Len(wire'[c]), PutsDown(m), TakesUp(m), m \in pressed'[c],
                  (m \in Wanted(c))')
    BY <2>1, <2>2
  <2>4. ASSUME NEW i \in 1..(Len(s) + 1), r[i] # Reset, ~r[i].mods
        PROVE  /\ \A m \in Modifiers :
                    Covered(r, i, PutsDown(m), TakesUp(m), m \in pressed[c], FALSE)
               /\ ~(r[i].down /\ r[i].code \in Modifiers)
    <3>1. CASE i = Len(s) + 1
      <4>1. r[i] = e  BY <2>1, <3>1
      <4>2. ASSUME NEW m \in Modifiers
            PROVE  Covered(r, i, PutsDown(m), TakesUp(m), m \in pressed[c], FALSE)
        <5>1. Covered(r, i, PutsDown(m), TakesUp(m), m \in pressed[c], m \in Wanted(c)')
          BY <2>2, <3>1
        <5>2. ~(m \in Wanted(c))'  BY <2>4, <4>1
        <5> QED BY <5>1, <5>2 DEF Covered
      <4> QED BY <2>4, <4>1, <4>2
    <3>2. CASE i \in 1..Len(s)
      <4>1. r[i] = s[i] /\ EndsChord(c, i)  BY <2>1, <3>2 DEF Truthful, s
      <4>2. /\ \A m \in Modifiers :
                 Covered(s, i, PutsDown(m), TakesUp(m), m \in pressed[c], FALSE)
            /\ ~(s[i].down /\ s[i].code \in Modifiers)
        BY <2>4, <4>1 DEF EndsChord, Heeded, s
      <4>3. ASSUME NEW m \in Modifiers
            PROVE  Covered(r, i, PutsDown(m), TakesUp(m), m \in pressed[c], FALSE)
        <5>1. Covered(s, i, PutsDown(m), TakesUp(m), m \in pressed[c], FALSE)  BY <4>2
        <5>2. \A j \in 1..i : r[j] = s[j]  BY <1>1, <2>1, <3>2
        <5>3. \A k \in 1..i : \A j \in (k + 1)..i : r[j] = s[j]  BY <3>2, <5>2
        <5> QED BY <5>1, <5>2, <5>3 DEF Covered
      <4> QED BY <4>1, <4>2, <4>3
    <3>3. i = Len(s) + 1 \/ i \in 1..Len(s)  BY <1>1
    <3> QED BY <3>1, <3>2, <3>3, Zenon
  <2>5. ASSUME NEW i \in 1..Len(wire'[c]) PROVE EndsChord(c, i)'
    BY <2>1, <2>4 DEF EndsChord, Heeded, PutsDown, TakesUp
  <2> QED BY <2>3, <2>5 DEF Truthful, Heeded, PutsDown, TakesUp
<1> QED BY <1>2, <1>3

(* What is handled has its effect. *)
LEMMA Handled ==
  ASSUME TypeOK, NEW c \in Clients, Truthful(c), wire[c] # <<>>,
         wire' = [wire EXCEPT ![c] = Tail(@)], attached' = attached,
         \A m \in Modifiers : m \in Wanted(c) => m \in Wanted(c)',
         \A m \in Modifiers : m \in pressed'[c] =>
           /\ m \in pressed[c] \/ Head(wire[c]) \in PutsDown(m)
           /\ Head(wire[c]) \notin TakesUp(m)
  PROVE  Truthful(c)'
<1> DEFINE s == wire[c]
<1>1. s \in Seq(Message) /\ s # <<>> /\ Len(s) \in 1..Len(s) /\ attached[c] /\ wire'[c] = Tail(s)
  BY DEF TypeOK
<1>2. Len(Tail(s)) = Len(s) - 1 /\ \A i \in 1..(Len(s) - 1) : Tail(s)[i] = s[i + 1]
  BY <1>1
<1>3. ASSUME NEW m \in Modifiers
      PROVE  Covered(Tail(s), Len(s) - 1, PutsDown(m), TakesUp(m), m \in pressed'[c],
                     (m \in Wanted(c))')
  <2>1. Covered(s, Len(s), PutsDown(m), TakesUp(m), m \in pressed[c], m \in Wanted(c))
    BY <1>1 DEF Truthful, Heeded
  <2>2. Covered(s, Len(s), PutsDown(m), TakesUp(m), m \in pressed[c], (m \in Wanted(c))')
    BY <2>1 DEF Covered
  <2>3. m \in pressed'[c] =>
          (m \in pressed[c] \/ Head(s) \in PutsDown(m)) /\ Head(s) \notin TakesUp(m)
    OBVIOUS
  <2> HIDE DEF s
  <2> QED BY <1>1, <2>2, <2>3, CoveredHandled
<1>4. ASSUME NEW i \in 1..(Len(s) - 1), Tail(s)[i] # Reset, ~Tail(s)[i].mods
      PROVE  /\ \A m \in Modifiers :
                  Covered(Tail(s), i, PutsDown(m), TakesUp(m), m \in pressed'[c], FALSE)
             /\ ~(Tail(s)[i].down /\ Tail(s)[i].code \in Modifiers)
  <2>1. i + 1 \in 1..Len(s) /\ Tail(s)[i] = s[i + 1] /\ (i + 1) - 1 = i
    BY <1>1, <1>2
  <2>2. EndsChord(c, i + 1)  BY <2>1 DEF Truthful
  <2>3. /\ \A m \in Modifiers :
             Covered(s, i + 1, PutsDown(m), TakesUp(m), m \in pressed[c], FALSE)
        /\ ~(s[i + 1].down /\ s[i + 1].code \in Modifiers)
    BY <1>4, <2>1, <2>2 DEF EndsChord, Heeded
  <2>4. ASSUME NEW m \in Modifiers
        PROVE  Covered(Tail(s), i, PutsDown(m), TakesUp(m), m \in pressed'[c], FALSE)
    <3>1. Covered(s, i + 1, PutsDown(m), TakesUp(m), m \in pressed[c], FALSE)  BY <2>3
    <3>2. m \in pressed'[c] =>
            (m \in pressed[c] \/ Head(s) \in PutsDown(m)) /\ Head(s) \notin TakesUp(m)
      OBVIOUS
    <3> HIDE DEF s
    <3>3. Covered(Tail(s), (i + 1) - 1, PutsDown(m), TakesUp(m), m \in pressed'[c], FALSE)
      BY <1>1, <2>1, <3>1, <3>2, CoveredHandled
    <3> QED BY <2>1, <3>3
  <2> QED BY <2>1, <2>3, <2>4
<1> HIDE DEF s
<1>5. \A m \in Modifiers :
        Covered(wire'[c], Len(wire'[c]), PutsDown(m), TakesUp(m), m \in pressed'[c],
                (m \in Wanted(c))')
  BY <1>1, <1>2, <1>3
<1>6. ASSUME NEW i \in 1..Len(wire'[c]) PROVE EndsChord(c, i)'
  <2>1. i \in 1..(Len(s) - 1) /\ wire'[c] = Tail(s)  BY <1>1, <1>2
  <2>2. wire'[c][i] # Reset /\ ~wire'[c][i].mods =>
          /\ \A m \in Modifiers :
               Covered(wire'[c], i, PutsDown(m), TakesUp(m), m \in pressed'[c], FALSE)
          /\ ~(wire'[c][i].down /\ wire'[c][i].code \in Modifiers)
    BY <1>4, <2>1
  <2> QED BY <2>2 DEF EndsChord, Heeded, PutsDown, TakesUp
<1> QED BY <1>5, <1>6 DEF Truthful, Heeded, PutsDown, TakesUp

LEMMA TruthfulStep ==
  ASSUME TypeOK, \A c \in Clients : Truthful(c), ChordEnded, [Next]_vars
  PROVE  (\A c \in Clients : Truthful(c)') /\ ChordEnded'
<1> USE CodesAssumption
<1>0. /\ held \in [Clients -> SUBSET Keys] /\ capsOn \in [Clients -> BOOLEAN]
      /\ focused \in [Clients -> BOOLEAN] /\ attached \in [Clients -> BOOLEAN]
      /\ pressed \in [Clients -> SUBSET Modifiers]
  BY DEF TypeOK
<1>1. ASSUME NEW c \in Clients, NEW k \in Keys, Press(c, k)
      PROVE  (\A d \in Clients : Truthful(d)') /\ ChordEnded'
  <2>1. /\ held' = [held EXCEPT ![c] = @ \cup {k}]
        /\ capsOn' = [capsOn EXCEPT ![c] = IF codeOf[k] = LockKey THEN ~@ ELSE @]
        /\ UNCHANGED <<focused, attached, hadMods, pressed, last>>
    BY <1>1 DEF Press, server
  <2>2. held'[c] = held[c] \cup {k} /\ capsOn'[c] \in BOOLEAN
    BY <1>0, <2>1
  <2>3. \A d \in Clients : Wanted(d) \subseteq Wanted(d)'
    <3>1. \A d \in Clients : held[d] \subseteq held'[d]  BY <1>0, <2>1
    <3> QED BY <2>1, <3>1 DEF Wanted
  <2> DEFINE e == EventOf(c, k, TRUE, held'[c], capsOn'[c])
  <2>4. CASE focused[c] /\ Send(c, e)
    <3>1. /\ e \in Message /\ e # Reset /\ e.code = codeOf[k] /\ e.down
          /\ e.mods = HasModifiers(k, held'[c])
      <4>1. e \in Message  BY <2>2, OneEvent
      <4>2. e.is = "key" /\ Reset.is = "reset"  BY DEF EventOf, KeyEvent, Reset
      <4>3. e.code = codeOf[k] /\ e.down  BY DEF EventOf, KeyEvent
      <4>4. e.mods = HasModifiers(k, held'[c])  BY DEF EventOf, KeyEvent
      <4> HIDE DEF e
      <4> QED BY <4>1, <4>2, <4>3, <4>4
    <3> HIDE DEF e
    <3>2. \A d \in Clients \ {c} : wire'[d] = wire[d]  BY <2>4, <3>1, SentByOne
    <3>3. \A d \in Clients \ {c} : Truthful(d)'  BY <2>1, <2>3, <3>2, LeftAlone
    <3>4. CASE ~attached[c]
      <4>1. wire'[c] = <<>>  BY <2>4, <3>1, <3>4, SentByOne
      <4> QED BY <2>1, <3>3, <3>4, <4>1, NothingSent DEF ChordEnded
    <3>5. CASE attached[c]
      <4>1. Wanted(c)' = {codeOf[h] : h \in held'[c]}  BY <2>1, <2>4, <3>5 DEF Wanted
      <4>2. ASSUME NEW m \in Modifiers
            PROVE  /\ m \in Wanted(c) => (m \in Wanted(c))' \/ e \in TakesUp(m)
                   /\ e \in PutsDown(m) => (m \in Wanted(c))'
        BY <2>2, <2>3, <3>1, <4>1, EventCounts
      <4>3. ASSUME ~e.mods
            PROVE  /\ \A m \in Modifiers : ~(m \in Wanted(c))'
                   /\ ~(e.down /\ e.code \in Modifiers)
        <5>1. \A h \in held'[c] : codeOf[h] \notin Modifiers
          BY <3>1, <4>3 DEF HasModifiers, IsModifier
        <5>2. \A m \in Modifiers : m \notin Wanted(c)'  BY <4>1, <5>1
        <5> QED BY <2>2, <3>1, <5>1, <5>2
      <4>4. Truthful(c)'  BY <2>1, <2>4, <3>1, <4>2, <4>3, Sent
      <4> QED BY <2>1, <3>3, <4>4 DEF ChordEnded
    <3> QED BY <3>4, <3>5
  <2>5. CASE wire' = wire
    BY <2>1, <2>3, <2>5, LeftAlone DEF ChordEnded
  <2> QED BY <1>1, <2>4, <2>5 DEF Press
<1>2. ASSUME NEW c \in Clients, NEW k \in Keys, Release(c, k)
      PROVE  (\A d \in Clients : Truthful(d)') /\ ChordEnded'
  <2>1. /\ held' = [held EXCEPT ![c] = @ \ {k}]
        /\ UNCHANGED <<capsOn, focused, attached, hadMods, pressed, last>>
    BY <1>2 DEF Release, server
  <2>2. held'[c] = held[c] \ {k} /\ capsOn[c] \in BOOLEAN
    BY <1>0, <2>1
  <2>3. \A d \in Clients \ {c} : Wanted(d) \subseteq Wanted(d)'
    <3>1. \A d \in Clients \ {c} : held[d] = held'[d]  BY <1>0, <2>1
    <3> QED BY <2>1, <3>1 DEF Wanted
  <2> DEFINE e == EventOf(c, k, FALSE, held'[c], capsOn[c])
  <2>4. CASE focused[c] /\ Send(c, e)
    <3>1. /\ e \in Message /\ e # Reset /\ e.code = codeOf[k] /\ ~e.down
          /\ e.mods = HasModifiers(k, held'[c])
      <4>1. e \in Message  BY <2>2, OneEvent
      <4>2. e.is = "key" /\ Reset.is = "reset"  BY DEF EventOf, KeyEvent, Reset
      <4>3. e.code = codeOf[k] /\ ~e.down  BY DEF EventOf, KeyEvent
      <4>4. e.mods = HasModifiers(k, held'[c])  BY DEF EventOf, KeyEvent
      <4> HIDE DEF e
      <4> QED BY <4>1, <4>2, <4>3, <4>4
    <3> HIDE DEF e
    <3>2. \A d \in Clients \ {c} : wire'[d] = wire[d]  BY <2>4, <3>1, SentByOne
    <3>3. \A d \in Clients \ {c} : Truthful(d)'  BY <2>1, <2>3, <3>2, LeftAlone
    <3>4. CASE ~attached[c]
      <4>1. wire'[c] = <<>>  BY <2>4, <3>1, <3>4, SentByOne
      <4> QED BY <2>1, <3>3, <3>4, <4>1, NothingSent DEF ChordEnded
    <3>5. CASE attached[c]
      <4>1. /\ Wanted(c)' = {codeOf[h] : h \in held'[c]}
            /\ Wanted(c) = {codeOf[h] : h \in held[c]}
        BY <2>1, <2>4, <3>5 DEF Wanted
      <4>2. ASSUME NEW m \in Modifiers
            PROVE  /\ m \in Wanted(c) => (m \in Wanted(c))' \/ e \in TakesUp(m)
                   /\ e \in PutsDown(m) => (m \in Wanted(c))'
        BY <2>2, <3>1, <4>1, EventCounts
      <4>3. ASSUME ~e.mods
            PROVE  /\ \A m \in Modifiers : ~(m \in Wanted(c))'
                   /\ ~(e.down /\ e.code \in Modifiers)
        <5>1. \A h \in held'[c] : codeOf[h] \notin Modifiers
          BY <3>1, <4>3 DEF HasModifiers, IsModifier
        <5>2. \A m \in Modifiers : m \notin Wanted(c)'  BY <4>1, <5>1
        <5> QED BY <2>2, <3>1, <5>1, <5>2
      <4>4. Truthful(c)'  BY <2>1, <2>4, <3>1, <4>2, <4>3, Sent
      <4> QED BY <2>1, <3>3, <4>4 DEF ChordEnded
    <3> QED BY <3>4, <3>5
  <2>5. CASE ~focused[c] /\ wire' = wire
    <3>1. Wanted(c) = {}  BY <2>5 DEF Wanted
    <3> QED BY <2>1, <2>3, <2>5, <3>1, LeftAlone DEF ChordEnded
  <2> QED BY <1>2, <2>4, <2>5 DEF Release
<1>3. ASSUME NEW c \in Clients, FocusIn(c)
      PROVE  (\A d \in Clients : Truthful(d)') /\ ChordEnded'
  <2>1. \A d \in Clients : Wanted(d) \subseteq Wanted(d)'
    BY <1>0, <1>3 DEF FocusIn, Wanted
  <2> QED BY <1>3, <2>1, LeftAlone DEF FocusIn, server, ChordEnded
<1>4. ASSUME NEW c \in Clients, FocusOut(c) \/ Panic(c)
      PROVE  (\A d \in Clients : Truthful(d)') /\ ChordEnded'
  <2>1. /\ Send(c, Reset) /\ Reset \in Message
        /\ UNCHANGED <<held, attached, hadMods, pressed, last>>
    BY <1>4 DEF FocusOut, Panic, user, server, Message
  <2>2. \A d \in Clients \ {c} : wire'[d] = wire[d]  BY <2>1, SentByOne
  <2>3. \A d \in Clients \ {c} : Wanted(d)' = Wanted(d)
    BY <1>0, <1>4, <2>1 DEF FocusOut, Panic, user, Wanted
  <2>4. \A d \in Clients \ {c} : Truthful(d)'  BY <2>1, <2>2, <2>3, LeftAlone
  <2>5. \A m \in Modifiers : Reset \in TakesUp(m) /\ Reset \notin PutsDown(m)
    BY <2>1, EventCounts
  <2>6. Truthful(c)'  BY <2>1, <2>5, Sent
  <2> QED BY <2>1, <2>4, <2>6 DEF ChordEnded
<1>5. ASSUME NEW c \in Clients, AddClient(c)
      PROVE  (\A d \in Clients : Truthful(d)') /\ ChordEnded'
  <2>1. /\ attached' = [attached EXCEPT ![c] = TRUE] /\ ~attached[c]
        /\ pressed' = [d \in Clients |-> {}]
        /\ UNCHANGED <<held, focused, wire, hadMods, last>>
    BY <1>5 DEF AddClient, ResetModifiers
  <2>2. wire'[c] = <<>> /\ \A d \in Clients : pressed'[d] = {}
    BY <2>1 DEF TypeOK
  <2>3. \A d \in Clients \ {c} : attached'[d] = attached[d] /\ Wanted(d)' = Wanted(d)
    BY <1>0, <2>1 DEF Wanted
  <2>4. \A d \in Clients \ {c} : Truthful(d)'  BY <2>1, <2>2, <2>3, LeftAlone
  <2>5. Truthful(c)'  BY <2>2, NothingSent
  <2> QED BY <2>2, <2>4, <2>5 DEF ChordEnded
<1>6. ASSUME NEW c \in Clients, RemoveClient(c)
      PROVE  (\A d \in Clients : Truthful(d)') /\ ChordEnded'
  <2>1. /\ attached' = [attached EXCEPT ![c] = FALSE] /\ wire' = [wire EXCEPT ![c] = <<>>]
        /\ UNCHANGED <<held, focused, hadMods, pressed, last>>
    BY <1>6 DEF RemoveClient, server
  <2>2. wire'[c] = <<>> /\ ~attached'[c]  BY <1>0, <2>1 DEF TypeOK
  <2>3. \A d \in Clients \ {c} :
          attached'[d] = attached[d] /\ wire'[d] = wire[d] /\ Wanted(d)' = Wanted(d)
    BY <1>0, <2>1 DEF TypeOK, Wanted
  <2>4. \A d \in Clients \ {c} : Truthful(d)'  BY <2>1, <2>3, LeftAlone
  <2>5. Truthful(c)'  BY <2>2, NothingSent
  <2> QED BY <2>1, <2>4, <2>5 DEF ChordEnded
<1>7. ASSUME NEW c \in Clients, HandleKey(c)
      PROVE  (\A d \in Clients : Truthful(d)') /\ ChordEnded'
  <2> DEFINE e == Head(wire[c])
  <2>1. /\ wire[c] # <<>> /\ e # Reset /\ wire' = [wire EXCEPT ![c] = Tail(@)]
        /\ hadMods' = e.mods /\ last' = c
        /\ pressed' = [pressed EXCEPT ![c] = IF e.down THEN @ \cup ({e.code} \cap Modifiers)
                                              ELSE @ \ {e.code}]
        /\ UNCHANGED <<held, focused, attached>>
    BY <1>7 DEF HandleKey, Inject, user
  <2>2. wire[c] \in Seq(Message) /\ e = wire[c][1] /\ e \in Message /\ 1 \in 1..Len(wire[c])
    BY <2>1 DEF TypeOK
  <2> HIDE DEF e
  <2>3. \A d \in Clients : Wanted(d)' = Wanted(d)  BY <2>1 DEF Wanted
  <2>4. /\ pressed'[c] = IF e.down THEN pressed[c] \cup ({e.code} \cap Modifiers)
                         ELSE pressed[c] \ {e.code}
        /\ \A d \in Clients \ {c} : pressed'[d] = pressed[d] /\ wire'[d] = wire[d]
    BY <1>0, <2>1 DEF TypeOK
  <2>5. \A d \in Clients \ {c} : Truthful(d)'  BY <2>1, <2>3, <2>4, LeftAlone
  <2>6. \A m \in Modifiers : m \in pressed'[c] =>
          (m \in pressed[c] \/ e \in PutsDown(m)) /\ e \notin TakesUp(m)
    <3>1. e.down \in BOOLEAN  BY <2>1, <2>2, MessageIsEvent
    <3>2. \A m \in Modifiers : /\ e \in TakesUp(m) <=> (~e.down /\ e.code = m)
                               /\ e \in PutsDown(m) <=> (e.down /\ e.code = m)
      BY <2>1, <2>2, EventCounts
    <3> QED BY <2>4, <3>1, <3>2
  <2>7. Truthful(c)'  BY <2>1, <2>3, <2>6, Handled DEF e
  <2>8. ChordEnded'
    <3> SUFFICES ASSUME ~e.mods PROVE pressed'[c] = {}
      BY <2>1 DEF ChordEnded
    <3>1. /\ \A m \in Modifiers :
               Covered(wire[c], 1, PutsDown(m), TakesUp(m), m \in pressed[c], FALSE)
          /\ ~(e.down /\ e.code \in Modifiers)
      BY <2>1, <2>2 DEF Truthful, EndsChord, Heeded
    <3>2. \A m \in Modifiers : m \in pressed[c] => e \in TakesUp(m)
      BY <2>2, <3>1 DEF Covered
    <3>3. \A m \in Modifiers : e \notin PutsDown(m)
      BY <2>2, <3>1, EventCounts
    <3>4. pressed'[c] \subseteq Modifiers  BY <1>0, <2>4
    <3> QED BY <2>6, <3>2, <3>3, <3>4
  <2> QED BY <2>5, <2>7, <2>8
<1>8. ASSUME NEW c \in Clients, HandleReset(c)
      PROVE  (\A d \in Clients : Truthful(d)') /\ ChordEnded'
  <2>1. /\ wire[c] # <<>> /\ wire' = [wire EXCEPT ![c] = Tail(@)]
        /\ pressed' = [d \in Clients |-> {}] /\ UNCHANGED <<held, focused, attached, last>>
    BY <1>8 DEF HandleReset, ResetModifiers, user
  <2>2. \A d \in Clients : pressed'[d] = {} /\ Wanted(d)' = Wanted(d)  BY <2>1 DEF Wanted
  <2>3. \A d \in Clients \ {c} : wire'[d] = wire[d]  BY <2>1 DEF TypeOK
  <2>4. \A d \in Clients \ {c} : Truthful(d)'  BY <2>1, <2>2, <2>3, LeftAlone
  <2>5. Truthful(c)'  BY <2>1, <2>2, Handled
  <2> QED BY <2>2, <2>4, <2>5 DEF ChordEnded
<1>9. CASE TenSeconds
  <2>1. UNCHANGED <<held, focused, attached, wire, hadMods, pressed, last>>
    BY <1>9 DEF TenSeconds, user
  <2>2. \A d \in Clients : Wanted(d)' = Wanted(d)  BY <2>1 DEF Wanted
  <2> QED BY <2>1, <2>2, LeftAlone DEF ChordEnded
<1>10. CASE PeriodicReset
  <2>1. /\ pressed' = [d \in Clients |-> {}]
        /\ UNCHANGED <<held, focused, attached, wire, hadMods, last>>
    BY <1>10 DEF PeriodicReset, ResetModifiers, user
  <2>2. \A d \in Clients : pressed'[d] = {} /\ Wanted(d)' = Wanted(d)  BY <2>1 DEF Wanted
  <2> QED BY <2>1, <2>2, LeftAlone DEF ChordEnded
<1>11. CASE UNCHANGED vars
  <2>1. UNCHANGED <<held, focused, attached, wire, hadMods, pressed, last>>
    BY <1>11 DEF vars
  <2>2. \A d \in Clients : Wanted(d)' = Wanted(d)  BY <2>1 DEF Wanted
  <2> QED BY <2>1, <2>2, LeftAlone DEF ChordEnded
<1> QED BY <1>1, <1>2, <1>3, <1>4, <1>5, <1>6, <1>7, <1>8, <1>9, <1>10, <1>11 DEF Next

LEMMA TruthfulAtFirst ==
  ASSUME Init
  PROVE  (\A c \in Clients : Truthful(c)) /\ ChordEnded
<1>1. \A c \in Clients : wire[c] = <<>> /\ Len(wire[c]) = 0 /\ ~attached[c] /\ pressed[c] = {}
  BY DEF Init
<1> QED BY <1>1 DEF Truthful, ChordEnded

LEMMA NoneIsPhantom ==
  ASSUME TypeOK, \A c \in Clients : Truthful(c)
  PROVE  NoPhantoms
<1> SUFFICES ASSUME Drained, NEW m \in down \cap Modifiers
             PROVE  \E c \in Clients : m \in Wanted(c) \/ (~attached[c] /\ m \in pressed[c])
  BY DEF NoPhantoms
<1>1. PICK c \in Clients : m \in pressed[c]  BY DEF TypeOK
<1>2. Len(wire[c]) = 0  BY DEF Drained
<1>3. attached[c] => m \in Wanted(c)  BY <1>1, <1>2 DEF Truthful, Heeded, Covered
<1> QED BY <1>1, <1>3

(* However many clients press, release and lose the focus or the connection,
   a modifier stays down only where its user holds it or has lost the
   connection (focusOutEvent, SessionRuntime.add_client, reset_modifiers). *)
THEOREM NoPhantomsEver == Spec => []NoPhantoms
<1> DEFINE Inv == TypeOK /\ (\A c \in Clients : Truthful(c)) /\ ChordEnded
<1>1. Init => Inv  BY TypeAtFirst, TruthfulAtFirst
<1>2. Inv /\ [Next]_vars => Inv'  BY TypeStep, TruthfulStep
<1>3. Inv => NoPhantoms  BY NoneIsPhantom
<1> QED BY <1>1, <1>2, <1>3, PTL DEF Spec

(* When the safety net fires, the client that typed last has no modifier down
   (_should_fire_periodic_reset). *)
THEOREM NoChordIsRipped == Spec => ChordsSurvive
<1> DEFINE Inv == TypeOK /\ (\A c \in Clients : Truthful(c)) /\ ChordEnded
<1>1. Init => Inv  BY TypeAtFirst, TruthfulAtFirst
<1>2. Inv /\ [Next]_vars => Inv'  BY TypeStep, TruthfulStep
<1>3. Inv /\ [Next]_vars => [PeriodicReset /\ last \in Clients => pressed[last] = {}]_vars
  BY DEF PeriodicReset, ShouldFire, ChordEnded
<1> QED BY <1>1, <1>2, <1>3, PTL DEF Spec, ChordsSurvive
=============================================================================
