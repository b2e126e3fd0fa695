------------------------- MODULE ClientParts_proofs -------------------------
(***************************************************************************)
(* Proofs about the parts of ClientParts.  For all clients, buttons and    *)
(* tools: nothing stays down on the desktop that nobody holds.  For all    *)
(* clients, ids and numbers of changes and failures: a bookmark stays in   *)
(* the file until its user deletes it, as long as one client runs at a     *)
(* time and could load all of the file.  For all desktops and widgets: the *)
(* pointer is put on what is seen under it.                                *)
(***************************************************************************)
EXTENDS ClientParts, SequenceTheorems, FiniteSetTheorems, WellFoundedInduction, TLAPS

-----------------------------------------------------------------------------
(* Messages that put a thing down and messages that take it up: everything    *)
(* that is down, or will be by one of the first n messages of s, is either    *)
(* wanted or taken up again by a later one of these.                          *)

Covered(s, n, puts, offs, is, want) ==
  /\ is => want \/ \E i \in 1..n : s[i] \in offs
  /\ \A k \in 1..n : s[k] \in puts => want \/ \E i \in (k + 1)..n : s[i] \in offs

LEMMA CoveredMore ==
  ASSUME NEW M, NEW s \in Seq(M), NEW puts, NEW offs, NEW is, NEW want, NEW now,
         NEW e \in M,
         Covered(s, Len(s), puts, offs, is, want),
         want => now \/ e \in offs,
         e \in puts => now
  PROVE  Covered(Append(s, e), Len(s) + 1, puts, offs, is, now)
<1> DEFINE r == Append(s, e)
           n == Len(s)
<1>1. n \in Nat /\ r[n + 1] = e /\ \A i \in 1..n : r[i] = s[i]  OBVIOUS
<1> HIDE DEF r, n
<1>2. Covered(s, n, puts, offs, is, want)  BY DEF n
<1>3. is => now \/ \E i \in 1..(n + 1) : r[i] \in offs
  BY <1>1, <1>2 DEF Covered
<1>4. ASSUME NEW k \in 1..(n + 1), r[k] \in puts
      PROVE  now \/ \E i \in (k + 1)..(n + 1) : r[i] \in offs
  <2>1. CASE k = n + 1  BY <1>1, <1>4, <2>1
  <2>2. CASE k # n + 1
    <3>1. k \in 1..n /\ s[k] \in puts  BY <1>1, <1>4, <2>2
    <3>2. want \/ \E i \in (k + 1)..n : s[i] \in offs  BY <1>2, <3>1 DEF Covered
    <3>3. \A i \in (k + 1)..n : i \in (k + 1)..(n + 1) /\ r[i] = s[i]
      BY <1>1, <3>1
    <3>4. want => now \/ (n + 1 \in (k + 1)..(n + 1) /\ r[n + 1] \in offs)
      BY <1>1, <3>1
    <3> QED BY <3>2, <3>3, <3>4
  <2> QED BY <2>1, <2>2
<1> QED BY <1>3, <1>4 DEF Covered, r, n

LEMMA CoveredHandled ==
  ASSUME NEW M, NEW s \in Seq(M), s # <<>>, NEW n \in 1..Len(s),
         NEW puts, NEW offs, NEW is, NEW want, NEW now,
         Covered(s, n, puts, offs, is, want),
         now => (is \/ Head(s) \in puts) /\ Head(s) \notin offs
  PROVE  Covered(Tail(s), n - 1, puts, offs, now, want)
<1> DEFINE t == Tail(s)
<1>1. /\ Head(s) = s[1] /\ n \in Nat /\ n >= 1
      /\ \A i \in 1..(n - 1) : t[i] = s[i + 1]
  OBVIOUS
<1> HIDE DEF t
<1>2. ASSUME NEW i \in 2..n PROVE i - 1 \in 1..(n - 1) /\ t[i - 1] = s[i]
  <2>1. i - 1 \in 1..(n - 1) /\ (i - 1) + 1 = i  BY <1>1
  <2> QED BY <1>1, <2>1
<1>3. ASSUME now PROVE want \/ \E i \in 1..(n - 1) : t[i] \in offs
  <2>1. want \/ \E i \in 2..n : s[i] \in offs
    <3>1. CASE is
      <4>1. want \/ \E i \in 1..n : s[i] \in offs  BY <3>1 DEF Covered
      <4>2. s[1] \notin offs  BY <1>1, <1>3
      <4>3. \A i \in 1..n : i = 1 \/ i \in 2..n  BY <1>1
      <4> QED BY <4>1, <4>2, <4>3
    <3>2. CASE Head(s) \in puts
      <4>1. 1 \in 1..n /\ s[1] \in puts  BY <1>1, <3>2
      <4>2. want \/ \E i \in (1 + 1)..n : s[i] \in offs  BY <4>1 DEF Covered
      <4> QED BY <4>2
    <3> QED BY <1>3, <3>1, <3>2
  <2> QED BY <1>2, <2>1
<1>4. ASSUME NEW k \in 1..(n - 1), t[k] \in puts
      PROVE  want \/ \E i \in (k + 1)..(n - 1) : t[i] \in offs
  <2>1. k + 1 \in 1..n /\ s[k + 1] \in puts  BY <1>1, <1>4
  <2>2. want \/ \E i \in (k + 1 + 1)..n : s[i] \in offs  BY <2>1 DEF Covered
  <2>3. ASSUME NEW i \in (k + 1 + 1)..n
        PROVE  i - 1 \in (k + 1)..(n - 1) /\ t[i - 1] = s[i]
    <3>1. i \in 2..n /\ i - 1 \in (k + 1)..(n - 1)  BY <1>1
    <3> QED BY <1>2, <3>1
  <2> QED BY <2>2, <2>3
<1> QED BY <1>3, <1>4 DEF Covered, t

-----------------------------------------------------------------------------
(* Mouse and pen.                                                          *)

\* The messages that put down, and take up, a button, the tip or the barrel.
PutsDown(x) ==
  {m \in Message : \/ m.is = "mouse" /\ m.button = x /\ m.down
                   \/ m.is = "pen" /\ ((x = Tip /\ m.pressed) \/ (x = Barrel /\ m.barrel))}
TakesUp(x) ==
  {m \in Message : \/ m.is = "mouse" /\ m.button = x /\ ~m.down
                   \/ m.is = "pen" /\ ((x = Tip /\ ~m.pressed) \/ (x = Barrel /\ ~m.barrel))}

\* What the viewer has reported as pressed: a control-click as the left button
\* only, which Wanted also counts as the right one.
Meant(c) ==
  (IF swapped[c] THEN (mouse[c] \ {Right}) \cup {Left} ELSE mouse[c])
    \cup pen[c] \cup (IF pen[c] # {} THEN {Tip} ELSE {})

PointerShape ==
  /\ attached \in [Clients -> BOOLEAN]
  /\ mouse \in [Clients -> SUBSET Buttons]
  /\ swapped \in [Clients -> BOOLEAN]
  /\ pen \in [Clients -> SUBSET {Tip, Barrel}]
  /\ penActive \in [Clients -> BOOLEAN]
  /\ wire \in [Clients -> Seq(Message)]
  /\ from \in [Clients -> SUBSET Desktop]

\* The mouse rests while the pen is in use, and a swapped click is held.
KeptApart(c) ==
  c \notin mixed => (penActive[c] => mouse[c] = {}) /\ (swapped[c] => Right \in mouse[c])

Followed(c) ==
  c \notin mixed =>
    \A x \in Desktop :
      Covered(wire[c], Len(wire[c]), PutsDown(x), TakesUp(x), x \in from[c], x \in Meant(c))

(* What NothingStuck needs: everything down, or on its way to be put down, is
   meant by the user or taken up by a message behind it. *)
Reported ==
  /\ PointerShape
  /\ \A c \in Clients : KeptApart(c) /\ Followed(c)
  /\ \A c \in Clients : ~attached[c] => wire[c] = <<>> /\ from[c] = {}

LEMMA ButtonMessage ==
  ASSUME NEW b \in Buttons, NEW d \in BOOLEAN, NEW x \in Desktop
  PROVE  /\ MouseButton(b, d) \in Message
         /\ MouseButton(b, d) \in PutsDown(x) <=> x = b /\ d
         /\ MouseButton(b, d) \in TakesUp(x) <=> x = b /\ ~d
BY DEF MouseButton, Message, PutsDown, TakesUp

LEMMA PenMessage ==
  ASSUME NEW p \in BOOLEAN, NEW b \in BOOLEAN, NEW e \in Tools, NEW x \in Desktop
  PROVE  /\ PenEvent(p, b, e) \in Message
         /\ PenEvent(p, b, e) \in PutsDown(x) <=> (x = Tip /\ p) \/ (x = Barrel /\ b)
         /\ PenEvent(p, b, e) \in TakesUp(x) <=> (x = Tip /\ ~p) \/ (x = Barrel /\ ~b)
BY DEF PenEvent, Message, PutsDown, TakesUp

LEMMA ProximityMessage ==
  ASSUME NEW x \in Desktop
  PROVE  Proximity \in Message /\ Proximity \notin PutsDown(x) /\ Proximity \notin TakesUp(x)
BY DEF Proximity, Message, PutsDown, TakesUp

(* A message is sent by one client, and only while it is attached. *)
LEMMA SentByOne ==
  ASSUME Reported, NEW c \in Clients, NEW m \in Message, Send(c, m)
  PROVE  /\ wire' \in [Clients -> Seq(Message)]
         /\ \A d \in Clients \ {c} : wire'[d] = wire[d]
         /\ ~attached[c] => wire'[c] = <<>>
<1>1. wire \in [Clients -> Seq(Message)] /\ (~attached[c] => wire[c] = <<>>)
  BY DEF Reported, PointerShape
<1>2. CASE attached[c]
  <2>1. Append(wire[c], m) \in Seq(Message)  BY <1>1
  <2>2. wire' = [wire EXCEPT ![c] = Append(wire[c], m)]  BY <1>2 DEF Send
  <2> QED BY <1>1, <1>2, <2>1, <2>2
<1>3. CASE ~attached[c]  BY <1>1, <1>3 DEF Send
<1> QED BY <1>2, <1>3

(* What c's viewer sends covers what it has reported before. *)
LEMMA Sent ==
  ASSUME Reported, NEW c \in Clients, NEW m \in Message, Send(c, m),
         c \notin mixed, from' = from,
         \A x \in Desktop : /\ x \in Meant(c) => x \in Meant(c)' \/ m \in TakesUp(x)
                            /\ m \in PutsDown(x) => x \in Meant(c)'
  PROVE  Followed(c)'
<1> USE DEF Reported, PointerShape
<1>1. CASE attached[c]
  <2> DEFINE s == wire[c]
  <2>1. wire' = [wire EXCEPT ![c] = Append(s, m)] /\ s \in Seq(Message)  BY <1>1 DEF Send
  <2>2. wire'[c] = Append(s, m) /\ Len(wire'[c]) = Len(s) + 1  BY <2>1
  <2>3. ASSUME NEW x \in Desktop
        PROVE  Covered(Append(s, m), Len(s) + 1, PutsDown(x), TakesUp(x),
                       x \in from[c], x \in Meant(c)')
    <3>1. Covered(s, Len(s), PutsDown(x), TakesUp(x), x \in from[c], x \in Meant(c))
      BY DEF Followed
    <3> HIDE DEF s, Reported, PointerShape
    <3> QED BY <2>1, <3>1, CoveredMore
  <2> HIDE DEF s, Reported, PointerShape
  <2> QED BY <2>2, <2>3 DEF Followed, PutsDown, TakesUp
<1>2. CASE ~attached[c]
  <2>1. wire' = wire /\ wire[c] = <<>> /\ from[c] = {}  BY <1>2 DEF Send
  <2>2. Len(wire'[c]) = 0 /\ wire'[c] = <<>>  BY <2>1
  <2>3. \A x \in Desktop : Covered(wire'[c], Len(wire'[c]), PutsDown(x), TakesUp(x),
                                   x \in from'[c], (x \in Meant(c))')
    BY <2>1, <2>2 DEF Covered
  <2> HIDE DEF Reported, PointerShape
  <2> QED BY <2>3 DEF Followed, PutsDown, TakesUp
<1> QED BY <1>1, <1>2

(* What c's viewer means only grows. *)
LEMMA MeansMore ==
  ASSUME Reported, NEW c \in Clients, c \notin mixed,
         wire'[c] = wire[c], from'[c] \subseteq from[c],
         \A x \in Desktop : x \in Meant(c) => x \in Meant(c)'
  PROVE  Followed(c)'
<1>1. \A x \in Desktop : Covered(wire[c], Len(wire[c]), PutsDown(x), TakesUp(x),
                                 x \in from[c], x \in Meant(c))
  BY DEF Reported, Followed
<1>2. \A x \in Desktop : Covered(wire'[c], Len(wire'[c]), PutsDown(x), TakesUp(x),
                                 x \in from'[c], (x \in Meant(c))')
  BY <1>1 DEF Covered
<1> QED BY <1>2 DEF Followed, PutsDown, TakesUp

(* A client is left alone but for what the desktop has of it. *)
LEMMA LeftAlone ==
  ASSUME Reported, NEW c \in Clients, (c \in mixed) = (c \in mixed'),
         mouse'[c] = mouse[c], swapped'[c] = swapped[c], pen'[c] = pen[c],
         penActive'[c] = penActive[c], wire'[c] = wire[c], from'[c] \subseteq from[c]
  PROVE  KeptApart(c)' /\ Followed(c)'
<1>1. KeptApart(c)'  BY Zenon DEF Reported, KeptApart
<1>2. CASE c \in mixed
  <2>1. c \in mixed'  BY <1>2
  <2> QED BY <1>1, <2>1 DEF Followed
<1>3. CASE c \notin mixed
  <2>1. \A x \in Desktop : x \in Meant(c) => x \in Meant(c)'  BY DEF Meant
  <2> QED BY <1>1, <1>3, <2>1, MeansMore
<1> QED BY <1>2, <1>3

LEMMA ReportedStep ==
  ASSUME Reported, [Next]_vars
  PROVE  Reported'
<1>0. /\ PointerShape
      /\ \A c \in Clients : KeptApart(c) /\ Followed(c)
      /\ \A c \in Clients : ~attached[c] => wire[c] = <<>> /\ from[c] = {}
  BY DEF Reported
<1>1. ASSUME NEW c \in Clients, NEW b \in Buttons, MousePress(c, b) PROVE Reported'
  <2>1. /\ b \notin mouse[c] /\ mouse' = [mouse EXCEPT ![c] = @ \cup {b}]
        /\ UNCHANGED <<attached, pen, penActive, from>>
        /\ mixed' = IF penActive[c] THEN mixed \cup {c} ELSE mixed
    BY <1>1 DEF MousePress, server
  <2>2. CASE penActive[c]
    <3>1. UNCHANGED <<swapped, wire>> /\ c \in mixed'  BY <1>1, <2>1, <2>2 DEF MousePress
    <3>2. PointerShape'  BY <1>0, <2>1, <3>1 DEF PointerShape
    <3>3. KeptApart(c)' /\ Followed(c)'  BY <3>1 DEF KeptApart, Followed
    <3>4. ASSUME NEW d \in Clients \ {c} PROVE KeptApart(d)' /\ Followed(d)'
      <4>1. mouse'[d] = mouse[d] /\ (d \in mixed) = (d \in mixed')
        BY <1>0, <2>1, <2>2 DEF PointerShape
      <4> QED BY <2>1, <3>1, <4>1, LeftAlone
    <3> QED BY <1>0, <2>1, <3>1, <3>2, <3>3, <3>4 DEF Reported
  <2>3. ASSUME ~penActive[c], NEW m \in Message, Send(c, m),
               swapped' \in [Clients -> BOOLEAN],
               \A d \in Clients \ {c} : swapped'[d] = swapped[d],
               swapped'[c] = swapped[c] \/ (swapped'[c] /\ b = Right),
               c \notin mixed =>
                 \A x \in Desktop : /\ x \in Meant(c) => x \in Meant(c)'
                                    /\ m \in PutsDown(x) => x \in Meant(c)'
        PROVE  Reported'
    <3>1. mixed' = mixed  BY <2>1, <2>3
    <3>2. /\ wire' \in [Clients -> Seq(Message)]
          /\ \A d \in Clients \ {c} : wire'[d] = wire[d]
          /\ ~attached[c] => wire'[c] = <<>>
      BY <2>3, SentByOne
    <3>3. PointerShape'  BY <1>0, <2>1, <2>3, <3>2 DEF PointerShape
    <3>4. KeptApart(c)'  BY <1>0, <2>1, <2>3, <3>1 DEF KeptApart, PointerShape
    <3>5. Followed(c)'
      <4>1. CASE c \in mixed  BY <3>1, <4>1 DEF Followed
      <4>2. CASE c \notin mixed  BY <2>1, <2>3, <4>2, Sent
      <4> QED BY <4>1, <4>2
    <3>6. \A d \in Clients \ {c} : KeptApart(d)' /\ Followed(d)'
      BY <1>0, <2>1, <2>3, <3>1, <3>2, LeftAlone DEF PointerShape
    <3>7. \A d \in Clients : ~attached'[d] => wire'[d] = <<>> /\ from'[d] = {}
      BY <1>0, <2>1, <3>2
    <3> QED BY <3>3, <3>4, <3>5, <3>6, <3>7 DEF Reported
  <2>4. CASE ~penActive[c] /\ Send(c, MouseButton(b, TRUE)) /\ UNCHANGED swapped
    <3>1. MouseButton(b, TRUE) \in Message
      BY ButtonMessage DEF Desktop
    <3>2. ASSUME c \notin mixed, NEW x \in Desktop
          PROVE  /\ x \in Meant(c) => x \in Meant(c)'
                 /\ MouseButton(b, TRUE) \in PutsDown(x) => x \in Meant(c)'
      <4>1. mouse'[c] = mouse[c] \cup {b} /\ pen'[c] = pen[c] /\ swapped'[c] = swapped[c]
        BY <1>0, <2>1, <2>4 DEF PointerShape
      <4>2. swapped[c] => b # Right  BY <1>0, <2>1, <3>2 DEF KeptApart
      <4>3. x \in Meant(c) => x \in Meant(c)'  BY <4>1 DEF Meant
      <4>4. b \in Meant(c)'  BY <4>1, <4>2 DEF Meant
      <4> QED BY <4>3, <4>4, ButtonMessage
    <3>3. swapped' \in [Clients -> BOOLEAN]  BY <1>0, <2>4 DEF PointerShape
    <3> QED BY <2>3, <2>4, <3>1, <3>2, <3>3
  <2>5. CASE /\ ~penActive[c] /\ b = Right
             /\ Send(c, MouseButton(Left, TRUE)) /\ swapped' = [swapped EXCEPT ![c] = TRUE]
    <3>1. MouseButton(Left, TRUE) \in Message
      BY ButtonsAssumption, ButtonMessage DEF Desktop
    <3>2. ASSUME c \notin mixed, NEW x \in Desktop
          PROVE  /\ x \in Meant(c) => x \in Meant(c)'
                 /\ MouseButton(Left, TRUE) \in PutsDown(x) => x \in Meant(c)'
      <4>1. mouse'[c] = mouse[c] \cup {b} /\ pen'[c] = pen[c] /\ swapped'[c]
        BY <1>0, <2>1, <2>5 DEF PointerShape
      <4>2. Right \notin mouse[c] /\ ~swapped[c]  BY <1>0, <2>1, <2>5, <3>2 DEF KeptApart
      <4>3. x \in Meant(c) => x \in Meant(c)'  BY <2>5, <4>1, <4>2 DEF Meant
      <4>4. Left \in Meant(c)'  BY <4>1 DEF Meant
      <4> QED BY <4>3, <4>4, ButtonMessage, ButtonsAssumption
    <3>3. /\ swapped' \in [Clients -> BOOLEAN] /\ swapped'[c]
          /\ \A d \in Clients \ {c} : swapped'[d] = swapped[d]
      BY <1>0, <2>5 DEF PointerShape
    <3> QED BY <2>3, <2>5, <3>1, <3>2, <3>3
  <2> QED BY <1>1, <2>2, <2>4, <2>5 DEF MousePress
<1>2. ASSUME NEW c \in Clients, NEW b \in Buttons, MouseRelease(c, b) PROVE Reported'
  <2> DEFINE back == swapped[c] /\ b = Right
             m == MouseButton(IF back THEN Left ELSE b, FALSE)
  <2>1. /\ b \in mouse[c] /\ mouse' = [mouse EXCEPT ![c] = @ \ {b}]
        /\ UNCHANGED <<attached, pen, penActive, from, mixed>>
    BY <1>2 DEF MouseRelease, server
  <2>2. CASE penActive[c]
    <3>1. UNCHANGED <<swapped, wire>>  BY <1>2, <2>2 DEF MouseRelease
    <3>2. c \in mixed'  BY <1>0, <2>1, <2>2 DEF KeptApart
    <3>3. PointerShape'  BY <1>0, <2>1, <3>1 DEF PointerShape
    <3>4. KeptApart(c)' /\ Followed(c)'  BY <3>2 DEF KeptApart, Followed
    <3>5. \A d \in Clients \ {c} : KeptApart(d)' /\ Followed(d)'
      BY <1>0, <2>1, <3>1, LeftAlone DEF PointerShape
    <3> QED BY <1>0, <2>1, <3>1, <3>3, <3>4, <3>5 DEF Reported
  <2>3. CASE ~penActive[c]
    <3>1. Send(c, m) /\ swapped' = [swapped EXCEPT ![c] = @ /\ ~back]
      BY <1>2, <2>3 DEF MouseRelease
    <3>2. m \in Message  BY ButtonsAssumption, ButtonMessage DEF Desktop
    <3>3. /\ mouse'[c] = mouse[c] \ {b} /\ pen'[c] = pen[c]
          /\ swapped'[c] = (swapped[c] /\ ~back)
      BY <1>0, <2>1, <3>1 DEF PointerShape
    <3>4. KeptApart(c)'  BY <1>0, <2>1, <2>3, <3>3 DEF KeptApart
    <3>5. ASSUME c \notin mixed, NEW x \in Desktop
          PROVE  /\ x \in Meant(c) => x \in Meant(c)' \/ m \in TakesUp(x)
                 /\ m \notin PutsDown(x)
      <4>1. m \notin PutsDown(x) /\ (m \in TakesUp(x) <=> x = IF back THEN Left ELSE b)
        BY ButtonsAssumption, ButtonMessage
      <4>2. x \in Meant(c) => x \in Meant(c)' \/ x = (IF back THEN Left ELSE b)
        BY <3>3 DEF Meant
      <4> QED BY <4>1, <4>2
    <3> HIDE DEF m
    <3>6. /\ wire' \in [Clients -> Seq(Message)]
          /\ \A d \in Clients \ {c} : wire'[d] = wire[d]
          /\ ~attached[c] => wire'[c] = <<>>
      BY <3>1, <3>2, SentByOne
    <3>7. PointerShape'  BY <1>0, <2>1, <3>1, <3>6 DEF PointerShape
    <3>8. Followed(c)'
      <4>1. CASE c \in mixed  BY <2>1, <4>1 DEF Followed
      <4>2. CASE c \notin mixed  BY <2>1, <3>1, <3>2, <3>5, <4>2, Sent
      <4> QED BY <4>1, <4>2
    <3>9. \A d \in Clients \ {c} : KeptApart(d)' /\ Followed(d)'
      BY <1>0, <2>1, <3>1, <3>6, LeftAlone DEF PointerShape
    <3>10. \A d \in Clients : ~attached'[d] => wire'[d] = <<>> /\ from'[d] = {}
      BY <1>0, <2>1, <3>6
    <3> QED BY <3>4, <3>7, <3>8, <3>9, <3>10 DEF Reported
  <2> QED BY <1>0, <2>2, <2>3 DEF PointerShape
<1>3. ASSUME NEW c \in Clients, NEW kind, NEW now \in SUBSET {Tip, Barrel}, NEW end \in Tools,
             TabletEvent(c, kind, now, end), kind = "press" => now # {}
      PROVE  Reported'
  <2> DEFINE tip == kind = "press" \/ (kind # "release" /\ Tip \in now)
             barrel == kind \notin {"press", "release"} /\ Barrel \in now
             m == PenEvent(tip, barrel, end)
  <2>1. /\ pen' = [pen EXCEPT ![c] = now]
        /\ penActive' = [penActive EXCEPT ![c] = kind # "release"]
        /\ Send(c, m)
        /\ mixed' = IF mouse[c] # {} THEN mixed \cup {c} ELSE mixed
        /\ UNCHANGED <<attached, mouse, swapped, from>>
    BY <1>3 DEF TabletEvent, server
  <2>2. tip \in BOOLEAN /\ barrel \in BOOLEAN  OBVIOUS
  <2>3. m \in Message  BY <2>2, PenMessage DEF Desktop
  <2>4. mouse'[c] = mouse[c] /\ pen'[c] = now /\ swapped'[c] = swapped[c]
    BY <1>0, <2>1 DEF PointerShape
  <2>5. KeptApart(c)'  BY <1>0, <2>1, <2>4 DEF KeptApart
  <2>6. ASSUME NEW x \in Desktop
        PROVE  /\ x \in Meant(c) => x \in Meant(c)' \/ m \in TakesUp(x)
               /\ m \in PutsDown(x) => x \in Meant(c)'
    <3>1. m \in PutsDown(x) <=> (x = Tip /\ tip) \/ (x = Barrel /\ barrel)
      BY <2>2, PenMessage
    <3>2. m \in TakesUp(x) <=> (x = Tip /\ ~tip) \/ (x = Barrel /\ ~barrel)
      BY <2>2, PenMessage
    <3>3. (tip => Tip \in Meant(c)') /\ (barrel => Barrel \in Meant(c)')
      BY <1>3, <2>4 DEF Meant
    <3>4. x \in Meant(c) => x \in Meant(c)' \/ x = Tip \/ x = Barrel
      <4>1. pen[c] \subseteq {Tip, Barrel}  BY <1>0 DEF PointerShape
      <4> QED BY <2>4, <4>1 DEF Meant
    <3> QED BY <3>1, <3>2, <3>3, <3>4
  <2> HIDE DEF m
  <2>7. /\ wire' \in [Clients -> Seq(Message)]
        /\ \A d \in Clients \ {c} : wire'[d] = wire[d]
        /\ ~attached[c] => wire'[c] = <<>>
    BY <2>1, <2>3, SentByOne
  <2>8. PointerShape'  BY <1>0, <1>3, <2>1, <2>7 DEF PointerShape
  <2>9. Followed(c)'
    <3>1. CASE c \in mixed'  BY <3>1 DEF Followed
    <3>2. CASE c \notin mixed'
      <4>1. c \notin mixed  BY <2>1, <3>2
      <4> QED BY <2>1, <2>3, <2>6, <4>1, Sent
    <3> QED BY <3>1, <3>2
  <2>10. \A d \in Clients \ {c} : KeptApart(d)' /\ Followed(d)'
    BY <1>0, <2>1, <2>7, LeftAlone DEF PointerShape
  <2>11. \A d \in Clients : ~attached'[d] => wire'[d] = <<>> /\ from'[d] = {}
    BY <1>0, <2>1, <2>7
  <2> QED BY <2>5, <2>8, <2>9, <2>10, <2>11 DEF Reported
<1>4. ASSUME NEW c \in Clients, NEW e \in Tools,
             PenPress(c, e) \/ PenRelease(c, e) \/ PenMove(c, e) \/ PenLeave(c, e)
      PROVE  Reported'
  <2>1. pen[c] \subseteq {Tip, Barrel}  BY <1>0 DEF PointerShape
  <2>2. CASE PenPress(c, e)
    <3>1. PICK p \in {Tip, Barrel} \ pen[c] : TabletEvent(c, "press", pen[c] \cup {p}, e)
      BY <2>2 DEF PenPress
    <3>2. pen[c] \cup {p} \in SUBSET {Tip, Barrel} /\ pen[c] \cup {p} # {}  BY <2>1
    <3> QED BY <1>3, <3>1, <3>2
  <2>3. CASE PenRelease(c, e)
    <3>1. PICK p \in pen[c] : TabletEvent(c, "release", pen[c] \ {p}, e)
      BY <2>3 DEF PenRelease
    <3>2. pen[c] \ {p} \in SUBSET {Tip, Barrel}  BY <2>1
    <3> QED BY <1>3, <3>1, <3>2
  <2>4. CASE PenMove(c, e)
    <3>1. TabletEvent(c, "move", pen[c], e)  BY <2>4 DEF PenMove
    <3> QED BY <1>3, <2>1, <3>1
  <2>5. CASE PenLeave(c, e)
    <3>1. TabletEvent(c, "leave", {}, e)  BY <2>5 DEF PenLeave
    <3> QED BY <1>3, <3>1
  <2> QED BY <1>4, <2>2, <2>3, <2>4, <2>5
<1>5. ASSUME NEW c \in Clients, Resynthesize(c) PROVE Reported'
  <2>1. Send(c, Proximity) /\ UNCHANGED <<attached, mouse, swapped, pen, penActive, mixed, from>>
    BY <1>5 DEF Resynthesize, viewer, server
  <2>2. Proximity \in Message  BY ProximityMessage DEF Desktop
  <2>3. /\ wire' \in [Clients -> Seq(Message)]
        /\ \A d \in Clients \ {c} : wire'[d] = wire[d]
        /\ ~attached[c] => wire'[c] = <<>>
    BY <2>1, <2>2, SentByOne
  <2>4. PointerShape'  BY <1>0, <2>1, <2>3 DEF PointerShape
  <2>5. KeptApart(c)'  BY <1>0, <2>1 DEF KeptApart
  <2>6. Followed(c)'
    <3>1. CASE c \in mixed  BY <2>1, <3>1 DEF Followed
    <3>2. CASE c \notin mixed
      <4>1. \A x \in Desktop : x \in Meant(c) => x \in Meant(c)'  BY <2>1 DEF Meant
      <4> QED BY <2>1, <2>2, <3>2, <4>1, ProximityMessage, Sent
    <3> QED BY <3>1, <3>2
  <2>7. \A d \in Clients \ {c} : KeptApart(d)' /\ Followed(d)'
    BY <1>0, <2>1, <2>3, LeftAlone DEF PointerShape
  <2>8. \A d \in Clients : ~attached'[d] => wire'[d] = <<>> /\ from'[d] = {}
    BY <1>0, <2>1, <2>3
  <2> QED BY <2>4, <2>5, <2>6, <2>7, <2>8 DEF Reported
<1>6. ASSUME NEW c \in Clients, Connect(c) PROVE Reported'
  <2>1. /\ attached' = [attached EXCEPT ![c] = TRUE]
        /\ UNCHANGED <<mouse, swapped, pen, penActive, mixed, wire, from>>
    BY <1>6 DEF Connect, viewer, server
  <2>2. PointerShape'  BY <1>0, <2>1 DEF PointerShape
  <2>3. \A d \in Clients : KeptApart(d)' /\ Followed(d)'  BY <2>1, LeftAlone
  <2>4. \A d \in Clients : ~attached'[d] => ~attached[d]  BY <1>0, <2>1 DEF PointerShape
  <2> QED BY <1>0, <2>1, <2>2, <2>3, <2>4 DEF Reported
<1>7. ASSUME NEW c \in Clients, Disconnect(c) PROVE Reported'
  <2>1. /\ attached' = [attached EXCEPT ![c] = FALSE]
        /\ wire' = [wire EXCEPT ![c] = <<>>] /\ from' = [from EXCEPT ![c] = {}]
        /\ UNCHANGED <<mouse, swapped, pen, penActive, mixed>>
    BY <1>7 DEF Disconnect, viewer
  <2>2. PointerShape'
    <3>1. <<>> \in Seq(Message)  OBVIOUS
    <3> QED BY <1>0, <2>1, <3>1 DEF PointerShape
  <2>3. wire'[c] = <<>> /\ from'[c] = {} /\ Len(wire'[c]) = 0  BY <1>0, <2>1 DEF PointerShape
  <2>4. KeptApart(c)'  BY <1>0, <2>1 DEF KeptApart
  <2>5. Followed(c)'
    <3>1. \A x \in Desktop : Covered(wire'[c], Len(wire'[c]), PutsDown(x), TakesUp(x),
                                     x \in from'[c], (x \in Meant(c))')
      BY <2>3 DEF Covered
    <3> QED BY <3>1 DEF Followed, PutsDown, TakesUp
  <2>6. \A d \in Clients \ {c} : KeptApart(d)' /\ Followed(d)'
    BY <1>0, <2>1, LeftAlone DEF PointerShape
  <2>7. \A d \in Clients : ~attached'[d] => wire'[d] = <<>> /\ from'[d] = {}
    BY <1>0, <2>1 DEF PointerShape
  <2> QED BY <2>2, <2>4, <2>5, <2>6, <2>7 DEF Reported
<1>8. ASSUME NEW c \in Clients, HandleInput(c) PROVE Reported'
  <2> DEFINE s == wire[c]
             m == Head(s)
  <2>1. /\ s # <<>> /\ wire' = [wire EXCEPT ![c] = Tail(s)]
        /\ UNCHANGED <<attached, mouse, swapped, pen, penActive, mixed>>
    BY <1>8 DEF HandleInput, viewer
  <2>2. s \in Seq(Message)  BY <1>0 DEF PointerShape
  <2>3. /\ m \in Message /\ Tail(s) \in Seq(Message)
        /\ Len(Tail(s)) = Len(s) - 1 /\ Len(s) \in 1..Len(s)
    BY <2>1, <2>2
  <2>4. /\ wire'[c] = Tail(s) /\ wire' \in [Clients -> Seq(Message)]
        /\ \A d \in Clients \ {c} : wire'[d] = wire[d]
    BY <1>0, <2>1, <2>3 DEF PointerShape
  <2>5. attached[c]  BY <1>0, <2>1
  <2> HIDE DEF m
  <2>6. /\ from' \in [Clients -> SUBSET Desktop]
        /\ \A d \in Clients \ {c} : from'[d] \subseteq from[d]
        /\ \A x \in Desktop : x \in from'[c] =>
              (x \in from[c] \/ m \in PutsDown(x)) /\ m \notin TakesUp(x)
    <3>1. ASSUME NEW on \in SUBSET Desktop, NEW off \in SUBSET Desktop, Put(c, on, off),
                 \A x \in Desktop : /\ x \in on => m \in PutsDown(x) /\ m \notin TakesUp(x)
                                    /\ m \in TakesUp(x) => x \in off
          PROVE  /\ from' \in [Clients -> SUBSET Desktop]
                 /\ \A d \in Clients \ {c} : from'[d] \subseteq from[d]
                 /\ \A x \in Desktop : x \in from'[c] =>
                       (x \in from[c] \/ m \in PutsDown(x)) /\ m \notin TakesUp(x)
      <4>1. from' = [x \in Clients |-> IF x = c THEN (from[x] \ off) \cup on ELSE from[x] \ off]
        BY <3>1 DEF Put
      <4>2. from'[c] = (from[c] \ off) \cup on  BY <4>1
      <4> QED BY <1>0, <3>1, <4>1, <4>2 DEF PointerShape
    <3>2. CASE m.is = "mouse" /\ HandleMouse(c, m)
      <4>1. /\ m.button \in Buttons /\ m.down \in BOOLEAN
            /\ \A x \in Desktop : /\ m \in PutsDown(x) <=> x = m.button /\ m.down
                                  /\ m \in TakesUp(x) <=> x = m.button /\ ~m.down
        BY <2>3, <3>2 DEF Message, PutsDown, TakesUp, MouseButton, PenEvent, Proximity
      <4>2. m.button \in Desktop  BY <4>1 DEF Desktop
      <4>3. CASE m.down /\ Put(c, {m.button}, {})
        <5> DEFINE on == {m.button}
        <5>1. \A x \in Desktop : /\ x \in on => m \in PutsDown(x) /\ m \notin TakesUp(x)
                                 /\ m \in TakesUp(x) => x \in {}
          BY <4>1, <4>3
        <5>2. on \in SUBSET Desktop /\ {} \in SUBSET Desktop /\ Put(c, on, {})
          BY <4>2, <4>3
        <5> HIDE DEF on
        <5> QED BY <3>1, <5>1, <5>2
      <4>4. CASE ~m.down /\ Put(c, {}, {m.button})
        <5> DEFINE off == {m.button}
        <5>1. \A x \in Desktop : /\ x \in {} => m \in PutsDown(x) /\ m \notin TakesUp(x)
                                 /\ m \in TakesUp(x) => x \in off
          BY <4>1, <4>4
        <5>2. off \in SUBSET Desktop /\ {} \in SUBSET Desktop /\ Put(c, {}, off)
          BY <4>2, <4>4
        <5> HIDE DEF off
        <5> QED BY <3>1, <5>1, <5>2
      <4> QED BY <3>2, <4>3, <4>4 DEF HandleMouse
    <3>3. CASE m.is = "pen" /\ HandlePen(c, m)
      <4> DEFINE on == (IF m.pressed THEN {Tip} ELSE {}) \cup (IF m.barrel THEN {Barrel} ELSE {})
      <4>1. /\ m.pressed \in BOOLEAN /\ m.barrel \in BOOLEAN
            /\ \A x \in Desktop :
                 /\ m \in PutsDown(x) <=> (x = Tip /\ m.pressed) \/ (x = Barrel /\ m.barrel)
                 /\ m \in TakesUp(x) <=> (x = Tip /\ ~m.pressed) \/ (x = Barrel /\ ~m.barrel)
        BY <2>3, <3>3 DEF Message, PutsDown, TakesUp, MouseButton, PenEvent, Proximity
      <4>2. on \in SUBSET Desktop /\ {Tip, Barrel} \ on \in SUBSET Desktop  BY DEF Desktop
      <4>3. Put(c, on, {Tip, Barrel} \ on)  BY <3>3 DEF HandlePen
      <4>4. \A x \in Desktop : /\ x \in on => m \in PutsDown(x) /\ m \notin TakesUp(x)
                               /\ m \in TakesUp(x) => x \in {Tip, Barrel} \ on
        BY <4>1 DEF Tip, Barrel
      <4> HIDE DEF on
      <4> QED BY <3>1, <4>2, <4>3, <4>4
    <3>4. CASE m.is = "proximity" /\ HandleProximity
      <4>1. from' = from  BY <3>4 DEF HandleProximity
      <4>2. \A x \in Desktop : m \notin TakesUp(x)  BY <3>4 DEF TakesUp
      <4> QED BY <1>0, <4>1, <4>2 DEF PointerShape
    <3> QED BY <1>8, <3>2, <3>3, <3>4 DEF HandleInput, m
  <2>7. PointerShape'  BY <1>0, <2>1, <2>4, <2>6 DEF PointerShape
  <2>8. KeptApart(c)'  BY <1>0, <2>1 DEF KeptApart
  <2>9. Followed(c)'
    <3>1. CASE c \in mixed  BY <2>1, <3>1 DEF Followed
    <3>2. CASE c \notin mixed
      <4>1. ASSUME NEW x \in Desktop
            PROVE  Covered(Tail(s), Len(s) - 1, PutsDown(x), TakesUp(x),
                           x \in from'[c], x \in Meant(c))
        <5>1. Covered(s, Len(s), PutsDown(x), TakesUp(x), x \in from[c], x \in Meant(c))
          BY <1>0, <3>2 DEF Followed
        <5>2. x \in from'[c] =>
                (x \in from[c] \/ Head(s) \in PutsDown(x)) /\ Head(s) \notin TakesUp(x)
          BY <2>6 DEF m
        <5> HIDE DEF s
        <5> QED BY <2>1, <2>2, <2>3, <5>1, <5>2, CoveredHandled
      <4>2. \A x \in Desktop : (x \in Meant(c))' <=> x \in Meant(c)  BY <2>1 DEF Meant
      <4>3. \A x \in Desktop : Covered(wire'[c], Len(wire'[c]), PutsDown(x), TakesUp(x),
                                       x \in from'[c], (x \in Meant(c))')
        BY <2>3, <2>4, <4>1, <4>2 DEF Covered
      <4> QED BY <4>3 DEF Followed, PutsDown, TakesUp
    <3> QED BY <3>1, <3>2
  <2>10. \A d \in Clients \ {c} : KeptApart(d)' /\ Followed(d)'
    BY <2>1, <2>4, <2>6, LeftAlone
  <2>11. \A d \in Clients : ~attached'[d] => wire'[d] = <<>> /\ from'[d] = {}
    BY <1>0, <2>1, <2>4, <2>5, <2>6
  <2> QED BY <2>7, <2>8, <2>9, <2>10, <2>11 DEF Reported
<1>9. CASE UNCHANGED vars
  BY <1>9, <1>0, LeftAlone DEF vars, Reported, PointerShape
<1> QED BY <1>1, <1>2, <1>4, <1>5, <1>6, <1>7, <1>8, <1>9 DEF Next, Shown, Refocused, ScreenChanged

-----------------------------------------------------------------------------
(* Bookmarks.                                                              *)

(* What the changes of a list of bookmarks do to its ids. *)
LEMMA AppendIds ==
  ASSUME NEW s \in Seq(Entry), NEW e \in Entry
  PROVE  Append(s, e) \in Seq(Entry) /\ Ids(Append(s, e)) = Ids(s) \cup {e.id}
<1>1. Len(Append(s, e)) = Len(s) + 1 /\ Append(s, e)[Len(s) + 1] = e  OBVIOUS
<1>2. \A i \in 1..Len(s) : Append(s, e)[i] = s[i]  OBVIOUS
<1>3. Ids(s) \cup {e.id} \subseteq Ids(Append(s, e))  BY <1>1, <1>2 DEF Ids
<1>4. Ids(Append(s, e)) \subseteq Ids(s) \cup {e.id}  BY <1>1, <1>2 DEF Ids
<1> QED BY <1>3, <1>4

LEMMA EntryChanged ==
  ASSUME NEW s \in Seq(Entry), NEW i \in 1..Len(s), NEW e \in Entry, e.id = s[i].id
  PROVE  [s EXCEPT ![i] = e] \in Seq(Entry) /\ Ids([s EXCEPT ![i] = e]) = Ids(s)
BY DEF Ids

LEMMA EntryRemoved ==
  ASSUME NEW s \in Seq(Entry), NEW i \in 1..Len(s)
  PROVE  /\ RemoveAt(s, i) \in Seq(Entry)
         /\ Ids(s) \subseteq Ids(RemoveAt(s, i)) \cup {s[i].id}
<1> DEFINE a == SubSeq(s, 1, i - 1)
           b == SubSeq(s, i + 1, Len(s))
           r == RemoveAt(s, i)
<1>1. /\ a \in Seq(Entry) /\ Len(a) = i - 1
      /\ \A j \in 1..(i - 1) : a[j] = s[j]
  <2>1. \A j \in 1..(i - 1) : s[j] \in Entry  OBVIOUS
  <2>2. i - 1 \in Int /\ 1 \in Int  OBVIOUS
  <2>3. /\ a \in Seq(Entry) /\ Len(a) = IF 1 <= i - 1 THEN (i - 1) - 1 + 1 ELSE 0
        /\ \A j \in 1..((i - 1) - 1 + 1) : a[j] = s[1 + j - 1]
    BY <2>1, <2>2, SubSeqProperties
  <2> HIDE DEF a
  <2> QED BY <2>3
<1>2. /\ b \in Seq(Entry) /\ Len(b) = Len(s) - i
      /\ \A j \in 1..(Len(s) - i) : b[j] = s[i + j]
  <2>1. \A j \in (i + 1)..Len(s) : s[j] \in Entry  OBVIOUS
  <2>2. i + 1 \in Int /\ Len(s) \in Int  OBVIOUS
  <2>3. /\ b \in Seq(Entry)
        /\ Len(b) = IF i + 1 <= Len(s) THEN Len(s) - (i + 1) + 1 ELSE 0
        /\ \A j \in 1..(Len(s) - (i + 1) + 1) : b[j] = s[(i + 1) + j - 1]
    BY <2>1, <2>2, SubSeqProperties
  <2> HIDE DEF b
  <2> QED BY <2>3
<1>3. r = a \o b  BY DEF RemoveAt
<1> HIDE DEF a, b, r
<1>4. /\ r \in Seq(Entry) /\ Len(r) = Len(a) + Len(b)
      /\ \A j \in 1..(Len(a) + Len(b)) : r[j] = IF j <= Len(a) THEN a[j] ELSE b[j - Len(a)]
  BY <1>1, <1>2, <1>3, ConcatProperties
<1>5. r \in Seq(Entry) /\ Len(r) = Len(s) - 1  BY <1>1, <1>2, <1>4
<1>6. ASSUME NEW j \in 1..(i - 1) PROVE r[j] = s[j]
  <2>1. j \in 1..(Len(a) + Len(b)) /\ j <= Len(a)  BY <1>1, <1>2
  <2>2. r[j] = a[j]  BY <1>4, <2>1
  <2> QED BY <1>1, <2>2
<1>7. ASSUME NEW j \in (i + 1)..Len(s) PROVE r[j - 1] = s[j]
  <2>1. j - 1 \in 1..(Len(a) + Len(b)) /\ ~(j - 1 <= Len(a))  BY <1>1, <1>2
  <2>2. r[j - 1] = b[j - 1 - Len(a)]  BY <1>4, <2>1
  <2>3. j - 1 - Len(a) = j - i /\ j - i \in 1..(Len(s) - i) /\ i + (j - i) = j  BY <1>1
  <2> QED BY <1>2, <2>2, <2>3
<1>8. ASSUME NEW j \in 1..Len(s), j # i PROVE s[j].id \in Ids(r)
  <2>1. CASE j < i  BY <1>5, <1>6, <2>1 DEF Ids
  <2>2. CASE j > i
    <3>1. j - 1 \in 1..Len(r) /\ r[j - 1] = s[j]  BY <1>5, <1>7, <2>2
    <3> QED BY <3>1 DEF Ids
  <2> QED BY <1>8, <2>1, <2>2
<1> QED BY <1>5, <1>8 DEF Ids, r

(* Migrating an entry keeps its id. *)
LEMMA MigratedEntry ==
  ASSUME NEW e \in Entry
  PROVE  Migrated(e) \in Entry /\ Migrated(e).id = e.id
BY DEF Migrated, Entry, Shapes, DefaultSwap

\* What the only client knows, and what it is about to put in place.
Keeps(p) ==
  /\ running = {p}
  /\ Ids(file.of) \subseteq Ids(profiles[p]) \cup deleted
  /\ writing[p].at # "idle" => writing[p].data = profiles[p]
  /\ writing[p].at = "replace" => temp = Text(profiles[p])

(* What BookmarksSurvive needs: the client that runs knows everything that is
   in the file, and puts nothing less in its place. *)
Sound ==
  /\ profiles \in [Programs -> Seq(Entry)]
  /\ writing \in [Programs -> [at : {"idle", "open", "write", "replace"}, data : Seq(Entry)]]
  /\ file.of \in Seq(Entry)
  /\ running \subseteq Programs
  /\ \A p \in running : Keeps(p)

Survive == Ids(file.of) \subseteq Ids(file'.of) \cup deleted'

(* A change in memory that loses only what is deleted. *)
LEMMA ChangeStep ==
  ASSUME Sound, NEW p \in Programs, NEW s \in Seq(Entry), Change(p, s),
         Ids(profiles[p]) \cup deleted \subseteq Ids(s) \cup deleted'
  PROVE  Sound' /\ Survive
<1> USE DEF Sound, Keeps, Change, disk
<1>1. writing' \in [Programs -> [at : {"idle", "open", "write", "replace"}, data : Seq(Entry)]]
  BY DEF Saving
<1>2. profiles'[p] = s /\ writing'[p] = [at |-> "open", data |-> s] /\ file' = file
  BY DEF Saving
<1> QED BY <1>1, <1>2 DEF Survive

LEMMA SoundStep ==
  ASSUME Sound, [BookmarksNext]_bookmarkVars, ~shared', ~partly'
  PROVE  Sound' /\ Survive
<1> USE DEF Sound, Survive, disk, bounds
<1>1. CASE EditByHand
  <2>1. PICK e \in Entry :
          /\ \/ e.id \notin Ids(file.of) /\ file' = Text(Append(file.of, e))
             \/ \E i \in 1..Len(file.of) :
                  file.of[i].id = e.id /\ file' = Text([file.of EXCEPT ![i] = e])
          /\ deleted' = deleted \ {e.id}
    BY <1>1 DEF EditByHand
  <2>2. CASE file' = Text(Append(file.of, e))
    <3>1. file'.of = Append(file.of, e)  BY <2>2 DEF Text
    <3>2. file'.of \in Seq(Entry) /\ Ids(file.of) \subseteq Ids(file'.of)
      BY <3>1, AppendIds
    <3> QED BY <1>1, <2>1, <3>1, <3>2, AppendIds DEF EditByHand
  <2>3. ASSUME NEW i \in 1..Len(file.of), file.of[i].id = e.id,
               file' = Text([file.of EXCEPT ![i] = e])
        PROVE  Sound' /\ Survive
    <3>1. file'.of = [file.of EXCEPT ![i] = e]  BY <2>3 DEF Text
    <3>2. file'.of \in Seq(Entry) /\ Ids(file.of) \subseteq Ids(file'.of)
      <4>1. /\ [file.of EXCEPT ![i] = e] \in Seq(Entry)
            /\ Ids([file.of EXCEPT ![i] = e]) = Ids(file.of)
        BY <2>3, EntryChanged
      <4> QED BY <3>1, <4>1
    <3>3. e.id \in Ids(file'.of)  BY <2>3, <3>1, <3>2 DEF Ids
    <3> QED BY <1>1, <2>1, <3>2, <3>3 DEF EditByHand
  <2> QED BY <2>1, <2>2, <2>3
<1>2. ASSUME NEW p \in Programs, Load(p) PROVE Sound' /\ Survive
  <2> DEFINE s == Loadable(file.of)
             loaded == [i \in 1..Len(s) |-> Migrated(s[i])]
  <2>1. running' = {p} /\ \A i \in 1..Len(file.of) : file.of[i].shape # "broken"
    BY <1>2 DEF Load
  <2>2. s = file.of  BY <2>1 DEF Loadable
  <2>3. loaded \in Seq(Entry) /\ Len(loaded) = Len(file.of)  BY <2>2, MigratedEntry
  <2>4. \A i \in 1..Len(file.of) : loaded[i].id = file.of[i].id
    BY <2>2, MigratedEntry
  <2>5. Ids(file.of) \subseteq Ids(loaded)  BY <2>3, <2>4 DEF Ids
  <2>6. /\ profiles' = [profiles EXCEPT ![p] = loaded]
        /\ \/ writing' = [writing EXCEPT ![p] = Saving(loaded)]
           \/ writing' = [writing EXCEPT ![p] = Idle]
        /\ UNCHANGED <<file, deleted>>
    BY <1>2 DEF Load
  <2> HIDE DEF loaded, s
  <2>7. Saving(loaded).at = "open" /\ Saving(loaded).data = loaded /\ Idle.at = "idle"
    BY DEF Saving, Idle
  <2>8. /\ Saving(loaded) \in [at : {"idle", "open", "write", "replace"}, data : Seq(Entry)]
        /\ Idle \in [at : {"idle", "open", "write", "replace"}, data : Seq(Entry)]
    BY <2>3 DEF Saving, Idle
  <2>9. profiles'[p] = loaded /\ Keeps(p)'
    BY <2>1, <2>5, <2>6, <2>7 DEF Keeps
  <2>10. /\ profiles' \in [Programs -> Seq(Entry)]
         /\ writing' \in [Programs ->
               [at : {"idle", "open", "write", "replace"}, data : Seq(Entry)]]
    BY <2>3, <2>6, <2>8
  <2> QED BY <2>1, <2>6, <2>9, <2>10
<1>3. ASSUME NEW p \in Programs, Exit(p) PROVE Sound' /\ Survive
  <2>1. running' = {}  BY <1>3 DEF Exit, Keeps
  <2>2. <<>> \in Seq(Entry)  OBVIOUS
  <2> QED BY <1>3, <2>1, <2>2 DEF Exit, Idle
<1>4. ASSUME NEW p \in Programs, Add(p) PROVE Sound' /\ Survive
  <2>1. PICK id \in Names, mac \in BOOLEAN, swap \in BOOLEAN :
          Change(p, Append(profiles[p], New(id, mac, swap))) /\ UNCHANGED deleted
    BY <1>4 DEF Add
  <2>2. New(id, mac, swap) \in Entry  BY DEF New, Entry, Shapes
  <2> QED BY <2>1, <2>2, AppendIds, ChangeStep
<1>5. ASSUME NEW p \in Programs, Update(p) PROVE Sound' /\ Survive
  <2>1. PICK i \in 1..Len(profiles[p]) : \E mac \in BOOLEAN, swap \in BOOLEAN :
          /\ Change(p, [profiles[p] EXCEPT ![i].mac = mac, ![i].swap = swap])
          /\ UNCHANGED deleted
    BY <1>5 DEF Update
  <2>2. PICK mac \in BOOLEAN, swap \in BOOLEAN :
          /\ Change(p, [profiles[p] EXCEPT ![i].mac = mac, ![i].swap = swap])
          /\ UNCHANGED deleted
    BY <2>1
  <2> DEFINE e == [profiles[p][i] EXCEPT !.mac = mac, !.swap = swap]
  <2>3. profiles[p][i] \in Entry  OBVIOUS
  <2>4. e \in Entry /\ e.id = profiles[p][i].id  BY <2>3 DEF Entry
  <2>5. [profiles[p] EXCEPT ![i].mac = mac, ![i].swap = swap] = [profiles[p] EXCEPT ![i] = e]
    OBVIOUS
  <2> HIDE DEF e
  <2>6. Change(p, [profiles[p] EXCEPT ![i] = e])  BY <2>2, <2>5
  <2>7. /\ [profiles[p] EXCEPT ![i] = e] \in Seq(Entry)
        /\ Ids([profiles[p] EXCEPT ![i] = e]) = Ids(profiles[p])
    BY <2>4, EntryChanged
  <2> QED BY <2>2, <2>6, <2>7, ChangeStep
<1>6. ASSUME NEW p \in Programs, Delete(p) PROVE Sound' /\ Survive
  <2>1. PICK i \in 1..Len(profiles[p]) :
          /\ Change(p, RemoveAt(profiles[p], i))
          /\ deleted' = deleted \cup {profiles[p][i].id}
    BY <1>6 DEF Delete
  <2> QED BY <2>1, EntryRemoved, ChangeStep
<1>7. ASSUME NEW p \in Programs, Import(p) PROVE Sound' /\ Survive
  <2>1. PICK e \in Entry :
          /\ e.shape # "broken" /\ (e.shape = "old" => ~e.swap)
          /\ LET taken == [e EXCEPT !.shape = IF @ = "old" THEN "new" ELSE @,
                                    !.swap = IF e.shape = "old" THEN TRUE ELSE @] IN
             Change(p, IF e.id \in Ids(profiles[p]) THEN profiles[p]
                       ELSE Append(profiles[p], taken))
          /\ deleted' = deleted \ {e.id}
    BY <1>7 DEF Import
  <2> DEFINE taken == [e EXCEPT !.shape = IF @ = "old" THEN "new" ELSE @,
                                !.swap = IF e.shape = "old" THEN TRUE ELSE @]
  <2>2. taken \in Entry /\ taken.id = e.id  BY DEF Entry, Shapes
  <2>3. CASE e.id \in Ids(profiles[p])
    <3>1. Change(p, profiles[p])  BY <2>1, <2>3
    <3> QED BY <2>1, <2>3, <3>1, ChangeStep
  <2>4. CASE e.id \notin Ids(profiles[p])
    <3>1. Change(p, Append(profiles[p], taken))  BY <2>1, <2>4
    <3> HIDE DEF taken
    <3>2. /\ Append(profiles[p], taken) \in Seq(Entry)
          /\ Ids(Append(profiles[p], taken)) = Ids(profiles[p]) \cup {taken.id}
      BY <2>2, AppendIds
    <3>3. Ids(profiles[p]) \cup deleted \subseteq Ids(Append(profiles[p], taken)) \cup deleted'
      BY <2>1, <2>2, <3>2
    <3> QED BY <3>1, <3>2, <3>3, ChangeStep
  <2> QED BY <2>3, <2>4
<1>8. ASSUME NEW p \in Programs, Open(p) PROVE Sound' /\ Survive
  BY <1>8 DEF Open, At, Go, Keeps
<1>9. ASSUME NEW p \in Programs, Write(p) PROVE Sound' /\ Survive
  BY <1>9, ZenonT(30) DEF Write, At, Go, Keeps
<1>10. ASSUME NEW p \in Programs, Replace(p) PROVE Sound' /\ Survive
  <2>1. p \in running /\ temp = Text(profiles[p])  BY <1>10 DEF Replace, At, Keeps
  <2>2. temp # NoFile  BY <2>1 DEF Text, NoFile
  <2>3. file'.of = profiles[p]  BY <1>10, <2>1, <2>2 DEF Replace, Text
  <2>4. Idle \in [at : {"idle", "open", "write", "replace"}, data : Seq(Entry)]
    BY DEF Idle
  <2> QED BY <1>10, <2>1, <2>3, <2>4 DEF Replace, Keeps, Idle
<1>11. ASSUME NEW p \in Programs, SaveFails(p) PROVE Sound' /\ Survive
  <2>1. Idle \in [at : {"idle", "open", "write", "replace"}, data : Seq(Entry)]
    BY DEF Idle
  <2> QED BY <1>11, <2>1 DEF SaveFails, Keeps, Idle
<1>12. CASE UNCHANGED bookmarkVars  BY <1>12 DEF bookmarkVars, Keeps
<1> QED BY <1>1, <1>2, <1>3, <1>4, <1>5, <1>6, <1>7, <1>8, <1>9, <1>10, <1>11, <1>12
        DEF BookmarksNext

(* What the histories say of a step: they are never taken back. *)
LEMMA HistoriesStep ==
  ASSUME [BookmarksNext]_bookmarkVars
  PROVE  (shared => shared') /\ (partly => partly')
<1>1. ASSUME NEW p \in Programs, Load(p)
      PROVE  (shared => shared') /\ (partly => partly')
  BY <1>1, Zenon DEF Load
<1>2. ASSUME NEW p \in Programs, NEW s, Change(p, s)
      PROVE  (shared => shared') /\ (partly => partly')
  BY <1>2 DEF Change
<1>3. ASSUME NEW p \in Programs,
             Add(p) \/ Update(p) \/ Delete(p) \/ Import(p)
      PROVE  (shared => shared') /\ (partly => partly')
  BY <1>2, <1>3, Zenon DEF Add, Update, Delete, Import
<1>4. ASSUME NEW p \in Programs,
             Exit(p) \/ Open(p) \/ Write(p) \/ Replace(p) \/ SaveFails(p)
      PROVE  (shared => shared') /\ (partly => partly')
  BY <1>4 DEF Exit, Open, Write, Replace, SaveFails
<1>5. CASE EditByHand  BY <1>5 DEF EditByHand
<1>6. CASE UNCHANGED bookmarkVars  BY <1>6 DEF bookmarkVars
<1> QED BY <1>1, <1>3, <1>4, <1>5, <1>6, Zenon DEF BookmarksNext

-----------------------------------------------------------------------------
(* The viewer's geometry.  First what its operators compute: sums, a largest  *)
(* number, lengths cut to whole pixels.                                       *)

\* Division with a remainder.
LEMMA Quotient ==
  ASSUME NEW n \in Nat, NEW d \in Nat \ {0}
  PROVE  n \div d \in Nat /\ d * (n \div d) <= n /\ n < d * (n \div d) + d
OBVIOUS

\* What holds at 0, and one further where it holds, holds up to m.
LEMMA UpTo ==
  ASSUME NEW m \in Nat, NEW T, 0 \in T, \A n \in 0..(m - 1) : n \in T => n + 1 \in T
  PROVE  0..m \subseteq T
<1> DEFINE left == (0..m) \ T
<1> SUFFICES ASSUME left # {} PROVE FALSE  OBVIOUS
<1>1. left \subseteq Nat  OBVIOUS
<1>2. PICK n \in left : \A k \in left : <<k, n>> \notin OpToRel(<, Nat)
  BY <1>1, WFMin, NatLessThanWellFounded, Zenon
<1>3. n \in Nat /\ n <= m /\ n \notin T  OBVIOUS
<1>4. n # 0  BY <1>3
<1>5. n - 1 \in 0..(m - 1) /\ (n - 1) + 1 = n /\ n - 1 \in 0..m /\ n - 1 < n  BY <1>3, <1>4
<1>6. n - 1 \in left  BY <1>3, <1>5
<1>7. n - 1 \in Nat  BY <1>5
<1>8. <<n - 1, n>> \in OpToRel(<, Nat)
  <2> DEFINE k == n - 1
  <2>1. k \in Nat /\ n \in Nat /\ k < n  BY <1>3, <1>5, <1>7
  <2> HIDE DEF k
  <2>2. <<k, n>> \in OpToRel(<, Nat)  BY <2>1, Zenon DEF OpToRel
  <2> QED BY <2>2 DEF k
<1> HIDE DEF left
<1> QED BY <1>2, <1>6, <1>8

\* The largest of some numbers.
LEMMA Largest ==
  ASSUME NEW m \in Nat \ {0}, NEW f \in [1..m -> Nat]
  PROVE  \E j \in 1..m : Max({f[k] : k \in 1..m}) = f[j] /\ \A k \in 1..m : f[k] <= f[j]
<1> DEFINE T == {n \in 0..m : n # 0 => \E j \in 1..n : \A k \in 1..n : f[k] <= f[j]}
<1>1. 0 \in T  OBVIOUS
<1>2. ASSUME NEW n \in 0..(m - 1), n \in T PROVE n + 1 \in T
  <2>1. n + 1 \in 0..m /\ n \in Nat /\ \A k \in 1..(n + 1) : k = n + 1 \/ k \in 1..n
    OBVIOUS
  <2>2. \A k \in 1..(n + 1) : k \in 1..m /\ f[k] \in Nat  OBVIOUS
  <2>3. CASE n = 0  BY <2>1, <2>2, <2>3
  <2>4. CASE n # 0
    <3>1. PICK j \in 1..n : \A k \in 1..n : f[k] <= f[j]  BY <1>2, <2>4
    <3>2. j \in 1..(n + 1) /\ n + 1 \in 1..(n + 1) /\ f[j] \in Nat /\ f[n + 1] \in Nat
      BY <2>1, <2>2
    <3>3. CASE f[n + 1] <= f[j]
      <4>1. \A k \in 1..(n + 1) : f[k] <= f[j]  BY <2>1, <3>1, <3>3
      <4> QED BY <2>1, <3>2, <4>1
    <3>4. CASE f[j] <= f[n + 1]
      <4>1. ASSUME NEW k \in 1..n PROVE f[k] <= f[n + 1]
        <5>1. k \in 1..(n + 1)  BY <2>1
        <5>2. f[k] \in Nat  BY <2>2, <5>1
        <5> QED BY <3>1, <3>2, <3>4, <5>2
      <4>2. \A k \in 1..(n + 1) : f[k] <= f[n + 1]  BY <2>1, <3>2, <4>1
      <4> QED BY <2>1, <3>2, <4>2
    <3> QED BY <3>2, <3>3, <3>4
  <2> QED BY <2>3, <2>4
<1>3. m \in T
  <2> HIDE DEF T
  <2>1. 0..m \subseteq T  BY <1>1, <1>2, UpTo
  <2> QED BY <2>1
<1>4. PICK j \in 1..m : \A k \in 1..m : f[k] <= f[j]  BY <1>3
<1> DEFINE S == {f[k] : k \in 1..m}
<1>5. f[j] \in S /\ \A y \in S : f[j] >= y  BY <1>4
<1>6. Max(S) \in S /\ \A y \in S : Max(S) >= y
  <2> HIDE DEF S
  <2> QED BY <1>5, Zenon DEF Max
<1>7. Max(S) = f[j]
  <2>1. \A y \in S : y \in Nat  OBVIOUS
  <2> HIDE DEF S
  <2> QED BY <1>5, <1>6, <2>1
<1> QED BY <1>4, <1>7

\* Sums has what its recursion says.
LEMMA SumsStep ==
  ASSUME NEW ns \in Seq(Nat)
  PROVE  /\ Sums(ns)[0] = 0
         /\ \A n \in 1..Len(ns) : Sums(ns)[n] = Sums(ns)[n - 1] + ns[n]
<1> DEFINE Sum(f, m) == f = [n \in 0..m |-> IF n = 0 THEN 0 ELSE f[n - 1] + ns[n]]
           L == Len(ns)
           T == {m \in 0..L : \E f : Sum(f, m)}
<1>1. L \in Nat  OBVIOUS
<1>2. 0 \in T
  <2> DEFINE f == [n \in 0..0 |-> 0]
  <2>1. \A n \in 0..0 : f[n] = IF n = 0 THEN 0 ELSE f[n - 1] + ns[n]  OBVIOUS
  <2>2. f = [n \in 0..0 |-> f[n]]  OBVIOUS
  <2> HIDE DEF f
  <2>3. Sum(f, 0)  BY <2>1, <2>2
  <2> QED BY <1>1, <2>3
<1>3. ASSUME NEW m \in 0..(L - 1), m \in T PROVE m + 1 \in T
  <2>1. PICK f : Sum(f, m)  BY <1>3
  <2> DEFINE g == [n \in 0..(m + 1) |-> IF n = m + 1 THEN f[m] + ns[m + 1] ELSE f[n]]
  <2>2. ASSUME NEW n \in 0..(m + 1)
        PROVE  g[n] = IF n = 0 THEN 0 ELSE g[n - 1] + ns[n]
    <3>1. CASE n = m + 1
      <4>1. m \in 0..(m + 1) /\ m # m + 1 /\ n - 1 = m /\ n # 0  BY <1>1, <3>1
      <4> QED BY <3>1, <4>1
    <3>2. CASE n # m + 1
      <4>1. n \in 0..m /\ g[n] = f[n]  BY <1>1, <3>2
      <4>2. f[n] = IF n = 0 THEN 0 ELSE f[n - 1] + ns[n]  BY <2>1, <4>1
      <4>3. n # 0 => n - 1 \in 0..(m + 1) /\ n - 1 # m + 1  BY <1>1, <4>1
      <4> QED BY <4>1, <4>2, <4>3
    <3> QED BY <3>1, <3>2
  <2>3. Sum(g, m + 1)
    <3>1. g = [n \in 0..(m + 1) |-> g[n]]  OBVIOUS
    <3> HIDE DEF g
    <3> QED BY <2>2, <3>1
  <2>4. m + 1 \in 0..L  BY <1>1
  <2> QED BY <2>3, <2>4
<1>4. \E f : Sum(f, L)
  <2>1. L \in T
    <3> HIDE DEF T, L
    <3>1. 0..L \subseteq T  BY <1>1, <1>2, <1>3, UpTo
    <3> QED BY <1>1, <3>1
  <2> QED BY <2>1
<1>5. Sum(Sums(ns), L)
  <2>1. Sums(ns) = CHOOSE f : Sum(f, L)  BY DEF Sums
  <2> HIDE DEF Sum
  <2> QED BY <1>4, <2>1
<1>6. \A n \in 0..L : Sums(ns)[n] = IF n = 0 THEN 0 ELSE Sums(ns)[n - 1] + ns[n]
  BY <1>5
<1>7. 0 \in 0..L /\ \A n \in 1..L : n \in 0..L /\ n # 0  BY <1>1
<1> QED BY <1>6, <1>7

\* Sums of naturals are naturals.
LEMMA SumsNat ==
  ASSUME NEW ns \in Seq(Nat)
  PROVE  \A n \in 0..Len(ns) : Sums(ns)[n] \in Nat
<1> DEFINE L == Len(ns)
           T == {n \in 0..L : Sums(ns)[n] \in Nat}
<1>1. L \in Nat /\ 0 \in T  BY SumsStep
<1>2. ASSUME NEW n \in 0..(L - 1), n \in T PROVE n + 1 \in T
  <2>1. n + 1 \in 1..L /\ (n + 1) - 1 = n /\ ns[n + 1] \in Nat /\ Sums(ns)[n] \in Nat
    BY <1>1, <1>2
  <2>2. Sums(ns)[n + 1] = Sums(ns)[(n + 1) - 1] + ns[n + 1]  BY <2>1, SumsStep
  <2> QED BY <1>1, <2>1, <2>2
<1>3. 0..L \subseteq T
  <2> HIDE DEF T, L
  <2> QED BY <1>1, <1>2, UpTo
<1> QED BY <1>3

\* Sums do not shrink.
LEMMA SumsGrow ==
  ASSUME NEW ns \in Seq(Nat), NEW n \in 0..Len(ns), NEW k \in 0..n
  PROVE  Sums(ns)[k] <= Sums(ns)[n]
<1> DEFINE s == Sums(ns)
           m == n - k
           T == {j \in 0..m : s[k] <= s[k + j]}
<1>1. /\ \A j \in 0..Len(ns) : s[j] \in Nat
      /\ \A j \in 1..Len(ns) : s[j] = s[j - 1] + ns[j]
      /\ Len(ns) \in Nat
  BY SumsStep, SumsNat
<1> HIDE DEF s
<1>2. m \in Nat /\ k \in 0..Len(ns) /\ 0 \in T
  <2>1. k \in 0..Len(ns) /\ k + 0 = k  BY <1>1
  <2> QED BY <1>1, <2>1
<1>3. ASSUME NEW j \in 0..(m - 1), j \in T PROVE j + 1 \in T
  <2>1. /\ k + j \in 0..Len(ns) /\ k + (j + 1) \in 1..Len(ns)
        /\ (k + (j + 1)) - 1 = k + j
    BY <1>1
  <2>2. s[k + (j + 1)] = s[k + j] + ns[k + (j + 1)]  BY <1>1, <2>1
  <2>3. ns[k + (j + 1)] \in Nat /\ s[k + j] \in Nat /\ s[k] \in Nat  BY <1>1, <1>2, <2>1
  <2>4. s[k] <= s[k + j]  BY <1>3
  <2> QED BY <1>2, <2>2, <2>3, <2>4
<1>4. m \in T
  <2> HIDE DEF T, m
  <2>1. 0..m \subseteq T  BY <1>2, <1>3, UpTo
  <2> QED BY <1>2, <2>1
<1>5. k + m = n  BY <1>1
<1> QED BY <1>4, <1>5 DEF s

\* One length more.
LEMMA LostStep ==
  ASSUME NEW s \in Nat, NEW c \in Nat, NEW x \in Nat, NEW y \in Nat, NEW k \in Nat,
         NEW a \in Nat, NEW z \in Nat,
         z * c <= a * s, a * s <= z * (c + k), z * y <= x * a, x * a < z * y + z
  PROVE  /\ z * (c + y) <= a * (s + x)
         /\ a * (s + x) <= z * ((c + y) + (k + 1))
<1>1. /\ z * (c + y) = z * c + z * y /\ a * (s + x) = a * s + x * a
      /\ z * ((c + y) + (k + 1)) = z * (c + k) + (z * y + z)
  OBVIOUS
<1>2. /\ z * c \in Int /\ z * y \in Int /\ a * s \in Int /\ x * a \in Int
      /\ z * (c + k) \in Int
  OBVIOUS
<1> QED BY <1>1, <1>2

\* What is lost when n lengths are cut to whole pixels, each at scale a / z.
LEMMA Lost ==
  ASSUME NEW ns \in Seq(Nat), NEW a \in Nat, NEW z \in Nat \ {0},
         NEW cut, cut = [k \in 1..Len(ns) |-> (ns[k] * a) \div z],
         NEW n \in 0..Len(ns)
  PROVE  /\ z * Sums(cut)[n] <= a * Sums(ns)[n]
         /\ a * Sums(ns)[n] <= z * (Sums(cut)[n] + n)
<1> DEFINE L == Len(ns)
           s == Sums(ns)
           c == Sums(cut)
           Kept(k) == z * c[k] <= a * s[k] /\ a * s[k] <= z * (c[k] + k)
           T == {k \in 0..L : Kept(k)}
<1>1. L \in Nat  OBVIOUS
<1>2. \A k \in 1..L : ns[k] \in Nat /\ ns[k] * a \in Nat
  <2> TAKE k \in 1..L
  <2>1. ns[k] \in Nat  OBVIOUS
  <2> QED BY <2>1, SMTT(30)
<1>3. ASSUME NEW k \in 1..L
      PROVE  /\ cut[k] \in Nat /\ z * cut[k] <= ns[k] * a
             /\ ns[k] * a < z * cut[k] + z
  <2>1. cut[k] = (ns[k] * a) \div z  OBVIOUS
  <2> QED BY <1>2, <2>1, Quotient
<1>4. cut \in Seq(Nat) /\ Len(cut) = L
  <2>1. cut \in [1..L -> Nat]  BY <1>3
  <2> QED BY <1>1, <2>1, SMTT(30)
<1>5. /\ \A k \in 0..L : s[k] \in Nat /\ c[k] \in Nat
      /\ s[0] = 0 /\ c[0] = 0
      /\ \A k \in 1..L : s[k] = s[k - 1] + ns[k] /\ c[k] = c[k - 1] + cut[k]
  <2>1. /\ \A k \in 0..L : s[k] \in Nat
        /\ s[0] = 0 /\ \A k \in 1..L : s[k] = s[k - 1] + ns[k]
    BY SumsStep, SumsNat
  <2>2. /\ \A k \in 0..L : c[k] \in Nat
        /\ c[0] = 0 /\ \A k \in 1..L : c[k] = c[k - 1] + cut[k]
    <3> HIDE DEF L
    <3>1. /\ \A k \in 0..Len(cut) : c[k] \in Nat
          /\ c[0] = 0 /\ \A k \in 1..Len(cut) : c[k] = c[k - 1] + cut[k]
      BY <1>4, SumsStep, SumsNat
    <3> QED BY <1>4, <3>1
  <2> QED BY <2>1, <2>2
<1> HIDE DEF s, c
<1>6. 0 \in T  BY <1>1, <1>5
<1>7. ASSUME NEW j \in 0..(L - 1), j \in T PROVE j + 1 \in T
  <2> DEFINE k == j + 1
  <2>1. k \in 1..L /\ k - 1 = j /\ j \in 0..L /\ k \in 0..L /\ j \in Nat  BY <1>1
  <2>2. Kept(j)  BY <1>7
  <2>3. s[k] = s[j] + ns[k] /\ c[k] = c[j] + cut[k]
    <3> HIDE DEF k, L
    <3> QED BY <1>5, <2>1
  <2>4. /\ s[j] \in Nat /\ c[j] \in Nat /\ ns[k] \in Nat /\ cut[k] \in Nat
        /\ z * cut[k] <= ns[k] * a /\ ns[k] * a < z * cut[k] + z
    <3> HIDE DEF k, L
    <3> QED BY <1>2, <1>3, <1>5, <2>1
  <2>5. z * c[j] <= a * s[j] /\ a * s[j] <= z * (c[j] + j)  BY <1>7
  <2>6. Kept(k)
    <3> HIDE DEF Kept
    <3>1. /\ z * (c[j] + cut[k]) <= a * (s[j] + ns[k])
          /\ a * (s[j] + ns[k]) <= z * ((c[j] + cut[k]) + (j + 1))
      <4> HIDE DEF k
      <4> QED BY <2>1, <2>4, <2>5, LostStep
    <3>2. z * c[k] <= a * s[k] /\ a * s[k] <= z * (c[k] + (j + 1))
      <4> HIDE DEF k
      <4> QED BY <2>3, <3>1
    <3> QED BY <3>2 DEF Kept
  <2> QED BY <2>1, <2>6
<1>8. 0..L \subseteq T
  <2> HIDE DEF T, L
  <2> QED BY <1>1, <1>6, <1>7, UpTo
<1>9. Kept(n)  BY <1>8
<1> QED BY <1>9 DEF s, c

\* Products of integers.
LEMMA CancelLess ==
  ASSUME NEW a \in Int, NEW b \in Int, NEW d \in Nat \ {0}, d * a < d * b
  PROVE  a < b
OBVIOUS

LEMMA CancelAtMost ==
  ASSUME NEW a \in Int, NEW b \in Int, NEW d \in Nat \ {0}, d * a <= d * b
  PROVE  a <= b
OBVIOUS

LEMMA TimesLess ==
  ASSUME NEW a \in Int, NEW b \in Int, NEW d \in Nat \ {0}, a < b
  PROVE  d * a < d * b
OBVIOUS

LEMMA TimesAtMost ==
  ASSUME NEW a \in Int, NEW b \in Int, NEW d \in Nat, a <= b
  PROVE  d * a <= d * b
OBVIOUS

\* A place n / a on a screen of d pixels is pixel s; move_abs puts the pointer
\* there or on the one before.
LEMMA Beside ==
  ASSUME NEW n \in Nat, NEW a \in Nat \ {0}, NEW d \in Nat \ {0}, NEW s \in Nat,
         n < d * a, a * s <= n, n < a * s + a
  PROVE  s - (n * (d - 1)) \div (d * a) \in 0..1
<1> DEFINE p == (n * (d - 1)) \div (d * a)
<1>1. n * (d - 1) \in Nat /\ d * a \in Nat \ {0} /\ a * s \in Nat  OBVIOUS
<1>2. p \in Nat /\ (d * a) * p <= n * (d - 1) /\ n * (d - 1) < (d * a) * p + d * a
  BY <1>1, Quotient
<1> HIDE DEF p
<1>3. a * p \in Nat /\ (d * a) * p = d * (a * p) /\ n * (d - 1) = d * n - n  BY <1>2
<1>4. p < s + 1
  <2>1. d * (a * p) <= d * n  BY <1>2, <1>3
  <2>2. a * p <= n  BY <1>3, <2>1, CancelAtMost
  <2>3. a * p < a * (s + 1)  BY <1>1, <1>3, <2>2
  <2> QED BY <1>2, <2>3, CancelLess
<1>5. s < p + 2
  <2>1. d * n - n < d * (a * p) + d * a  BY <1>2, <1>3
  <2>2. d * n < d * (a * p + a + a)  BY <1>1, <1>3, <2>1
  <2>3. n < a * p + a + a  BY <1>3, <2>2, CancelLess
  <2>4. a * s < a * (p + 2)  BY <1>1, <1>2, <1>3, <2>3
  <2> QED BY <1>2, <2>4, CancelLess
<1> QED BY <1>2, <1>4, <1>5 DEF p

\* Along one side: put on what is seen in pixels u - i to u + i of a picture
\* q pixels long, of w pixels of the desktop from o.
Lands(put, o, w, q, u, i) ==
  \E u1, u2 \in 0..(q - 1) :
    /\ u1 \in (u - i)..(u + i) /\ u2 \in (u - i)..(u + i)
    /\ put \in (o + (u1 * w) \div q - 1)..(o + ((u2 + 1) * w) \div q)

\* What Axis needs.
Along(w, z, a, d, o, p, b, i, q, u, n) ==
  /\ w \in Nat \ {0} /\ z \in Nat \ {0} /\ a \in Nat /\ d \in Nat /\ o \in Nat /\ o + w <= d
  /\ p \in Nat /\ b \in Nat /\ i \in Nat \ {0}
  /\ z * p <= a * b /\ a * b <= z * (p + i - 1)
  /\ q = (w * a) \div z /\ u \in (i - 1)..(q - 1)
  /\ n = o * a - a * b + (u + p) * z

\* Where move_abs puts what is at n / a, on a screen of d pixels.
PutAt(n, d, a) == (Clamp(n, d * a) * (d - 1)) \div (d * a)

\* Along one side of a picture, q pixels long, of w pixels of the desktop from o,
\* at scale a / z; what is before it takes b on the desktop and p in the widget,
\* of which up to i - 1 are lost.
LEMMA Axis ==
  ASSUME NEW w, NEW z, NEW a, NEW d, NEW o, NEW p, NEW b, NEW i, NEW q, NEW u, NEW n,
         Along(w, z, a, d, o, p, b, i, q, u, n)
  PROVE  /\ (u + p) * z < a * (b + w) /\ a * b <= (u + p) * z
         /\ Lands(PutAt(n, d, a), o, w, q, u, i)
<1> /\ w \in Nat \ {0} /\ z \in Nat \ {0} /\ a \in Nat /\ d \in Nat /\ o \in Nat /\ o + w <= d
    /\ p \in Nat /\ b \in Nat /\ i \in Nat \ {0}
    /\ z * p <= a * b /\ a * b <= z * (p + i - 1)
    /\ q = (w * a) \div z /\ u \in (i - 1)..(q - 1)
    /\ n = o * a - a * b + (u + p) * z
  BY DEF Along
<1> DEFINE e == (u + p) * z - a * b
           v == e \div a
           put == (n * (d - 1)) \div (d * a)
<1>1. w * a \in Nat  OBVIOUS
<1>2. q \in Nat /\ z * q <= w * a /\ w * a < z * q + z  BY <1>1, Quotient
<1>3. q \in Nat \ {0} /\ u \in Nat /\ u <= q - 1 /\ i - 1 <= u  BY <1>2
<1>4. a \in Nat \ {0} /\ d \in Nat \ {0}
  <2>1. a # 0
    <3> SUFFICES ASSUME a = 0 PROVE FALSE  OBVIOUS
    <3>1. w * a = 0  OBVIOUS
    <3>2. z * q <= z * 0  BY <1>2, <3>1
    <3>3. q <= 0  BY <1>2, <3>2, CancelAtMost
    <3> QED BY <1>3, <3>3
  <2> QED BY <2>1
<1>5. e \in Int /\ z * (u - i + 1) <= e /\ e <= z * u
  <2>1. (u + p) * z = z * u + z * p /\ z * (p + i - 1) = z * p + z * (i - 1)
        /\ z * (u - i + 1) = z * u - z * (i - 1)
    BY <1>3
  <2>2. z * u \in Int /\ z * p \in Int /\ z * (i - 1) \in Int /\ a * b \in Int  BY <1>3
  <2> QED BY <2>1, <2>2
<1>6. e < a * w
  <2>1. z * u <= z * (q - 1)  BY <1>2, <1>3, TimesAtMost
  <2>2. z * (q - 1) = z * q - z /\ z * q \in Int /\ z * u \in Int /\ w * a = a * w
    BY <1>2, <1>3
  <2> QED BY <1>1, <1>2, <1>5, <2>1, <2>2
<1>7. e \in Nat
  <2>1. 0 <= z * (u - i + 1)
    <3>1. z * 0 <= z * (u - i + 1)  BY <1>3, TimesAtMost
    <3> QED BY <3>1
  <2>2. z * (u - i + 1) \in Int  BY <1>3
  <2> QED BY <1>5, <2>1, <2>2
<1>8. n = o * a + e /\ o * a \in Nat /\ a * b \in Nat /\ (u + p) * z \in Nat  BY <1>3
<1>9. /\ (u + p) * z < a * (b + w) /\ a * b <= (u + p) * z
  <2>1. a * (b + w) = a * b + a * w /\ a * w \in Int  OBVIOUS
  <2> QED BY <1>6, <1>7, <1>8, <2>1
<1> HIDE DEF e
<1>10. v \in Nat /\ a * v <= e /\ e < a * v + a  BY <1>4, <1>7, Quotient
<1> HIDE DEF v
<1>11. n \in Nat /\ n < d * a
  <2>1. a * (o + w) <= a * d  BY TimesAtMost
  <2>2. a * (o + w) = o * a + a * w /\ a * d = d * a /\ a * w \in Int /\ d * a \in Int  OBVIOUS
  <2> QED BY <1>6, <1>7, <1>8, <2>1, <2>2
<1>12. a * (o + v) <= n /\ n < a * (o + v) + a
  <2>1. a * (o + v) = o * a + a * v /\ a * v \in Int  BY <1>10
  <2> QED BY <1>7, <1>8, <1>10, <2>1
<1>13. (o + v) - put \in 0..1
  <2> o + v \in Nat  BY <1>10
  <2> QED BY <1>4, <1>11, <1>12, Beside
<1> HIDE DEF put
<1>14. put \in Int /\ put <= o + v /\ o + v - 1 <= put
  <2>1. put \in Int  BY <1>4, <1>11 DEF put
  <2> QED BY <1>10, <1>13, <2>1
<1>15. \E u1 \in 0..(q - 1) : u1 \in (u - i)..(u + i) /\ (u1 * w) \div q <= v
  <2>1. CASE u < i
    <3>1. (0 * w) \div q = 0  BY <1>3
    <3>2. 0 \in 0..(q - 1) /\ 0 \in (u - i)..(u + i)  BY <1>3, <2>1
    <3> QED BY <1>10, <3>1, <3>2
  <2>2. CASE u >= i
    <3> DEFINE c == u - i
               s == (c * w) \div q
    <3>1. c \in Nat /\ c <= q - 1 /\ c \in (u - i)..(u + i) /\ c \in 0..(q - 1)
      BY <1>3, <2>2
    <3>2. z * (c + 1) <= e  BY <1>5
    <3> HIDE DEF c
    <3>3. s \in Nat /\ q * s <= c * w
      <4>1. c * w \in Nat  BY <3>1
      <4> QED BY <1>3, <4>1, Quotient
    <3> HIDE DEF s
    <3>4. s <= v
      <4> SUFFICES ASSUME v + 1 <= s PROVE FALSE  BY <1>10, <3>3
      <4>1. q * (v + 1) <= c * w
        <5>1. q * (v + 1) <= q * s  BY <1>3, <1>10, <3>3, TimesAtMost
        <5>2. q * (v + 1) \in Int /\ q * s \in Int /\ c * w \in Int  BY <1>3, <1>10, <3>1, <3>3
        <5> QED BY <3>3, <5>1, <5>2
      <4>2. z * (c + 1) < a * (v + 1)
        <5>1. a * (v + 1) = a * v + a /\ a * v \in Int /\ z * (c + 1) \in Int  BY <1>10, <3>1
        <5> QED BY <1>7, <1>10, <3>2, <5>1
      <4>3. q * (z * (c + 1)) < q * (a * (v + 1))
        BY <1>3, <1>10, <3>1, <4>2, TimesLess
      <4>4. a * (q * (v + 1)) <= a * (c * w)
        BY <1>3, <1>10, <3>1, <4>1, TimesAtMost
      <4>5. c * (w * a) <= c * (z * q + z)
        BY <1>1, <1>2, <3>1, TimesAtMost
      <4>6. q * (a * (v + 1)) = a * (q * (v + 1)) /\ a * (c * w) = c * (w * a)
        BY <1>3, <1>10, <3>1
      <4>7. q * (z * (c + 1)) < c * (z * q + z)
        <5>1. /\ q * (z * (c + 1)) \in Int /\ a * (q * (v + 1)) \in Int
              /\ c * (w * a) \in Int /\ c * (z * q + z) \in Int
          BY <1>3, <1>10, <3>1
        <5> QED BY <4>3, <4>4, <4>5, <4>6, <5>1
      <4>8. q * (z * (c + 1)) = z * (q * c + q) /\ c * (z * q + z) = z * (q * c + c)
        BY <1>3, <3>1
      <4>9. q * c + q < q * c + c
        <5>1. q * c + q \in Int /\ q * c + c \in Int  BY <1>3, <3>1
        <5> QED BY <4>7, <4>8, <5>1, CancelLess
      <4>10. q * c \in Int  BY <1>3, <3>1
      <4> QED BY <1>3, <3>1, <4>9, <4>10
    <3> QED BY <3>1, <3>4 DEF s
  <2> QED BY <1>3, <2>1, <2>2
<1>16. v <= ((u + 1) * w) \div q
  <2> DEFINE t == ((u + 1) * w) \div q
  <2>1. t \in Nat /\ (u + 1) * w < q * t + q
    <3>1. (u + 1) * w \in Nat  BY <1>3
    <3> QED BY <1>3, <3>1, Quotient
  <2> HIDE DEF t
  <2>2. v <= t
    <3> SUFFICES ASSUME t + 1 <= v PROVE FALSE  BY <1>10, <2>1
    <3>1. a * (t + 1) <= z * u
      <4>1. a * (t + 1) <= a * v  BY <1>10, <2>1, TimesAtMost
      <4>2. a * (t + 1) \in Int /\ a * v \in Int /\ z * u \in Int  BY <1>3, <1>10, <2>1
      <4> QED BY <1>5, <1>10, <4>1, <4>2
    <3>2. q * (a * (t + 1)) <= q * (z * u)
      BY <1>3, <2>1, <3>1, TimesAtMost
    <3>3. u * (z * q) <= u * (w * a)  BY <1>1, <1>2, <1>3, TimesAtMost
    <3>4. (u + 1) * w < q * (t + 1)  BY <1>3, <2>1
    <3>5. a * ((u + 1) * w) < a * (q * (t + 1))
      BY <1>3, <1>4, <2>1, <3>4, TimesLess
    <3>6. /\ q * (z * u) = u * (z * q) /\ q * (a * (t + 1)) = a * (q * (t + 1))
          /\ a * ((u + 1) * w) = u * (w * a) + a * w
      BY <1>3, <2>1
    <3>7. /\ u * (z * q) \in Int /\ u * (w * a) \in Int /\ a * (q * (t + 1)) \in Int
          /\ a * w \in Nat
      BY <1>3, <2>1
    <3> QED BY <3>2, <3>3, <3>5, <3>6, <3>7
  <2> QED BY <2>2 DEF t
<1>17. PICK u1 \in 0..(q - 1) : u1 \in (u - i)..(u + i) /\ (u1 * w) \div q <= v
  BY <1>15
<1>18. (u1 * w) \div q \in Int /\ ((u + 1) * w) \div q \in Int  BY <1>3
<1>19. put \in (o + (u1 * w) \div q - 1)..(o + ((u + 1) * w) \div q)
  BY <1>10, <1>14, <1>16, <1>17, <1>18
<1>20. u \in 0..(q - 1) /\ u \in (u - i)..(u + i)  BY <1>3
<1>21. PutAt(n, d, a) = put
  <2> DEFINE most == d * a
  <2>1. most \in Nat /\ n < most  BY <1>11
  <2>2. PutAt(n, d, a) = (Clamp(n, most) * (d - 1)) \div most  BY DEF PutAt
  <2> HIDE DEF most
  <2>3. Clamp(n, most) = n  BY <1>11, <2>1 DEF Clamp
  <2> QED BY <2>2, <2>3 DEF most, put
<1> QED BY <1>9, <1>17, <1>19, <1>20, <1>21 DEF Lands

\* A length at some scale.
LEMMA ScaledNat ==
  ASSUME NEW a \in Nat, NEW b \in Nat, NEW c \in Nat \ {0}
  PROVE  (a * b) \div c \in Nat
<1> a * b \in Nat  OBVIOUS
<1> QED BY Quotient

\* A picture with sizes.
Painted(pic) ==
  /\ pic.x \in Int /\ pic.w \in Nat /\ pic.h \in Nat
  /\ pic.of.x \in Nat /\ pic.of.y \in Nat /\ pic.of.w \in Nat /\ pic.of.h \in Nat

\* What PointsWhereSeen says of a position in picture i.
Met(pic, x, y, i) ==
  \E x1, x2 \in (x - i)..(x + i), y1, y2 \in (y - 1)..(y + 1) :
    /\ Inside(pic, x1, y1) /\ Inside(pic, x2, y2)
    /\ LET low == Seen(pic, x1, y1)  high == Seen(pic, x2 + 1, y2 + 1) IN
       \A k \in 1..2 : Injected(x, y)[k] \in (low[k] - 1)..high[k]

\* Landing along both sides is what PointsWhereSeen asks for.
LEMMA LandsIsMet ==
  ASSUME NEW pic, Painted(pic), fit.top \in Int, NEW x \in Int, NEW y \in Int, NEW i \in Nat,
         Lands(Injected(x, y)[1], pic.of.x, pic.of.w, pic.w, x - pic.x, i),
         Lands(Injected(x, y)[2], pic.of.y, pic.of.h, pic.h, y - fit.top, 1)
  PROVE  Met(pic, x, y, i)
<1> DEFINE put == Injected(x, y)
<1> HIDE DEF put
<1>1. PICK u1 \in 0..(pic.w - 1), u2 \in 0..(pic.w - 1) :
        /\ u1 \in (x - pic.x - i)..(x - pic.x + i) /\ u2 \in (x - pic.x - i)..(x - pic.x + i)
        /\ put[1] \in (pic.of.x + (u1 * pic.of.w) \div pic.w - 1)
                        ..(pic.of.x + ((u2 + 1) * pic.of.w) \div pic.w)
  BY Zenon DEF Lands, put
<1>2. PICK v1 \in 0..(pic.h - 1), v2 \in 0..(pic.h - 1) :
        /\ v1 \in (y - fit.top - 1)..(y - fit.top + 1)
        /\ v2 \in (y - fit.top - 1)..(y - fit.top + 1)
        /\ put[2] \in (pic.of.y + (v1 * pic.of.h) \div pic.h - 1)
                        ..(pic.of.y + ((v2 + 1) * pic.of.h) \div pic.h)
  BY Zenon DEF Lands, put
<1> DEFINE x1 == pic.x + u1
           x2 == pic.x + u2
           y1 == fit.top + v1
           y2 == fit.top + v2
<1>3. /\ x1 \in (x - i)..(x + i) /\ x2 \in (x - i)..(x + i)
      /\ y1 \in (y - 1)..(y + 1) /\ y2 \in (y - 1)..(y + 1)
  BY <1>1, <1>2 DEF Painted
<1>4. Inside(pic, x1, y1) /\ Inside(pic, x2, y2)
  BY <1>1, <1>2 DEF Painted, Inside
<1>5. /\ x1 - pic.x = u1 /\ (x2 + 1) - pic.x = u2 + 1
      /\ y1 - fit.top = v1 /\ (y2 + 1) - fit.top = v2 + 1
  BY <1>1, <1>2 DEF Painted
<1> HIDE DEF x1, x2, y1, y2
<1>6. /\ Seen(pic, x1, y1)[1] = pic.of.x + (u1 * pic.of.w) \div pic.w
      /\ Seen(pic, x1, y1)[2] = pic.of.y + (v1 * pic.of.h) \div pic.h
      /\ Seen(pic, x2 + 1, y2 + 1)[1] = pic.of.x + ((u2 + 1) * pic.of.w) \div pic.w
      /\ Seen(pic, x2 + 1, y2 + 1)[2] = pic.of.y + ((v2 + 1) * pic.of.h) \div pic.h
  BY <1>5 DEF Seen, Scaled
<1>7. /\ (u1 * pic.of.w) \div pic.w \in Int /\ (v1 * pic.of.h) \div pic.h \in Int
      /\ ((u2 + 1) * pic.of.w) \div pic.w \in Int /\ ((v2 + 1) * pic.of.h) \div pic.h \in Int
  <2>1. /\ pic.w \in Nat \ {0} /\ pic.h \in Nat \ {0} /\ pic.of.w \in Nat /\ pic.of.h \in Nat
        /\ u1 \in Nat /\ v1 \in Nat /\ u2 + 1 \in Nat /\ v2 + 1 \in Nat
    BY <1>1, <1>2 DEF Painted
  <2>2. (u1 * pic.of.w) \div pic.w \in Nat  BY <2>1, ScaledNat
  <2>3. (v1 * pic.of.h) \div pic.h \in Nat  BY <2>1, ScaledNat
  <2>4. ((u2 + 1) * pic.of.w) \div pic.w \in Nat  BY <2>1, ScaledNat
  <2>5. ((v2 + 1) * pic.of.h) \div pic.h \in Nat  BY <2>1, ScaledNat
  <2> QED BY <2>2, <2>3, <2>4, <2>5
<1>8. \A k \in 1..2 : put[k] \in (Seen(pic, x1, y1)[k] - 1)..Seen(pic, x2 + 1, y2 + 1)[k]
  <2>1. \A k \in 1..2 : k = 1 \/ k = 2  OBVIOUS
  <2>2. /\ put[1] \in (Seen(pic, x1, y1)[1] - 1)..Seen(pic, x2 + 1, y2 + 1)[1]
        /\ put[2] \in (Seen(pic, x1, y1)[2] - 1)..Seen(pic, x2 + 1, y2 + 1)[2]
    BY <1>1, <1>2, <1>6, <1>7 DEF Painted
  <2> QED BY <2>1, <2>2
<1> QED BY <1>3, <1>4, <1>8 DEF Met, put

\* The monitors of the desktop.
Monitors == {desktop[i] : i \in 1..Len(desktop)}

\* What the viewer shows is what it was given, fitted into the widget it has; the
\* server captures one monitor, which it was started with, or the whole desktop.
GeometryKept ==
  /\ desktop \in Desktops /\ widget \in Widgets
  /\ regions \in Seq(Monitors)
  /\ captured \in {desktop[1], Whole(desktop)}
  /\ injects = SizeOf(captured) \/ captured = Whole(desktop)
  /\ fit = Fitted(regions, remote, widget)

\* The whole desktop holds every monitor.
LEMMA WholeDesktop ==
  ASSUME desktop \in Desktops
  PROVE  /\ Whole(desktop) \in Region /\ Whole(desktop).x = 0 /\ Whole(desktop).y = 0
         /\ Monitors \subseteq Region /\ desktop[1] \in Monitors
         /\ \A r \in Monitors : r.x + r.w <= Whole(desktop).w /\ r.y + r.h <= Whole(desktop).h
<1>1. desktop \in Seq(Region) /\ desktop # <<>>  BY GeometryAssumption
<1>2. Len(desktop) \in Nat \ {0} /\ \A i \in 1..Len(desktop) : desktop[i] \in Region
  BY <1>1
<1> DEFINE xs == [i \in 1..Len(desktop) |-> desktop[i].x + desktop[i].w]
           ys == [i \in 1..Len(desktop) |-> desktop[i].y + desktop[i].h]
<1>3. ASSUME NEW i \in 1..Len(desktop)
      PROVE  /\ xs[i] = desktop[i].x + desktop[i].w /\ xs[i] \in Nat \ {0}
             /\ ys[i] = desktop[i].y + desktop[i].h /\ ys[i] \in Nat \ {0}
  BY <1>2 DEF Region
<1>4. /\ {desktop[i].x + desktop[i].w : i \in 1..Len(desktop)} = {xs[i] : i \in 1..Len(desktop)}
      /\ {desktop[i].y + desktop[i].h : i \in 1..Len(desktop)} = {ys[i] : i \in 1..Len(desktop)}
  BY <1>3
<1>5. /\ Whole(desktop).w = Max({xs[i] : i \in 1..Len(desktop)})
      /\ Whole(desktop).h = Max({ys[i] : i \in 1..Len(desktop)})
      /\ Whole(desktop).x = 0 /\ Whole(desktop).y = 0
      /\ Whole(desktop) = [x |-> 0, y |-> 0, w |-> Whole(desktop).w, h |-> Whole(desktop).h]
  BY <1>4 DEF Whole
<1>6. xs \in [1..Len(desktop) -> Nat] /\ ys \in [1..Len(desktop) -> Nat]  BY <1>3
<1> HIDE DEF xs, ys
<1>7. PICK j \in 1..Len(desktop) :
        Whole(desktop).w = xs[j] /\ \A k \in 1..Len(desktop) : xs[k] <= xs[j]
  BY <1>2, <1>5, <1>6, Largest
<1>8. PICK l \in 1..Len(desktop) :
        Whole(desktop).h = ys[l] /\ \A k \in 1..Len(desktop) : ys[k] <= ys[l]
  BY <1>2, <1>5, <1>6, Largest
<1>9. Whole(desktop).w \in Nat \ {0} /\ Whole(desktop).h \in Nat \ {0}
  BY <1>3, <1>7, <1>8
<1>10. \A r \in Monitors : r.x + r.w <= Whole(desktop).w /\ r.y + r.h <= Whole(desktop).h
  BY <1>3, <1>7, <1>8 DEF Monitors
<1>11. Monitors \subseteq Region /\ desktop[1] \in Monitors
  BY <1>2 DEF Monitors
<1>12. Whole(desktop) \in Region
  <2> DEFINE r == Whole(desktop)
  <2> HIDE DEF r
  <2>1. r = [x |-> 0, y |-> 0, w |-> r.w, h |-> r.h] /\ r.w \in Nat \ {0} /\ r.h \in Nat \ {0}
    BY <1>5, <1>9 DEF r
  <2>2. r \in Region  BY <2>1 DEF Region
  <2> QED BY <2>2 DEF r
<1> QED BY <1>5, <1>10, <1>11, <1>12

\* Monitors side by side.
LEMMA SideBySide ==
  ASSUME NEW rs \in Seq(Region), rs # <<>>
  PROVE  /\ Composite(rs) \in Size
         /\ Composite(rs).w = Widths(rs)[Len(rs)]
         /\ Widths(rs)[0] = 0
         /\ \A n \in 0..Len(rs) : Widths(rs)[n] \in Nat
         /\ \A n \in 1..Len(rs) : Widths(rs)[n] = Widths(rs)[n - 1] + rs[n].w
         /\ \A n \in 0..Len(rs) : \A k \in 0..n : Widths(rs)[k] <= Widths(rs)[n]
<1> DEFINE L == Len(rs)
           ns == [i \in 1..L |-> rs[i].w]
           hs == [i \in 1..L |-> rs[i].h]
<1>1. L \in Nat \ {0} /\ \A i \in 1..L : rs[i] \in Region  OBVIOUS
<1>2. \A i \in 1..L : rs[i].w \in Nat \ {0} /\ rs[i].h \in Nat \ {0}  BY <1>1 DEF Region
<1> HIDE DEF L
<1>3. ns \in Seq(Nat) /\ Len(ns) = L /\ \A i \in 1..L : ns[i] = rs[i].w
  <2>1. ns \in [1..L -> Nat]  BY <1>2
  <2> QED BY <1>1, <2>1
<1>4. hs \in [1..L -> Nat] /\ \A i \in 1..L : hs[i] = rs[i].h  BY <1>2
<1>5. {rs[i].h : i \in 1..L} = {hs[i] : i \in 1..L}  BY <1>4
<1>6. Widths(rs) = Sums(ns)  BY DEF Widths, L
<1> HIDE DEF ns, hs
<1>7. /\ Sums(ns)[0] = 0
      /\ \A n \in 0..L : Sums(ns)[n] \in Nat
      /\ \A n \in 1..L : Sums(ns)[n] = Sums(ns)[n - 1] + ns[n]
  BY <1>3, SumsStep, SumsNat
<1>8. \A n \in 0..L : \A k \in 0..n : Sums(ns)[k] <= Sums(ns)[n]
  BY <1>3, SumsGrow
<1>9. Max({hs[i] : i \in 1..L}) \in Nat \ {0}
  <2>1. PICK j \in 1..L : Max({hs[i] : i \in 1..L}) = hs[j]  BY <1>1, <1>4, Largest
  <2> QED BY <1>2, <1>4, <2>1
<1>10. Sums(ns)[L] \in Nat \ {0}
  <2>1. L \in 1..L /\ L - 1 \in 0..L /\ L \in 0..L  BY <1>1
  <2>2. Sums(ns)[L - 1] \in Nat /\ ns[L] \in Nat \ {0} /\ Sums(ns)[L] = Sums(ns)[L - 1] + ns[L]
    BY <1>2, <1>3, <1>7, <2>1
  <2> QED BY <2>2
<1>11. Composite(rs) = [w |-> Sums(ns)[L], h |-> Max({hs[i] : i \in 1..L})]
  BY <1>5, <1>6 DEF Composite, L
<1>12. Composite(rs) \in Size /\ Composite(rs).w = Widths(rs)[L]
  <2> DEFINE W == Sums(ns)[L]
             H == Max({hs[i] : i \in 1..L})
  <2>1. W \in Nat \ {0} /\ H \in Nat \ {0} /\ Composite(rs) = [w |-> W, h |-> H]
    BY <1>9, <1>10, <1>11
  <2>2. Widths(rs)[L] = W  BY <1>6
  <2> HIDE DEF W, H
  <2> QED BY <2>1, <2>2 DEF Size
<1> QED BY <1>3, <1>6, <1>7, <1>8, <1>12 DEF L

\* What is shown and how large.
LEMMA FittedShape ==
  ASSUME NEW rs \in Seq(Region), NEW r \in Size, NEW v \in Size
  PROVE  LET f == Fitted(rs, r, v) IN
         /\ f.of = (IF rs = <<>> THEN r ELSE Composite(rs)) /\ f.of \in Size
         /\ f.as.w \in Nat /\ f.as.h \in Nat /\ f.left \in Int /\ f.top \in Int
<1> DEFINE src == IF rs = <<>> THEN r ELSE Composite(rs)
           tall == [w |-> (v.h * src.w) \div src.h, h |-> v.h]
           broad == [w |-> v.w, h |-> (v.w * src.h) \div src.w]
           as == IF v.w * src.h > v.h * src.w THEN tall ELSE broad
<1>1. src \in Size  BY SideBySide
<1>2. Fitted(rs, r, v) =
        [of |-> src, as |-> as, left |-> (v.w - as.w) \div 2, top |-> (v.h - as.h) \div 2]
  BY DEF Fitted
<1> HIDE DEF src
<1>3. /\ src.w \in Nat \ {0} /\ src.h \in Nat \ {0} /\ v.w \in Nat /\ v.h \in Nat
  BY <1>1 DEF Size
<1>4. (v.h * src.w) \div src.h \in Nat /\ (v.w * src.h) \div src.w \in Nat
  <2>1. (v.h * src.w) \div src.h \in Nat  BY <1>3, ScaledNat
  <2>2. (v.w * src.h) \div src.w \in Nat  BY <1>3, ScaledNat
  <2> QED BY <2>1, <2>2
<1>5. tall.w \in Nat /\ tall.h \in Nat /\ broad.w \in Nat /\ broad.h \in Nat  BY <1>3, <1>4
<1> HIDE DEF tall, broad
<1>6. as.w \in Nat /\ as.h \in Nat  BY <1>5
<1> HIDE DEF as
<1>7. (v.w - as.w) \div 2 \in Int /\ (v.h - as.h) \div 2 \in Int
  <2>1. \A m, n \in Nat : (m - n) \div 2 \in Int
    <3> TAKE m, n \in Nat
    <3> DEFINE k == m - n
    <3>1. k \in Int  OBVIOUS
    <3> HIDE DEF k
    <3>2. k \div 2 \in Int  BY <3>1
    <3> QED BY <3>2 DEF k
  <2> QED BY <1>3, <1>6, <2>1, Zenon
<1> DEFINE f == Fitted(rs, r, v)
<1> HIDE DEF f
<1>8. f = [of |-> src, as |-> as, left |-> (v.w - as.w) \div 2, top |-> (v.h - as.h) \div 2]
  BY <1>2 DEF f
<1>9. /\ f.of = src /\ f.of \in Size
      /\ f.as.w \in Nat /\ f.as.h \in Nat /\ f.left \in Int /\ f.top \in Int
  BY <1>1, <1>6, <1>7, <1>8
<1> QED BY <1>9, Zenon DEF f, src

\* The premise of PointsWhereSeen.
WholeMeasured == injects = SizeOf(Whole(desktop)) /\ remote = injects

\* Both sides measure with the whole desktop.
LEMMA Measures ==
  ASSUME GeometryKept, WholeMeasured
  PROVE  /\ injects.w = Whole(desktop).w /\ injects.h = Whole(desktop).h
         /\ captured.w = injects.w /\ captured.h = injects.h
         /\ injects.w \in Nat \ {0} /\ injects.h \in Nat \ {0}
         /\ injects \in Size
         /\ regions \in Seq(Region)
         /\ regions = <<>> => fit.of = injects
         /\ regions # <<>> => fit.of = Composite(regions)
         /\ fit.of.w \in Nat \ {0} /\ fit.of.h \in Nat \ {0}
         /\ fit.as.w \in Nat /\ fit.as.h \in Nat /\ fit.left \in Int /\ fit.top \in Int
<1>1. Whole(desktop) \in Region /\ Monitors \subseteq Region
  BY WholeDesktop DEF GeometryKept
<1>2. /\ injects = [w |-> Whole(desktop).w, h |-> Whole(desktop).h]
      /\ injects = SizeOf(captured) \/ captured = Whole(desktop)
  BY DEF GeometryKept, WholeMeasured, SizeOf
<1>3. injects \in Size  BY <1>1, <1>2 DEF Region, Size
<1>4. injects.w = Whole(desktop).w /\ injects.h = Whole(desktop).h  BY <1>2
<1>5. captured.w = injects.w /\ captured.h = injects.h  BY <1>2, <1>4 DEF SizeOf
<1>6. regions \in Seq(Region)  BY <1>1 DEF GeometryKept
<1>7. widget \in Size  BY GeometryAssumption DEF GeometryKept
<1>8. fit = Fitted(regions, injects, widget)  BY DEF GeometryKept, WholeMeasured
<1>9. /\ fit.of = (IF regions = <<>> THEN injects ELSE Composite(regions)) /\ fit.of \in Size
      /\ fit.as.w \in Nat /\ fit.as.h \in Nat /\ fit.left \in Int /\ fit.top \in Int
  BY <1>3, <1>6, <1>7, <1>8, FittedShape
<1>10. \A r \in Size : r.w \in Nat \ {0} /\ r.h \in Nat \ {0}  BY DEF Size
<1> QED BY <1>3, <1>4, <1>5, <1>6, <1>9, <1>10

\* What move_abs makes of a place.
LEMMA InjectedAt ==
  ASSUME WholeMeasured, NEW x, NEW y
  PROVE  /\ Injected(x, y)[1] = PutAt(Place(x, y)[1], injects.w, fit.as.w)
         /\ Injected(x, y)[2] = PutAt(Place(x, y)[2], injects.h, fit.as.h)
BY DEF WholeMeasured, Injected, PutAt

\* Positions from an edge on.
LEMMA Offset ==
  ASSUME NEW o \in Int, NEW n \in Int, NEW x \in o..(o + n - 1)
  PROVE  x \in Int /\ x - o \in 0..(n - 1) /\ x - o \in Nat
OBVIOUS

LEMMA OffsetFrom ==
  ASSUME NEW o \in Int, NEW n \in Int, NEW i \in Nat \ {0}, NEW x \in (o + i - 1)..(o + n - 1)
  PROVE  x \in Int /\ x - o \in (i - 1)..(n - 1) /\ x - o \in Nat
OBVIOUS

\* All of the desktop in one picture.
LEMMA OnePictureMet ==
  ASSUME GeometryKept, WholeMeasured, regions = <<>>,
         NEW i \in 1..Len(Pictures),
         NEW x \in (Pictures[i].x + i - 1)..(Pictures[i].x + Pictures[i].w - 1),
         NEW y \in fit.top..(fit.top + Pictures[i].h - 1)
  PROVE  Met(Pictures[i], x, y, i)
<1> DEFINE pic == Pictures[i]
           w == injects.w
           h == injects.h
<1>1. /\ i = 1 /\ pic.x = fit.left /\ pic.w = fit.as.w /\ pic.h = fit.as.h
      /\ pic.of.x = 0 /\ pic.of.y = 0 /\ pic.of.w = w /\ pic.of.h = h
  <2> DEFINE all == [x |-> fit.left, w |-> fit.as.w, h |-> fit.as.h,
                     of |-> [x |-> 0, y |-> 0, w |-> captured.w, h |-> captured.h]]
  <2>1. Pictures = <<all>>  BY DEF Pictures
  <2>2. i = 1 /\ pic = all  BY <2>1
  <2> HIDE DEF pic
  <2> QED BY <2>2, Measures
<1>2. /\ w \in Nat \ {0} /\ h \in Nat \ {0} /\ fit.of.w = w /\ fit.of.h = h
      /\ fit.as.w \in Nat /\ fit.as.h \in Nat /\ fit.left \in Int /\ fit.top \in Int
  BY Measures
<1> HIDE DEF pic, w, h
<1>3. x \in (pic.x + i - 1)..(pic.x + pic.w - 1) /\ y \in fit.top..(fit.top + pic.h - 1)
  BY DEF pic
<1> DEFINE u == x - pic.x
           v == y - fit.top
<1>4. x \in Int /\ y \in Int /\ u \in 0..(fit.as.w - 1) /\ v \in 0..(fit.as.h - 1)
  <2>1. /\ x \in (fit.left + 1 - 1)..(fit.left + fit.as.w - 1)
        /\ y \in fit.top..(fit.top + fit.as.h - 1)
    BY <1>1, <1>3
  <2>2. fit.left + 1 - 1 = fit.left /\ fit.as.w \in Int /\ fit.as.h \in Int  BY <1>2
  <2>3. x \in fit.left..(fit.left + fit.as.w - 1)  BY <2>1, <2>2
  <2>4. x \in Int /\ x - fit.left \in 0..(fit.as.w - 1)  BY <1>2, <2>2, <2>3, Offset, Zenon
  <2>5. y \in Int /\ y - fit.top \in 0..(fit.as.h - 1)  BY <1>2, <2>1, <2>2, Offset, Zenon
  <2> QED BY <1>1, <2>4, <2>5
<1>5. Place(x, y)[1] = u * w /\ Place(x, y)[2] = v * h
  BY <1>1, <1>2 DEF Place
<1> HIDE DEF u, v
<1>6. ASSUME NEW d \in Nat \ {0}, NEW a \in Nat, NEW t \in 0..(a - 1)
      PROVE  Lands(PutAt(t * d, d, a), 0, d, a, t, 1)
  <2>1. (d * a) \div d = a
    <3>1. d * a \in Nat  OBVIOUS
    <3> DEFINE q == (d * a) \div d
    <3>2. q \in Nat /\ d * q <= d * a /\ d * a < d * q + d  BY <3>1, Quotient
    <3> HIDE DEF q
    <3>3. q <= a  BY <3>2, CancelAtMost
    <3>4. d * a < d * (q + 1)  BY <3>2
    <3>5. a < q + 1  BY <3>2, <3>4, CancelLess
    <3>6. q = a  BY <3>2, <3>3, <3>5
    <3> QED BY <3>6 DEF q
  <2>2. Along(d, d, a, d, 0, 0, 0, 1, a, t, t * d)
    <3>1. t \in Nat /\ t * d \in Nat /\ t * d = 0 * a - a * 0 + (t + 0) * d  OBVIOUS
    <3>2. d * 0 <= a * 0 /\ a * 0 <= d * (0 + 1 - 1) /\ 0 + d <= d  OBVIOUS
    <3>3. t \in (1 - 1)..(a - 1)  OBVIOUS
    <3> QED BY <2>1, <3>1, <3>2, <3>3 DEF Along
  <2> QED BY <2>2, Axis
<1>7. /\ Lands(Injected(x, y)[1], pic.of.x, pic.of.w, pic.w, u, i)
      /\ Lands(Injected(x, y)[2], pic.of.y, pic.of.h, pic.h, v, 1)
  BY <1>1, <1>2, <1>4, <1>5, <1>6, InjectedAt, Zenon DEF w, h
<1>8. Painted(pic)
  BY <1>1, <1>2 DEF Painted
<1>9. i \in Nat  BY <1>1
<1> QED BY <1>2, <1>4, <1>7, <1>8, <1>9, LandsIsMet, Zenon DEF pic, u, v

\* Monitors that were picked, side by side: MonitorAt finds the one that is seen.
LEMMA SomePictureMet ==
  ASSUME GeometryKept, WholeMeasured, regions # <<>>,
         NEW i \in 1..Len(Pictures),
         NEW x \in (Pictures[i].x + i - 1)..(Pictures[i].x + Pictures[i].w - 1),
         NEW y \in fit.top..(fit.top + Pictures[i].h - 1)
  PROVE  Met(Pictures[i], x, y, i)
<1> DEFINE pic == Pictures[i]
           r == regions[i]
           W == Widths(regions)
           P == Sums([k \in 1..Len(regions) |-> Scaled(regions[k].w, fit.as.w, fit.of.w)])
           p == P[i - 1]
           b == W[i - 1]
           z == fit.of.w
           a == fit.as.w
<1>1. /\ regions \in Seq(Region)
      /\ injects.w \in Nat \ {0} /\ injects.h \in Nat \ {0}
      /\ z \in Nat \ {0} /\ fit.of.h \in Nat \ {0} /\ a \in Nat /\ fit.as.h \in Nat
      /\ fit.left \in Int /\ fit.top \in Int
  BY Measures
<1>2. Len(Pictures) = Len(regions) /\ Len(regions) \in Nat \ {0} /\ i \in 1..Len(regions)
  <2>1. Len(regions) \in Nat \ {0}  BY <1>1
  <2>2. Len(Pictures) = Len(regions)  BY <2>1, SMTT(30) DEF Pictures
  <2> QED BY <2>1, <2>2
<1>3. /\ pic.x = fit.left + p /\ pic.w = Scaled(r.w, a, z)
      /\ pic.h = Scaled(r.h, fit.as.h, fit.of.h) /\ pic.of = r
  BY <1>2 DEF Pictures
<1>4. /\ r.x \in Nat /\ r.y \in Nat /\ r.w \in Nat \ {0} /\ r.h \in Nat \ {0}
      /\ r.x + r.w <= injects.w /\ r.y + r.h <= injects.h
  <2>1. regions \in Seq(Monitors) /\ desktop \in Desktops  BY DEF GeometryKept
  <2>2. r \in Monitors  BY <1>2, <2>1
  <2>3. r \in Region /\ r.x + r.w <= Whole(desktop).w /\ r.y + r.h <= Whole(desktop).h
    BY <2>1, <2>2, WholeDesktop
  <2> HIDE DEF r
  <2> QED BY <2>3, Measures DEF Region
<1>5. /\ \A n \in 0..Len(regions) : W[n] \in Nat
      /\ \A n \in 1..Len(regions) : W[n] = W[n - 1] + regions[n].w
      /\ \A n \in 0..Len(regions) : \A k \in 0..n : W[k] <= W[n]
  BY <1>1, SideBySide
<1>6. p \in Nat /\ b \in Nat /\ z * p <= a * b /\ a * b <= z * (p + i - 1)
  <2> DEFINE ns == [k \in 1..Len(regions) |-> regions[k].w]
             cut == [k \in 1..Len(ns) |-> (ns[k] * a) \div z]
             n == i - 1
  <2>1. ns \in Seq(Nat) /\ Len(ns) = Len(regions)
    <3>1. \A k \in 1..Len(regions) : regions[k].w \in Nat
      <4> TAKE k \in 1..Len(regions)
      <4>1. regions[k] \in Region  BY <1>1
      <4> QED BY <4>1 DEF Region
    <3>2. ns \in [1..Len(regions) -> Nat]  BY <3>1
    <3> QED BY <1>2, <3>2
  <2>2. W = Sums(ns) /\ P = Sums(cut)
    <3>1. cut = [k \in 1..Len(regions) |-> Scaled(regions[k].w, a, z)]  BY <2>1 DEF Scaled
    <3> QED BY <3>1 DEF Widths
  <2>3. n \in 0..Len(regions) /\ n \in Nat /\ i \in Nat /\ n + 1 = i  BY <1>2
  <2> HIDE DEF ns, W, P, a, z
  <2>4. cut \in Seq(Nat) /\ Len(cut) = Len(regions)
    <3>1. ASSUME NEW k \in 1..Len(ns) PROVE (ns[k] * a) \div z \in Nat
      <4>1. ns[k] \in Nat  BY <2>1
      <4> QED BY <1>1, <4>1, ScaledNat
    <3>2. cut \in [1..Len(ns) -> Nat]  BY <3>1
    <3> QED BY <1>2, <2>1, <3>2
  <2>5. /\ z * Sums(cut)[n] <= a * Sums(ns)[n]
        /\ a * Sums(ns)[n] <= z * (Sums(cut)[n] + n)
    <3>1. n \in 0..Len(ns)  BY <2>1, <2>3
    <3> HIDE DEF n
    <3> QED BY <1>1, <2>1, <3>1, Lost
  <2> HIDE DEF cut
  <2>6. Sums(cut)[n] \in Nat /\ Sums(ns)[n] \in Nat
    <3>1. n \in 0..Len(ns) /\ n \in 0..Len(cut)  BY <2>1, <2>3, <2>4
    <3> HIDE DEF n
    <3> QED BY <2>1, <2>4, <3>1, SumsNat
  <2>7. P[n] + n = P[n] + i - 1  BY <2>2, <2>3, <2>6
  <2> QED BY <2>2, <2>5, <2>6, <2>7
<1> HIDE DEF pic, r, W, p, b, z, a
<1>7. x \in (pic.x + i - 1)..(pic.x + pic.w - 1) /\ y \in fit.top..(fit.top + pic.h - 1)
  BY DEF pic
<1> DEFINE u == x - pic.x
           v == y - fit.top
           cx == (u + p) * z
           cy == v * fit.of.h
<1>8. pic.w \in Nat /\ pic.h \in Nat /\ pic.x \in Int
  <2>1. pic.w \in Nat
    <3> r.w \in Nat  BY <1>4
    <3> QED BY <1>1, <1>3, ScaledNat, Zenon DEF Scaled
  <2>2. pic.h \in Nat
    <3> r.h \in Nat  BY <1>4
    <3> QED BY <1>1, <1>3, ScaledNat, Zenon DEF Scaled
  <2>3. pic.x \in Int  BY <1>1, <1>3, <1>6
  <2> QED BY <2>1, <2>2, <2>3
<1>9. /\ x \in Int /\ y \in Int /\ i \in Nat \ {0}
      /\ u \in (i - 1)..(pic.w - 1) /\ v \in 0..(pic.h - 1) /\ u \in Nat /\ v \in Nat
      /\ u + p = x - fit.left
  <2>1. i \in Nat \ {0} /\ pic.w \in Int /\ pic.h \in Int  BY <1>2, <1>8
  <2>2. x \in Int /\ u \in (i - 1)..(pic.w - 1) /\ u \in Nat
    BY <1>7, <1>8, <2>1, OffsetFrom, Zenon
  <2>3. y \in Int /\ v \in 0..(pic.h - 1) /\ v \in Nat
    BY <1>1, <1>7, <2>1, Offset, Zenon
  <2>4. u + p = x - fit.left  BY <1>1, <1>3, <1>6, <2>2, SMTT(30)
  <2> QED BY <2>1, <2>2, <2>3, <2>4
<1> HIDE DEF u, v
<1>10. cx \in Nat /\ cy \in Nat
  <2>1. u + p \in Nat  BY <1>6, <1>9
  <2>2. \A j, k \in Nat : j * k \in Nat  OBVIOUS
  <2>3. z \in Nat /\ fit.of.h \in Nat  BY <1>1
  <2> QED BY <1>9, <2>1, <2>2, <2>3, Zenon
<1>11. Along(r.w, z, a, injects.w, r.x, p, b, i, pic.w, u, r.x * a - a * b + cx)
  BY <1>1, <1>3, <1>4, <1>6, <1>9 DEF Along, Scaled
<1>12. /\ cx < a * (b + r.w) /\ a * b <= cx
       /\ Lands(PutAt(r.x * a - a * b + cx, injects.w, a), r.x, r.w, pic.w, u, i)
  BY <1>11, Axis, Zenon
<1>13. Lands(PutAt(r.y * fit.as.h + cy, injects.h, fit.as.h), r.y, r.h, pic.h, v, 1)
  <2> DEFINE n == r.y * fit.as.h + cy
             c == fit.as.h
             m == fit.of.h
  <2>1. /\ c \in Nat /\ m \in Nat \ {0} /\ r.y \in Nat /\ v \in Nat /\ cy = v * m
        /\ pic.h = (r.h * c) \div m
    BY <1>1, <1>3, <1>4, <1>9 DEF Scaled
  <2>2. n = r.y * c - c * 0 + (v + 0) * m
    <3> HIDE DEF c, m
    <3>1. r.y * c \in Nat /\ c * 0 = 0 /\ v + 0 = v  BY <2>1
    <3> QED BY <1>10, <2>1, <3>1 DEF c
  <2>3. m * 0 <= c * 0 /\ c * 0 <= m * (0 + 1 - 1)  BY <2>1
  <2>4. v \in (1 - 1)..(pic.h - 1)  BY <1>9
  <2>5. Along(r.h, m, c, injects.h, r.y, 0, 0, 1, pic.h, v, n)
    <3> HIDE DEF n, c, m
    <3>1. /\ r.h \in Nat \ {0} /\ injects.h \in Nat /\ r.y + r.h <= injects.h
          /\ 0 \in Nat /\ 1 \in Nat \ {0}
      BY <1>1, <1>4
    <3> QED BY <2>1, <2>2, <2>3, <2>4, <3>1, Zenon DEF Along
  <2> HIDE DEF n
  <2>6. Lands(PutAt(n, injects.h, c), r.y, r.h, pic.h, v, 1)  BY <2>5, Axis, Zenon
  <2> QED BY <2>6 DEF n
<1>14. MonitorAt(cx) = i
  <2> DEFINE hit == {k \in 1..Len(regions) : cx < W[k] * a}
  <2>1. i - 1 \in 0..Len(regions) /\ W[i] = b + r.w /\ W[i] \in Nat
    BY <1>2, <1>5 DEF b, r
  <2> HIDE DEF cx
  <2>2. i \in hit
    <3>1. W[i] * a = a * (b + r.w)  BY <1>1, <1>4, <1>6, <2>1
    <3> QED BY <1>2, <1>12, <3>1
  <2>3. ASSUME NEW k \in hit PROVE i <= k
    <3>1. k \in 1..Len(regions) /\ cx < W[k] * a  OBVIOUS
    <3> SUFFICES ASSUME k <= i - 1 PROVE FALSE  BY <1>2, <3>1
    <3>2. k \in 0..(i - 1) /\ k \in 0..Len(regions)  BY <1>2, <3>1
    <3>3. W[k] <= b /\ W[k] \in Nat  BY <1>5, <2>1, <3>2 DEF b
    <3>4. a * W[k] <= a * b  BY <1>1, <1>6, <3>3, TimesAtMost
    <3>5. \A j, l \in Nat : j * l = l * j /\ j * l \in Nat  OBVIOUS
    <3>6. a * W[k] = W[k] * a /\ a * W[k] \in Nat /\ a * b \in Nat
      BY <1>1, <1>6, <3>3, <3>5, Zenon
    <3>7. cx < a * W[k]  BY <3>1, <3>6
    <3> HIDE DEF hit
    <3> QED BY <1>10, <1>12, <3>4, <3>6, <3>7
  <2>4. \A k \in hit : k \in Nat  BY <1>2
  <2>5. MonitorAt(cx) = Min(hit)
    BY <2>2 DEF MonitorAt, W, a
  <2>6. Min(hit) \in hit /\ \A k \in hit : Min(hit) <= k
    <3> HIDE DEF hit
    <3> QED BY <2>2, <2>3, Zenon DEF Min
  <2>7. i \in Nat  BY <1>9
  <2> HIDE DEF hit
  <2>8. Min(hit) \in Nat /\ i <= Min(hit) /\ Min(hit) <= i  BY <2>2, <2>3, <2>4, <2>6
  <2> QED BY <2>5, <2>7, <2>8
<1>15. /\ Place(x, y)[1] = (r.x - b) * a + cx
       /\ Place(x, y)[2] = r.y * fit.as.h + cy
  <2>1. i # 0  BY <1>9
  <2>2. /\ (x - fit.left) * fit.of.w = cx /\ (y - fit.top) * fit.of.h = cy
    BY <1>9 DEF z, v
  <2> HIDE DEF cx, cy
  <2> QED BY <1>14, <2>1, <2>2 DEF Place, Before, W, b, r, a
<1>16. (r.x - b) * a + cx = r.x * a - a * b + cx
  <2>1. (r.x - b) * a = r.x * a - a * b  BY <1>1, <1>4, <1>6, SMTT(30)
  <2> QED BY <2>1
<1>17. /\ Lands(Injected(x, y)[1], pic.of.x, pic.of.w, pic.w, u, i)
       /\ Lands(Injected(x, y)[2], pic.of.y, pic.of.h, pic.h, v, 1)
  BY <1>3, <1>12, <1>13, <1>15, <1>16, InjectedAt, Zenon DEF a
<1>18. Painted(pic)
  BY <1>3, <1>4, <1>8 DEF Painted
<1>19. i \in Nat  BY <1>9
<1> QED BY <1>1, <1>9, <1>17, <1>18, <1>19, LandsIsMet, Zenon DEF pic, u, v

\* GeometryKept is inductive.
LEMMA GeometryKeptAtFirst ==
  ASSUME GeometryInit
  PROVE  GeometryKept
<1>1. PICK d \in Desktops : \E start \in {Whole(d), d[1]} :
        /\ desktop = d /\ captured = start
        /\ injects = SizeOf(start) /\ remote = SizeOf(start)
        /\ regions = <<>>
        /\ widget \in Widgets
        /\ fit = Fitted(regions, remote, widget)
  BY DEF GeometryInit
<1>2. regions \in Seq(Monitors)  BY <1>1
<1> QED BY <1>1, <1>2 DEF GeometryKept

LEMMA GeometryKeptStep ==
  ASSUME GeometryKept, [GeometryNext]_geometryVars
  PROVE  GeometryKept'
<1>1. CASE SetRemoteSize
  BY <1>1 DEF GeometryKept, Monitors, SetRemoteSize, UpdateScaling
<1>2. CASE SetMonitorRegions
  <2>1. PICK picked \in SUBSET (1..Len(desktop)) :
          \E ids \in [1..Cardinality(picked) -> picked] :
            regions' = [i \in DOMAIN ids |-> desktop[ids[i]]]
    BY <1>2 DEF SetMonitorRegions
  <2>2. PICK ids \in [1..Cardinality(picked) -> picked] :
          regions' = [i \in DOMAIN ids |-> desktop[ids[i]]]
    BY <2>1
  <2>3. Cardinality(picked) \in Nat
    <3>1. desktop \in Seq(Region)  BY GeometryAssumption DEF GeometryKept
    <3>2. IsFiniteSet(1..Len(desktop))  BY <3>1, FS_Interval
    <3> QED BY <3>2, FS_Subset, FS_CardinalityType
  <2>4. regions' \in [1..Cardinality(picked) -> Monitors]
    <3>1. \A i \in 1..Cardinality(picked) : ids[i] \in 1..Len(desktop)  BY <2>1
    <3> QED BY <2>2, <3>1 DEF Monitors
  <2>5. regions' \in Seq(Monitors)  BY <2>3, <2>4
  <2>6. UNCHANGED <<desktop, injects, remote, widget>> /\ captured' = Whole(desktop)
        /\ fit' = Fitted(regions', remote', widget')
    BY <1>2 DEF SetMonitorRegions, UpdateScaling
  <2>7. Monitors' = Monitors  BY <2>6 DEF Monitors
  <2>8. Whole(desktop)' = Whole(desktop)  BY <2>6 DEF Whole
  <2> QED BY <2>5, <2>6, <2>7, <2>8 DEF GeometryKept
<1>3. CASE Resize
  BY <1>3 DEF GeometryKept, Monitors, Resize, UpdateScaling
<1>4. CASE UNCHANGED geometryVars
  BY <1>4 DEF GeometryKept, Monitors, geometryVars
<1> QED BY <1>1, <1>2, <1>3, <1>4 DEF GeometryNext

\* and PointsWhereSeen follows from it.
LEMMA KeptMeansSeen ==
  ASSUME GeometryKept
  PROVE  PointsWhereSeen
<1>1. ASSUME WholeMeasured, NEW i \in 1..Len(Pictures),
             NEW x \in (Pictures[i].x + i - 1)..(Pictures[i].x + Pictures[i].w - 1),
             NEW y \in fit.top..(fit.top + Pictures[i].h - 1)
      PROVE  Met(Pictures[i], x, y, i)
  BY <1>1, OnePictureMet, SomePictureMet, Zenon
<1> QED BY <1>1, Zenon DEF PointsWhereSeen, WholeMeasured, Met

-----------------------------------------------------------------------------
(* All parts in ClientParts.                                               *)

PartsNext == [Points \/ Views \/ Bookmarked]_<<vars, geometryVars, bookmarkVars, moving>>

LEMMA PartsStep ==
  ASSUME PartsNext
  PROVE  [Next]_vars /\ [BookmarksNext]_bookmarkVars
BY DEF PartsNext, Points, Views, Bookmarked

LEMMA ReportedAtFirst ==
  ASSUME Init
  PROVE  Reported
<1>1. <<>> \in Seq(Message) /\ Len(<<>>) = 0  OBVIOUS
<1>2. \A c \in Clients : wire[c] = <<>> /\ Len(wire[c]) = 0 /\ from[c] = {}  BY DEF Init
<1>3. \A c \in Clients : Followed(c)  BY <1>2 DEF Followed, Covered
<1>4. \A c \in Clients : KeptApart(c)  BY DEF Init, KeptApart
<1> QED BY <1>1, <1>2, <1>3, <1>4 DEF Init, Reported, PointerShape

LEMMA ReportedMeansUnstuck ==
  ASSUME Reported
  PROVE  NothingStuck
<1> SUFFICES ASSUME NEW c \in Clients, wire[c] = <<>>, c \notin mixed
             PROVE  from[c] \subseteq Wanted(c)
  BY DEF NothingStuck
<1>1. from[c] \subseteq Meant(c)
  <2>1. Len(wire[c]) = 0 /\ from[c] \subseteq Desktop  BY DEF Reported, PointerShape
  <2> QED BY <2>1 DEF Reported, Followed, Covered
<1>2. swapped[c] => Right \in mouse[c]  BY DEF Reported, KeptApart
<1> QED BY <1>1, <1>2 DEF Meant, Wanted

(* Whatever the users of any number of clients do with any mouse and pen, what
   is down on the desktop once a client's messages are handled is held by its
   user (viewer.mouseReleaseEvent, tabletEvent), or he mixed pen and mouse. *)
THEOREM NothingEverStuck == PartsSpec => []NothingStuck
<1>1. PartsInit => Reported  BY ReportedAtFirst DEF PartsInit
<1>2. Reported /\ PartsNext => Reported'  BY PartsStep, ReportedStep
<1>3. Reported => NothingStuck  BY ReportedMeansUnstuck
<1> QED BY <1>1, <1>2, <1>3, PTL DEF PartsSpec, PartsNext

(* A bookmark in the file stays there until it is deleted, wherever clients die
   and writes fail (_save), unless clients overlapped or an entry was broken. *)
THEOREM BookmarksKept == PartsSpec => BookmarksSurvive
<1> DEFINE Inv == shared \/ partly \/ Sound
<1>1. PartsInit => Inv
  BY DEF PartsInit, BookmarksInit, Sound, NoFile, Idle
<1>2. Inv /\ PartsNext => Inv'
  BY PartsStep, SoundStep, HistoriesStep
<1>3. Inv /\ PartsNext =>
        [shared' \/ partly' \/ Ids(file.of) \subseteq Ids(file'.of) \cup deleted']_bookmarkVars
  BY PartsStep, SoundStep, HistoriesStep DEF Survive
<1> QED BY <1>1, <1>2, <1>3, PTL DEF PartsSpec, PartsNext, BookmarksSurvive

(* On every desktop, in every widget and whichever monitors are picked: the pointer
   is put on what is seen under it (_widget_to_remote against paintEvent and
   move_abs), to within what the cuts to whole pixels lose. *)
THEOREM PointerWhereSeen == PartsSpec => []PointsWhereSeen
<1>1. PartsInit => GeometryKept  BY GeometryKeptAtFirst DEF PartsInit
<1>2. GeometryKept /\ PartsNext => GeometryKept'
  BY GeometryKeptStep DEF PartsNext, Points, Views, Bookmarked
<1>3. GeometryKept => PointsWhereSeen  BY KeptMeansSeen
<1> QED BY <1>1, <1>2, <1>3, PTL DEF PartsSpec, PartsNext
=============================================================================
