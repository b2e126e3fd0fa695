---------------------------- MODULE Runtime_proofs ----------------------------
(***************************************************************************)
(* Proofs about what the server keeps for its users, for all values of the *)
(* constants.  A runtime's way out (SendQueue), for all sessions and queue *)
(* sizes: types, that an IDR only ever heads a queue, that a client whose  *)
(* video has a hole has an IDR coming, and that the path loses its oldest  *)
(* entries only (LossyStream).  The desktops (DesktopSessions), for all    *)
(* users, display numbers, deaths, failures and restarts: nothing of one   *)
(* escapes its cleanup, live ones are on displays of their own, and a user *)
(* comes back to his.                                                      *)
(***************************************************************************)
EXTENDS SendQueue, DesktopSessions, FiniteSetTheorems, TLAPS

(* SendQueue                                                               *)

(* Taking the head off a sequence leaves a sequence, one shorter. *)
LEMMA TailFacts ==
  ASSUME NEW S, NEW s \in Seq(S), s # <<>>
  PROVE  /\ Tail(s) \in Seq(S)
         /\ Len(Tail(s)) = Len(s) - 1
         /\ Head(s) \in S
         /\ \A i \in 1..Len(Tail(s)) : Tail(s)[i] = s[i + 1]
OBVIOUS

(* Appending leaves a sequence, one longer, with the new item last. *)
LEMMA AppendFacts ==
  ASSUME NEW S, NEW s \in Seq(S), NEW x \in S
  PROVE  /\ Append(s, x) \in Seq(S)
         /\ Len(Append(s, x)) = Len(s) + 1
         /\ Append(s, x)[Len(s) + 1] = x
         /\ \A i \in 1..Len(s) : Append(s, x)[i] = s[i]
OBVIOUS

(* What enqueue keeps of a queue is a queue with room for one more item. *)
LEMMA KeptHasRoom ==
  ASSUME TypeOK, NEW c \in Sessions, NEW k \in Items
  PROVE  /\ Kept(c, k) \in Seq(Items \cup {End})
         /\ Len(Kept(c, k)) < QMax
<1> DEFINE q == queue[c]
<1>1. q \in Seq(Items \cup {End}) /\ Len(q) <= QMax  BY DEF TypeOK
<1>2. QMax \in Nat /\ QMax > 0  BY QMaxAssumption
<1>3. CASE k = "idr"
  <2>1. Kept(c, k) = <<>>  BY <1>3 DEF Kept
  <2> QED BY <2>1, <1>2
<1>4. CASE Overflows(c, k)
  <2>1. Len(q) = QMax  BY <1>4 DEF Overflows
  <2>2. q # <<>>  BY <2>1, <1>2
  <2>3. Kept(c, k) = Tail(q)  BY <1>4 DEF Kept, Overflows
  <2> QED BY <1>1, <1>2, <2>1, <2>2, <2>3, TailFacts
<1>5. CASE k # "idr" /\ ~Overflows(c, k)
  <2>1. Kept(c, k) = q  BY <1>5 DEF Kept
  <2>2. Len(q) # QMax  BY <1>5 DEF Overflows
  <2> QED BY <1>1, <1>2, <2>1, <2>2
<1> QED BY <1>3, <1>4, <1>5

(* Every broadcast leaves the inboxes sequences of items. *)
LEMMA BroadcastType ==
  ASSUME TypeOK, NEW k \in Items, Broadcast(k)
  PROVE  inbox' \in [Sessions -> Seq(Items)]
BY DEF TypeOK, Broadcast

(* TypeOK is an invariant: in particular no queue ever holds more than
   send_queue's maxsize. *)
THEOREM TypeCorrect == Spec => []TypeOK
<1>1. Init => TypeOK
  BY QMaxAssumption, MaxRestartsAssumption DEF Init, TypeOK, Video, Items
<1>2. TypeOK /\ [Next]_vars => TypeOK'
  <2> SUFFICES ASSUME TypeOK, [Next]_vars PROVE TypeOK'
    OBVIOUS
  <2> USE QMaxAssumption, MaxRestartsAssumption DEF conn, enc
  <2>1. CASE EmitHdr
    BY <2>1, BroadcastType DEF EmitHdr, Broadcast, TypeOK, Video, Items
  <2>2. CASE EmitIdr
    BY <2>2, BroadcastType DEF EmitIdr, Broadcast, TypeOK, Video, Items
  <2>3. CASE EmitP
    BY <2>3, BroadcastType DEF EmitP, Broadcast, TypeOK, Video, Items
  <2>4. CASE NextGop
    BY <2>4, BroadcastType DEF NextGop, Broadcast, TypeOK, Video, Items
  <2>5. CASE EncoderDies
    BY <2>5 DEF EncoderDies, TypeOK
  <2>6. CASE RestartEncoder
    BY <2>6 DEF RestartEncoder, RequestedEncoder, TypeOK, Video
  <2>7. ASSUME NEW c \in Sessions, Join(c) PROVE TypeOK'
    <3>1. PICK s \in JoinInboxes : inbox' = [inbox EXCEPT ![c] = s]
      BY <2>7 DEF Join
    <3>2. s \in Seq(Items)
      <4>1. encoder # "dead" => encoder \in Items
        BY DEF TypeOK, Items
      <4>2. /\ <<>> \in Seq(Items)
            /\ <<"ctl">> \in Seq(Items)
            /\ encoder \in Items =>
                 <<encoder>> \in Seq(Items) /\ <<encoder, "ctl">> \in Seq(Items)
        BY DEF Items
      <4> QED BY <3>1, <4>1, <4>2 DEF JoinInboxes
    <3> QED BY <2>7, <3>1, <3>2 DEF Join, RequestedEncoder, TypeOK, Video
  <2>8. ASSUME NEW c \in Sessions, WsClose(c) PROVE TypeOK'
    BY <2>8 DEF WsClose, TypeOK
  <2>9. ASSUME NEW c \in Sessions, HandlerExit(c) PROVE TypeOK'
    <3>1. clients' \in SUBSET Sessions
      BY <2>9 DEF HandlerExit, TypeOK
    <3>2. queue' \in [Sessions -> Seq(Items \cup {End})]
          /\ \A d \in Sessions : Len(queue'[d]) <= QMax
      <4>1. CASE UNCHANGED queue
        BY <4>1 DEF TypeOK
      <4>2. CASE Len(queue[c]) < QMax /\ queue' = [queue EXCEPT ![c] = Append(@, End)]
        <5>1. /\ Append(queue[c], End) \in Seq(Items \cup {End})
              /\ Len(Append(queue[c], End)) <= QMax
          BY <4>2, AppendFacts DEF TypeOK
        <5> QED BY <4>2, <5>1 DEF TypeOK
      <4> QED BY <2>9, <4>1, <4>2 DEF HandlerExit
    <3> QED BY <2>9, <3>1, <3>2 DEF HandlerExit, TypeOK
  <2>10. ASSUME NEW c \in Sessions, PushCtl(c) PROVE TypeOK'
    BY <2>10 DEF PushCtl, TypeOK, Items
  <2>11. ASSUME NEW c \in Sessions, RunEnqueue(c) PROVE TypeOK'
    <3> DEFINE k == Head(inbox[c])
    <3>1. k \in Items /\ Tail(inbox[c]) \in Seq(Items)
      BY <2>11, TailFacts DEF RunEnqueue, TypeOK
    <3>2. /\ Append(Kept(c, k), k) \in Seq(Items \cup {End})
          /\ Len(Append(Kept(c, k), k)) <= QMax
      BY <3>1, KeptHasRoom
    <3>3. queue' \in [Sessions -> Seq(Items \cup {End})]
      BY <2>11, <3>2 DEF RunEnqueue, TypeOK
    <3>4. \A d \in Sessions : Len(queue'[d]) <= QMax
      BY <2>11, <3>2 DEF RunEnqueue, TypeOK
    <3>5. drops' \in [Sessions -> 0..2]
      BY <2>11 DEF RunEnqueue, Streak, TypeOK
    <3>6. gap' \in [Sessions -> BOOLEAN]
      BY <2>11 DEF RunEnqueue, TypeOK
    <3>7. encoder' \in Video \cup {"dead"}
      BY <2>11 DEF RunEnqueue, RequestedEncoder, Video, TypeOK
    <3>8. inbox' \in [Sessions -> Seq(Items)]
      BY <2>11, <3>1 DEF RunEnqueue, TypeOK
    <3> QED BY <2>11, <3>3, <3>4, <3>5, <3>6, <3>7, <3>8 DEF RunEnqueue, TypeOK
  <2>12. ASSUME NEW c \in Sessions, SenderTake(c) PROVE TypeOK'
    <3>1. /\ Tail(queue[c]) \in Seq(Items \cup {End})
          /\ Len(Tail(queue[c])) <= QMax
      BY <2>12, TailFacts DEF SenderTake, TypeOK
    <3> QED BY <2>12, <3>1 DEF SenderTake, TypeOK
  <2>13. ASSUME NEW c \in Sessions, SenderDone(c) PROVE TypeOK'
    BY <2>13 DEF SenderDone, TypeOK
  <2>14. CASE UNCHANGED vars
    BY <2>14 DEF vars, TypeOK
  <2> QED
    BY <2>1, <2>2, <2>3, <2>4, <2>5, <2>6, <2>7, <2>8, <2>9, <2>10, <2>11, <2>12,
       <2>13, <2>14 DEF Next
<1> QED BY <1>1, <1>2, PTL DEF Spec
-----------------------------------------------------------------------------
\* IDR slices only head queues.

(* Whatever enqueue keeps of a queue, an IDR can only be its first entry, and
   nothing is kept when an IDR arrives. *)
LEMMA KeptHeads ==
  ASSUME TypeOK, IdrHeadsQueue, NEW c \in Sessions, NEW k \in Items
  PROVE  /\ \A i \in 1..Len(Kept(c, k)) : Kept(c, k)[i] = "idr" => i = 1
         /\ k = "idr" => Len(Kept(c, k)) = 0
<1>1. CASE k = "idr"
  BY <1>1 DEF Kept
<1>2. CASE Overflows(c, k)
  <2>1. Kept(c, k) = Tail(queue[c]) /\ k # "idr"
    BY <1>2 DEF Kept, Overflows
  <2>2. queue[c] \in Seq(Items \cup {End}) /\ queue[c] # <<>>
    BY <1>2, QMaxAssumption DEF Overflows, TypeOK
  <2>3. /\ Len(Tail(queue[c])) = Len(queue[c]) - 1
        /\ \A i \in 1..Len(Tail(queue[c])) : Tail(queue[c])[i] = queue[c][i + 1]
    BY <2>2, TailFacts
  <2>4. ASSUME NEW i \in 1..Len(Tail(queue[c])) PROVE Tail(queue[c])[i] # "idr"
    BY <2>2, <2>3 DEF IdrHeadsQueue
  <2> QED BY <2>1, <2>4
<1>3. CASE k # "idr" /\ ~Overflows(c, k)
  BY <1>3 DEF Kept, IdrHeadsQueue
<1> QED BY <1>1, <1>2, <1>3

(* IdrHeadsQueue is an invariant: it is inductive with TypeOK. *)
THEOREM IdrOnlyAtHead == Spec => []IdrHeadsQueue
<1>1. Init => IdrHeadsQueue
  BY DEF Init, IdrHeadsQueue
<1>2. TypeOK /\ TypeOK' /\ IdrHeadsQueue /\ [Next]_vars => IdrHeadsQueue'
  <2> SUFFICES ASSUME TypeOK, TypeOK', IdrHeadsQueue, [Next]_vars PROVE IdrHeadsQueue'
    OBVIOUS
  <2> USE DEF conn, enc
  <2>1. CASE UNCHANGED queue
    BY <2>1 DEF IdrHeadsQueue
  <2>2. ASSUME NEW c \in Sessions, HandlerExit(c) PROVE IdrHeadsQueue'
    <3>1. CASE queue' = [queue EXCEPT ![c] = Append(@, End)]
      <4>1. queue[c] \in Seq(Items \cup {End})
        BY DEF TypeOK
      <4>2. \A i \in 1..Len(Append(queue[c], End)) : Append(queue[c], End)[i] = "idr" => i = 1
        BY <4>1, AppendFacts DEF IdrHeadsQueue, End
      <4> QED BY <3>1, <4>2 DEF IdrHeadsQueue, TypeOK
    <3> QED BY <2>1, <2>2, <3>1 DEF HandlerExit
  <2>3. ASSUME NEW c \in Sessions, RunEnqueue(c) PROVE IdrHeadsQueue'
    <3> DEFINE k == Head(inbox[c])
               q == Append(Kept(c, k), k)
    <3>1. k \in Items
      BY <2>3, TailFacts DEF RunEnqueue, TypeOK
    <3>2. /\ Kept(c, k) \in Seq(Items \cup {End})
          /\ \A i \in 1..Len(Kept(c, k)) : Kept(c, k)[i] = "idr" => i = 1
          /\ k = "idr" => Len(Kept(c, k)) = 0
      BY <3>1, KeptHasRoom, KeptHeads
    <3>3. \A i \in 1..Len(q) : q[i] = "idr" => i = 1
      BY <3>1, <3>2, AppendFacts
    <3>4. queue' = [queue EXCEPT ![c] = q]
      BY <2>3 DEF RunEnqueue
    <3> QED BY <3>3, <3>4 DEF IdrHeadsQueue, TypeOK
  <2>4. ASSUME NEW c \in Sessions, SenderTake(c) PROVE IdrHeadsQueue'
    <3>1. /\ queue[c] \in Seq(Items \cup {End}) /\ queue[c] # <<>>
          /\ queue' = [queue EXCEPT ![c] = Tail(@)]
      BY <2>4 DEF SenderTake, TypeOK
    <3>2. \A i \in 1..Len(Tail(queue[c])) : Tail(queue[c])[i] = "idr" => i = 1
      BY <3>1, TailFacts DEF IdrHeadsQueue
    <3> QED BY <3>1, <3>2 DEF IdrHeadsQueue, TypeOK
  <2>5. CASE \/ EmitHdr \/ EmitIdr \/ EmitP \/ NextGop \/ EncoderDies \/ RestartEncoder
    BY <2>1, <2>5
    DEF EmitHdr, EmitIdr, EmitP, NextGop, Broadcast, EncoderDies, RestartEncoder
  <2>6. ASSUME NEW c \in Sessions, Join(c) \/ WsClose(c) \/ PushCtl(c) \/ SenderDone(c)
        PROVE  IdrHeadsQueue'
    BY <2>1, <2>6 DEF Join, WsClose, PushCtl, SenderDone
  <2>7. CASE UNCHANGED vars
    BY <2>1, <2>7 DEF vars
  <2> QED BY <2>2, <2>3, <2>4, <2>5, <2>6, <2>7 DEF Next
<1> QED BY <1>1, <1>2, TypeCorrect, PTL DEF Spec
-----------------------------------------------------------------------------
\* A hole in the video is always about to be closed.

(* The strengthening RecoveryPending needs: a session in a drop streak is
   covered as well, since only the first drop of a streak asks for an IDR;
   and before streaming starts the encoder has not got past its parameter
   sets, which is why the first client need not ask for one. *)
Covered(c) == IdrComing(c) \/ encoder = "dead"
HoleIsCovered ==
  /\ ~streaming => encoder \in {"hdr", "dead"} /\ clients = {}
  /\ \A c \in clients : gap[c] \/ drops[c] > 0 => Covered(c)

(* An IDR that waits in an inbox still waits after more has been put there. *)
LEMMA WaitingStays ==
  ASSUME NEW s \in Seq(Items), NEW x \in Items,
         (\E i \in 1..Len(s) : s[i] = "idr") \/ x = "idr"
  PROVE  \E i \in 1..Len(Append(s, x)) : Append(s, x)[i] = "idr"
<1>1. CASE x = "idr"
  <2>1. Len(s) + 1 \in 1..Len(Append(s, x)) /\ Append(s, x)[Len(s) + 1] = "idr"
    BY <1>1, AppendFacts
  <2> QED BY <2>1
<1>2. CASE \E i \in 1..Len(s) : s[i] = "idr"
  <2>1. PICK i \in 1..Len(s) : s[i] = "idr"
    BY <1>2
  <2>2. i \in 1..Len(Append(s, x)) /\ Append(s, x)[i] = "idr"
    BY <2>1, AppendFacts
  <2> QED BY <2>2
<1> QED BY <1>1, <1>2

(* It still waits after the head was taken, unless it was the head. *)
LEMMA WaitingPastHead ==
  ASSUME NEW s \in Seq(Items), s # <<>>, Head(s) # "idr",
         \E i \in 1..Len(s) : s[i] = "idr"
  PROVE  \E i \in 1..Len(Tail(s)) : Tail(s)[i] = "idr"
<1>1. PICK i \in 1..Len(s) : s[i] = "idr"
  OBVIOUS
<1>2. i # 1
  BY <1>1
<1>3. i - 1 \in 1..Len(Tail(s)) /\ Tail(s)[i - 1] = "idr"
  BY <1>1, <1>2, TailFacts
<1> QED BY <1>3

(* A broadcast keeps every client covered that was, and an IDR covers all. *)
LEMMA BroadcastCovers ==
  ASSUME TypeOK, NEW k \in Items, Broadcast(k), NEW c \in clients,
         (\E i \in 1..Len(inbox[c]) : inbox[c][i] = "idr") \/ k = "idr"
  PROVE  \E i \in 1..Len(inbox'[c]) : inbox'[c][i] = "idr"
<1>1. c \in Sessions /\ inbox[c] \in Seq(Items)
  BY DEF TypeOK
<1>2. inbox'[c] = Append(inbox[c], k)
  BY <1>1 DEF Broadcast
<1> QED BY <1>1, <1>2, WaitingStays

(* HoleIsCovered is inductive with TypeOK. *)
LEMMA HoleIsCoveredInvariant == Spec => []HoleIsCovered
<1>1. Init => HoleIsCovered
  BY DEF Init, HoleIsCovered, Video
<1>2. TypeOK /\ HoleIsCovered /\ [Next]_vars => HoleIsCovered'
  <2> SUFFICES ASSUME TypeOK, HoleIsCovered, [Next]_vars PROVE HoleIsCovered'
    OBVIOUS
  <2> USE DEF conn, enc, RequestedEncoder
  <2>1. CASE EmitHdr
    <3>1. encoder' = "idr" /\ streaming'
      BY <2>1 DEF EmitHdr, Broadcast
    <3> QED BY <3>1 DEF HoleIsCovered, Covered, IdrComing
  <2>2. CASE EmitIdr
    <3>1. streaming' /\ clients' = clients
      BY <2>2 DEF EmitIdr, Broadcast
    <3>2. \A c \in clients : \E i \in 1..Len(inbox'[c]) : inbox'[c][i] = "idr"
      BY <2>2, BroadcastCovers DEF EmitIdr, Items, Video
    <3> QED BY <3>1, <3>2 DEF HoleIsCovered, Covered, IdrComing
  <2>3. CASE EmitP
    <3>1. /\ encoder = "p" /\ Broadcast("p") /\ streaming' /\ clients' = clients
          /\ drops' = drops /\ gap' = gap
      BY <2>3 DEF EmitP, Broadcast
    <3>2. ASSUME NEW c \in clients, gap[c] \/ drops[c] > 0
          PROVE  \E i \in 1..Len(inbox'[c]) : inbox'[c][i] = "idr"
      <4>1. \E i \in 1..Len(inbox[c]) : inbox[c][i] = "idr"
        BY <3>1, <3>2 DEF HoleIsCovered, Covered, IdrComing
      <4> QED BY <3>1, <4>1, BroadcastCovers DEF Items, Video
    <3> QED BY <3>1, <3>2 DEF HoleIsCovered, Covered, IdrComing
  <2>4. CASE NextGop
    <3>1. encoder' = "idr" /\ streaming'
      BY <2>4 DEF NextGop, Broadcast
    <3> QED BY <3>1 DEF HoleIsCovered, Covered, IdrComing
  <2>5. CASE EncoderDies
    BY <2>5 DEF EncoderDies, HoleIsCovered, Covered
  <2>6. CASE RestartEncoder
    BY <2>6 DEF RestartEncoder, HoleIsCovered, Covered, IdrComing
  <2>7. ASSUME NEW c \in Sessions, Join(c) PROVE HoleIsCovered'
    <3>1. streaming' /\ clients' = clients \cup {c} /\ drops' = drops /\ gap' = gap
      BY <2>7 DEF Join
    <3>2. encoder' \in {"hdr", "dead"}
      BY <2>7 DEF Join, HoleIsCovered
    <3> QED BY <3>1, <3>2 DEF HoleIsCovered, Covered, IdrComing
  <2>8. ASSUME NEW c \in Sessions, WsClose(c) PROVE HoleIsCovered'
    BY <2>8 DEF WsClose, HoleIsCovered, Covered, IdrComing
  <2>9. ASSUME NEW c \in Sessions, HandlerExit(c) PROVE HoleIsCovered'
    BY <2>9 DEF HandlerExit, HoleIsCovered, Covered, IdrComing
  <2>10. ASSUME NEW c \in Sessions, PushCtl(c) PROVE HoleIsCovered'
    <3>1. /\ inbox' = [inbox EXCEPT ![c] = Append(@, "ctl")]
          /\ UNCHANGED <<streaming, clients, encoder, drops, gap>>
      BY <2>10 DEF PushCtl
    <3>2. ASSUME NEW d \in clients, \E i \in 1..Len(inbox[d]) : inbox[d][i] = "idr"
          PROVE  \E i \in 1..Len(inbox'[d]) : inbox'[d][i] = "idr"
      <4>1. d \in Sessions /\ inbox[d] \in Seq(Items) /\ "ctl" \in Items
        BY DEF TypeOK, Items
      <4>2. \E i \in 1..Len(Append(inbox[d], "ctl")) : Append(inbox[d], "ctl")[i] = "idr"
        BY <3>2, <4>1, WaitingStays
      <4> QED BY <3>1, <3>2, <4>1, <4>2 DEF TypeOK
    <3> QED BY <3>1, <3>2 DEF HoleIsCovered, Covered, IdrComing
  <2>11. ASSUME NEW c \in Sessions, RunEnqueue(c) PROVE HoleIsCovered'
    <3> DEFINE k == Head(inbox[c])
    <3>1. /\ k \in Items /\ inbox[c] \in Seq(Items) /\ inbox[c] # <<>>
          /\ inbox' = [inbox EXCEPT ![c] = Tail(@)]
          /\ drops' = [drops EXCEPT ![c] = Streak(c, k)]
          /\ encoder' = IF AsksForIdr(c, k) THEN "hdr" ELSE encoder
          /\ gap' = [gap EXCEPT ![c] =
                       k # "idr" /\ (@ \/ (Overflows(c, k) /\ Head(queue[c]) \in Video))]
          /\ UNCHANGED <<streaming, clients>>
      BY <2>11, TailFacts DEF RunEnqueue, TypeOK
    <3>2. CASE AsksForIdr(c, k)
      BY <3>1, <3>2 DEF HoleIsCovered, Covered, IdrComing
    <3>3. CASE ~AsksForIdr(c, k)
      <4>1. encoder' = encoder
        BY <3>1, <3>3
      <4>2. ASSUME NEW d \in clients, d # c, gap[d] \/ drops[d] > 0 PROVE Covered(d)'
        BY <3>1, <4>1, <4>2 DEF HoleIsCovered, Covered, IdrComing, TypeOK
      <4>3. ASSUME c \in clients, gap'[c] \/ drops'[c] > 0 PROVE Covered(c)'
        <5>0. /\ gap'[c] = (k # "idr"
                          /\ (gap[c] \/ (Overflows(c, k) /\ Head(queue[c]) \in Video)))
              /\ drops'[c] = Streak(c, k)
          BY <3>1 DEF TypeOK
        <5>1. k # "idr"
          <6>1. CASE gap'[c]
            BY <5>0, <6>1, Zenon
          <6>2. CASE drops'[c] > 0
            BY <5>0, <6>2 DEF Streak
          <6> QED BY <4>3, <6>1, <6>2
        <5>2. gap[c] \/ drops[c] > 0
          <6>1. CASE Overflows(c, k)
            <7>1. drops[c] # 0
              BY <3>3, <6>1 DEF AsksForIdr
            <7>2. drops \in [Sessions -> 0..2]
              BY DEF TypeOK
            <7>3. drops[c] > 0
              BY <7>1, <7>2
            <7> QED BY <7>3
          <6>2. CASE ~Overflows(c, k)
            <7>1. gap'[c] => gap[c]
              BY <5>0, <6>2, Zenon
            <7>2. drops'[c] = drops[c]
              BY <5>0, <5>1, <6>2 DEF Streak
            <7> QED BY <4>3, <7>1, <7>2
          <6> QED BY <6>1, <6>2
        <5>3. Covered(c)
          BY <4>3, <5>2 DEF HoleIsCovered
        <5>4. CASE \E i \in 1..Len(inbox[c]) : inbox[c][i] = "idr"
          <6>1. \E i \in 1..Len(Tail(inbox[c])) : Tail(inbox[c])[i] = "idr"
            BY <3>1, <5>1, <5>4, WaitingPastHead
          <6> QED BY <3>1, <6>1 DEF Covered, IdrComing, TypeOK
        <5> QED BY <4>1, <5>3, <5>4 DEF Covered, IdrComing
      <4>4. \A d \in clients : d # c => gap'[d] = gap[d] /\ drops'[d] = drops[d]
        BY <3>1 DEF TypeOK
      <4> QED BY <3>1, <4>1, <4>2, <4>3, <4>4 DEF HoleIsCovered
    <3> QED BY <3>2, <3>3
  <2>12. ASSUME NEW c \in Sessions, SenderTake(c) \/ SenderDone(c) PROVE HoleIsCovered'
    BY <2>12 DEF SenderTake, SenderDone, HoleIsCovered, Covered, IdrComing
  <2>13. CASE UNCHANGED vars
    BY <2>13 DEF vars, HoleIsCovered, Covered, IdrComing
  <2> QED
    BY <2>1, <2>2, <2>3, <2>4, <2>5, <2>6, <2>7, <2>8, <2>9, <2>10, <2>11, <2>12,
       <2>13 DEF Next
<1> QED BY <1>1, <1>2, TypeCorrect, PTL DEF Spec

(* RecoveryPending is an invariant: whatever sessions come and go, however
   their overflows interleave, no hole is left without an IDR on its way. *)
THEOREM RecoveryAlwaysPending == Spec => []RecoveryPending
<1>1. HoleIsCovered => RecoveryPending
  BY DEF HoleIsCovered, RecoveryPending, Covered
<1> QED BY <1>1, HoleIsCoveredInvariant, PTL
-----------------------------------------------------------------------------
(* SendQueue implements LossyStream                                       *)

\* A queue in which the sentinel is but once.
EndsOnce(q) == \A i, j \in 1..Len(q) : q[i] = End /\ q[j] = End => i = j

Entries == Items \cup {End}

\* Sequences are equal when their entries are.
LEMMA SameEntries ==
  ASSUME NEW S, NEW a \in Seq(S), NEW b \in Seq(S), Len(a) = Len(b),
         \A i \in 1..Len(a) : a[i] = b[i]
  PROVE  a = b
OBVIOUS

\* The sentinel is told from everything else.
LEMMA EndIsNoItem == End \notin Items
BY DEF End, Items, Video

\* Without the sentinel, a queue is its data.
LEMMA DataAll ==
  ASSUME NEW q \in Seq(Entries), \A i \in 1..Len(q) : q[i] # End
  PROVE  Data(q) = q /\ q \in Seq(Items)
BY DEF Data, Entries

\* With it, they are what stands before and behind it.
LEMMA DataAround ==
  ASSUME NEW q \in Seq(Entries), EndsOnce(q), NEW e \in 1..Len(q), q[e] = End
  PROVE  /\ Data(q) \in Seq(Items)
         /\ Len(Data(q)) = Len(q) - 1
         /\ \A i \in 1..Len(q) - 1 : Data(q)[i] = IF i < e THEN q[i] ELSE q[i + 1]
<1>1. (CHOOSE i \in 1..Len(q) : q[i] = End) = e  BY DEF EndsOnce
<1>2. Data(q) = [i \in 1..Len(q) - 1 |-> q[IF i < e THEN i ELSE i + 1]]
  BY <1>1 DEF Data
<1>3. \A i \in 1..Len(q) - 1 : q[IF i < e THEN i ELSE i + 1] \in Items
  BY DEF EndsOnce, Entries
<1>4. Len(q) - 1 \in Nat  OBVIOUS
<1> QED BY <1>2, <1>3, <1>4

\* An item goes behind the data.
LEMMA DataAppend ==
  ASSUME NEW q \in Seq(Entries), EndsOnce(q), NEW k \in Items
  PROVE  Data(Append(q, k)) = Append(Data(q), k) /\ EndsOnce(Append(q, k))
<1> DEFINE r == Append(q, k)
<1>1. r \in Seq(Entries) /\ Len(r) = Len(q) + 1 /\ r[Len(q) + 1] = k
      /\ \A i \in 1..Len(q) : r[i] = q[i]
  BY DEF Entries
<1>2. k # End  BY EndIsNoItem
<1>3. EndsOnce(r)  BY <1>1, <1>2 DEF EndsOnce
<1>4. CASE \A i \in 1..Len(q) : q[i] # End
  <2>1. \A i \in 1..Len(r) : r[i] # End  BY <1>1, <1>2, <1>4
  <2> QED BY <1>1, <1>3, <1>4, <2>1, DataAll
<1>5. ASSUME NEW e \in 1..Len(q), q[e] = End PROVE Data(r) = Append(Data(q), k)
  <2>1. e \in 1..Len(r) /\ r[e] = End  BY <1>1, <1>5
  <2>2. /\ Data(q) \in Seq(Items) /\ Len(Data(q)) = Len(q) - 1
        /\ \A i \in 1..Len(q) - 1 : Data(q)[i] = IF i < e THEN q[i] ELSE q[i + 1]
    BY <1>5, DataAround
  <2> HIDE DEF r
  <2>3. /\ Data(r) \in Seq(Items) /\ Len(Data(r)) = Len(r) - 1
        /\ \A i \in 1..Len(r) - 1 : Data(r)[i] = IF i < e THEN r[i] ELSE r[i + 1]
    BY <1>1, <1>3, <2>1, DataAround
  <2>6. Len(r) - 1 = Len(q)  BY <1>1
  <2>4. Append(Data(q), k) \in Seq(Items) /\ Len(Append(Data(q), k)) = Len(q)
    BY <2>2
  <2>5. ASSUME NEW i \in 1..Len(q) PROVE Data(r)[i] = Append(Data(q), k)[i]
    <3>1. Data(r)[i] = IF i < e THEN r[i] ELSE r[i + 1]  BY <2>3, <2>6
    <3>2. CASE i = Len(q)
      <4>1. Append(Data(q), k)[i] = k  BY <2>2, <3>2
      <4> QED BY <1>1, <3>1, <3>2, <4>1
    <3>3. CASE i # Len(q)
      <4>1. i \in 1..Len(q) - 1 /\ i \in 1..Len(q) /\ i + 1 \in 1..Len(q)  BY <3>3
      <4>2. Append(Data(q), k)[i] = Data(q)[i]  BY <2>2, <4>1
      <4> QED BY <1>1, <2>2, <3>1, <4>1, <4>2
    <3> QED BY <3>2, <3>3
  <2> QED BY <2>3, <2>4, <2>5, <2>6 DEF r
<1> QED BY <1>3, <1>4, <1>5

\* The sentinel goes behind them and adds nothing.
LEMMA DataEnd ==
  ASSUME NEW q \in Seq(Entries), \A i \in 1..Len(q) : q[i] # End
  PROVE  Data(Append(q, End)) = Data(q) /\ EndsOnce(Append(q, End))
<1> DEFINE r == Append(q, End)
<1>1. r \in Seq(Entries) /\ Len(r) = Len(q) + 1 /\ r[Len(q) + 1] = End
      /\ \A i \in 1..Len(q) : r[i] = q[i]
  BY DEF Entries
<1>2. EndsOnce(r)  BY <1>1 DEF EndsOnce
<1>3. Data(q) = q /\ q \in Seq(Items)  BY DataAll
<1>4. Len(r) \in 1..Len(r) /\ r[Len(r)] = End  BY <1>1
<1> HIDE DEF r
<1>5. /\ Data(r) \in Seq(Items) /\ Len(Data(r)) = Len(r) - 1
      /\ \A i \in 1..Len(r) - 1 : Data(r)[i] = IF i < Len(r) THEN r[i] ELSE r[i + 1]
  BY <1>1, <1>2, <1>4, DataAround
<1>6. \A i \in 1..Len(q) : Data(r)[i] = q[i]  BY <1>1, <1>5
<1>7. Data(r) = q  BY <1>1, <1>3, <1>5, <1>6
<1> QED BY <1>2, <1>3, <1>7 DEF r

\* The sentinel at the head hides the data behind it, which are without another.
LEMMA DataTailEnd ==
  ASSUME NEW q \in Seq(Entries), EndsOnce(q), q # <<>>, Head(q) = End
  PROVE  Data(q) = Data(Tail(q)) /\ EndsOnce(Tail(q))
<1>1. Tail(q) \in Seq(Entries) /\ Len(Tail(q)) = Len(q) - 1
      /\ \A i \in 1..Len(Tail(q)) : Tail(q)[i] = q[i + 1]
  BY TailFacts
<1>2. q[1] = End /\ 1 \in 1..Len(q)  OBVIOUS
<1>3. \A i \in 1..Len(Tail(q)) : Tail(q)[i] # End  BY <1>1, <1>2 DEF EndsOnce
<1>4. Data(Tail(q)) = Tail(q) /\ Tail(q) \in Seq(Items)  BY <1>1, <1>3, DataAll
<1>5. /\ Data(q) \in Seq(Items) /\ Len(Data(q)) = Len(q) - 1
      /\ \A i \in 1..Len(q) - 1 : Data(q)[i] = IF i < 1 THEN q[i] ELSE q[i + 1]
  BY <1>2, DataAround
<1>6. ASSUME NEW i \in 1..Len(q) - 1 PROVE Data(q)[i] = Tail(q)[i]
  <2>1. ~(i < 1) /\ i \in 1..Len(Tail(q))  BY <1>1
  <2> QED BY <1>1, <1>5, <2>1
<1>7. EndsOnce(Tail(q))  BY <1>3 DEF EndsOnce
<1>8. Data(q) = Tail(q)  BY <1>1, <1>4, <1>5, <1>6
<1> QED BY <1>4, <1>7, <1>8

\* An item at the head is the oldest of the data.
LEMMA DataTail ==
  ASSUME NEW q \in Seq(Entries), EndsOnce(q), q # <<>>, Head(q) # End
  PROVE  /\ Data(q) # <<>> /\ Data(Tail(q)) = Tail(Data(q))
         /\ EndsOnce(Tail(q))
<1> DEFINE r == Tail(q)
<1>1. r \in Seq(Entries) /\ Len(r) = Len(q) - 1 /\ \A i \in 1..Len(r) : r[i] = q[i + 1]
  BY TailFacts
<1>2. q[1] # End /\ 1 \in 1..Len(q)  OBVIOUS
<1>3. EndsOnce(r)  BY <1>1 DEF EndsOnce
<1> HIDE DEF r
<1>4. CASE \A i \in 1..Len(q) : q[i] # End
  <2>1. \A i \in 1..Len(r) : r[i] # End  BY <1>1, <1>4
  <2> QED BY <1>1, <1>3, <1>4, <2>1, DataAll DEF r
<1>5. ASSUME NEW e \in 1..Len(q), q[e] = End
      PROVE  Data(q) # <<>> /\ Data(r) = Tail(Data(q))
  <2>1. e # 1 /\ e - 1 \in 1..Len(r) /\ r[e - 1] = End  BY <1>1, <1>2, <1>5
  <2>2. /\ Data(q) \in Seq(Items) /\ Len(Data(q)) = Len(q) - 1
        /\ \A i \in 1..Len(q) - 1 : Data(q)[i] = IF i < e THEN q[i] ELSE q[i + 1]
    BY <1>5, DataAround
  <2>3. /\ Data(r) \in Seq(Items) /\ Len(Data(r)) = Len(r) - 1
        /\ \A i \in 1..Len(r) - 1 : Data(r)[i] = IF i < e - 1 THEN r[i] ELSE r[i + 1]
    BY <1>1, <1>3, <2>1, DataAround
  <2>4. Data(q) # <<>>  BY <2>1, <2>2
  <2>5. /\ Tail(Data(q)) \in Seq(Items) /\ Len(Tail(Data(q))) = Len(q) - 2
        /\ \A i \in 1..Len(q) - 2 : Tail(Data(q))[i] = Data(q)[i + 1]
    BY <2>2, <2>4, TailFacts
  <2>6. ASSUME NEW i \in 1..Len(r) - 1 PROVE Data(r)[i] = Tail(Data(q))[i]
    <3>0. i \in 1..Len(r) /\ i + 1 \in 1..Len(r) /\ i + 1 \in 1..Len(q) - 1
          /\ i \in 1..Len(q) - 2
      BY <1>1
    <3>1. Data(q)[i + 1] = IF i + 1 < e THEN q[i + 1] ELSE q[i + 1 + 1]
      BY <2>2, <3>0
    <3>2. Data(r)[i] = IF i < e - 1 THEN q[i + 1] ELSE q[i + 1 + 1]
      <4>1. r[i] = q[i + 1] /\ r[i + 1] = q[i + 1 + 1]  BY <1>1, <3>0
      <4> QED BY <2>3, <4>1
    <3>3. Tail(Data(q))[i] = Data(q)[i + 1]  BY <2>5, <3>0
    <3>4. i + 1 < e <=> i < e - 1  BY <1>5
    <3> HIDE DEF EndsOnce
    <3>5. CASE i + 1 < e  BY <3>1, <3>2, <3>3, <3>4, <3>5
    <3>6. CASE ~(i + 1 < e)  BY <3>1, <3>2, <3>3, <3>4, <3>6
    <3> QED BY <3>5, <3>6
  <2>7. Len(Tail(Data(q))) = Len(r) - 1  BY <1>1, <2>5
  <2>8. Data(r) = Tail(Data(q))  BY <2>3, <2>5, <2>6, <2>7, SameEntries
  <2> QED BY <2>4, <2>8
<1> QED BY <1>3, <1>4, <1>5 DEF r

\* The sentinel is put on a queue once, when handle_client has finished, and
\* nothing is scheduled for a session before it has joined.
Orderly ==
  \A c \in Sessions :
    /\ EndsOnce(queue[c])
    /\ (\E i \in 1..Len(queue[c]) : queue[c][i] = End) => phase[c] = "finished"
    /\ phase[c] = "new" => queue[c] = <<>> /\ inbox[c] = <<>> /\ c \notin clients

\* What is kept of a queue is in order, too.
LEMMA KeptData ==
  ASSUME TypeOK, Orderly, NEW c \in Sessions, NEW k \in Items
  PROVE  /\ EndsOnce(Kept(c, k))
         /\ \A i \in 1..Len(Kept(c, k)) : Kept(c, k)[i] = End =>
              \E j \in 1..Len(queue[c]) : queue[c][j] = End
         /\ \/ Data(Kept(c, k)) = Data(queue[c])
            \/ Data(queue[c]) # <<>> /\ Data(Kept(c, k)) = Tail(Data(queue[c]))
            \/ Kept(c, k) = <<>>
<1> DEFINE q == queue[c]
<1>1. q \in Seq(Entries) /\ EndsOnce(q)  BY DEF TypeOK, Orderly, Entries
<1>2. CASE k = "idr"
  <2>1. Kept(c, k) = <<>>  BY <1>2 DEF Kept
  <2> QED BY <2>1 DEF EndsOnce
<1>3. CASE k # "idr" /\ ~Overflows(c, k)
  <2>1. Kept(c, k) = q  BY <1>3 DEF Kept
  <2> QED BY <1>1, <2>1
<1>4. CASE k # "idr" /\ Overflows(c, k)
  <2>1. Kept(c, k) = Tail(q)  BY <1>4 DEF Kept
  <2>2. q # <<>>  BY <1>4, QMaxAssumption DEF Overflows
  <2>3. \A i \in 1..Len(Tail(q)) : Tail(q)[i] = q[i + 1] /\ i + 1 \in 1..Len(q)
    BY <1>1, <2>2, TailFacts
  <2> HIDE DEF q
  <2>4. CASE Head(q) = End
    <3>1. Data(q) = Data(Tail(q)) /\ EndsOnce(Tail(q))  BY <1>1, <2>2, <2>4, DataTailEnd
    <3> QED BY <2>1, <2>3, <3>1 DEF q
  <2>5. CASE Head(q) # End
    <3>1. Data(q) # <<>> /\ Data(Tail(q)) = Tail(Data(q)) /\ EndsOnce(Tail(q))
      BY <1>1, <2>2, <2>5, DataTail
    <3> QED BY <2>1, <2>3, <3>1 DEF q
  <2> QED BY <2>4, <2>5
<1> QED BY <1>2, <1>3, <1>4

\* The order of queues lasts.
LEMMA OrderlyStep ==
  ASSUME TypeOK, Orderly, [Next]_vars
  PROVE  Orderly'
<1> USE DEF conn, enc
<1>1. ASSUME NEW k \in Items, Broadcast(k) PROVE Orderly'
  BY <1>1 DEF Broadcast, Orderly
<1>2. CASE EmitHdr \/ EmitIdr \/ EmitP \/ NextGop
  BY <1>1, <1>2 DEF EmitHdr, EmitIdr, EmitP, NextGop, Items, Video
<1>3. CASE EncoderDies \/ RestartEncoder
  BY <1>3 DEF EncoderDies, RestartEncoder, Orderly
<1>4. ASSUME NEW c \in Sessions, Join(c) PROVE Orderly'
  BY <1>4 DEF Join, Orderly, TypeOK
<1>5. ASSUME NEW c \in Sessions, WsClose(c) \/ SenderDone(c) PROVE Orderly'
  BY <1>5 DEF WsClose, SenderDone, Orderly
<1>6. ASSUME NEW c \in Sessions, HandlerExit(c) PROVE Orderly'
  <2>1. phase[c] = "serving" /\ phase' = [phase EXCEPT ![c] = "finished"]
        /\ inbox' = inbox /\ clients' \subseteq clients
        /\ (queue' = queue \/ queue' = [queue EXCEPT ![c] = Append(@, End)])
    BY <1>6 DEF HandlerExit
  <2>2. queue[c] \in Seq(Entries) /\ \A i \in 1..Len(queue[c]) : queue[c][i] # End
    BY <2>1 DEF TypeOK, Orderly, Entries
  <2>3. EndsOnce(Append(queue[c], End))  BY <2>2, DataEnd
  <2>4. EndsOnce(queue'[c]) /\ phase'[c] = "finished"
    BY <2>1, <2>3 DEF TypeOK, Orderly
  <2> QED BY <2>1, <2>4 DEF TypeOK, Orderly
<1>7. ASSUME NEW c \in Sessions, PushCtl(c) PROVE Orderly'
  BY <1>7 DEF PushCtl, Orderly, TypeOK
<1>8. ASSUME NEW c \in Sessions, RunEnqueue(c) PROVE Orderly'
  <2> DEFINE k == Head(inbox[c])
             r == Kept(c, k)
  <2>1. inbox[c] # <<>> /\ inbox' = [inbox EXCEPT ![c] = Tail(@)] /\ phase' = phase
        /\ clients' = clients /\ queue' = [queue EXCEPT ![c] = Append(r, k)]
    BY <1>8 DEF RunEnqueue
  <2>2. k \in Items  BY <2>1 DEF TypeOK
  <2> HIDE DEF k
  <2>3. r \in Seq(Entries)  BY <2>2, KeptHasRoom DEF Entries
  <2>4. EndsOnce(r) /\ \A i \in 1..Len(r) : r[i] = End => phase[c] = "finished"
    BY <2>2, KeptData DEF Orderly
  <2> HIDE DEF r
  <2>5. EndsOnce(Append(r, k))  BY <2>2, <2>3, <2>4, DataAppend
  <2>6. \A i \in 1..Len(Append(r, k)) : Append(r, k)[i] = End => phase[c] = "finished"
    BY <2>2, <2>3, <2>4, EndIsNoItem
  <2>7. phase[c] # "new"  BY <2>1 DEF Orderly
  <2>8. queue'[c] = Append(r, k)  BY <2>1 DEF TypeOK
  <2> QED BY <2>1, <2>5, <2>6, <2>7, <2>8 DEF TypeOK, Orderly
<1>9. ASSUME NEW c \in Sessions, SenderTake(c) PROVE Orderly'
  <2>1. queue[c] # <<>> /\ queue' = [queue EXCEPT ![c] = Tail(@)] /\ phase' = phase
        /\ inbox' = inbox /\ clients' = clients
    BY <1>9 DEF SenderTake
  <2>2. queue[c] \in Seq(Entries) /\ EndsOnce(queue[c])  BY DEF TypeOK, Orderly, Entries
  <2>3. EndsOnce(Tail(queue[c]))  BY <2>1, <2>2, DataTail, DataTailEnd
  <2>4. \A i \in 1..Len(Tail(queue[c])) :
          i + 1 \in 1..Len(queue[c]) /\ Tail(queue[c])[i] = queue[c][i + 1]
    BY <2>1, <2>2, TailFacts
  <2>5. queue'[c] = Tail(queue[c])  BY <2>1 DEF TypeOK
  <2>6. phase[c] # "new"  BY <2>1 DEF Orderly
  <2> QED BY <2>1, <2>3, <2>4, <2>5, <2>6 DEF TypeOK, Orderly
<1>10. CASE UNCHANGED vars  BY <1>10 DEF vars, Orderly
<1> QED BY <1>2, <1>3, <1>4, <1>5, <1>6, <1>7, <1>8, <1>9, <1>10 DEF Next
-----------------------------------------------------------------------------
\* How one sequence behind another changes at their ends.
LEMMA Joined ==
  ASSUME NEW S, NEW a \in Seq(S), NEW b \in Seq(S)
  PROVE  /\ a \o b \in Seq(S) /\ <<>> \o b = b
         /\ \A k \in S : a \o Append(b, k) = Append(a \o b, k)
         /\ b # <<>> => Append(a, Head(b)) \o Tail(b) = a \o b
         /\ a # <<>> => a \o b # <<>> /\ Tail(a) \o b = Tail(a \o b)
         /\ SubSeq(a \o b, Len(a) + 1, Len(a \o b)) = b
<1>1. a \o b \in Seq(S) /\ <<>> \o b = b  OBVIOUS
<1>2. ASSUME NEW k \in S PROVE a \o Append(b, k) = Append(a \o b, k)  OBVIOUS
<1>3. ASSUME b # <<>> PROVE Append(a, Head(b)) \o Tail(b) = a \o b
  <2>1. Append(a, Head(b)) \o Tail(b) \in Seq(S)  BY <1>3
  <2>2. Len(Append(a, Head(b)) \o Tail(b)) = Len(a \o b)  BY <1>3
  <2>3. ASSUME NEW i \in 1..Len(a \o b)
        PROVE  (Append(a, Head(b)) \o Tail(b))[i] = (a \o b)[i]
    BY <1>3
  <2> QED BY <1>1, <2>1, <2>2, <2>3, SameEntries
<1>4. ASSUME a # <<>> PROVE a \o b # <<>> /\ Tail(a) \o b = Tail(a \o b)
  <2>1. Tail(a) \o b \in Seq(S) /\ Tail(a \o b) \in Seq(S) /\ a \o b # <<>>  BY <1>4
  <2>2. Len(Tail(a) \o b) = Len(Tail(a \o b))  BY <1>4
  <2>3. ASSUME NEW i \in 1..Len(Tail(a) \o b)
        PROVE  (Tail(a) \o b)[i] = Tail(a \o b)[i]
    BY <1>4
  <2> QED BY <2>1, <2>2, <2>3, SameEntries
<1>5. SubSeq(a \o b, Len(a) + 1, Len(a \o b)) = b  OBVIOUS
<1> QED BY <1>1, <1>2, <1>3, <1>4, <1>5
-----------------------------------------------------------------------------
\* What is pending is data, and only changes where a queue or an inbox does.
LEMMA PendingParts ==
  ASSUME TypeOK, Orderly
  PROVE  \A c \in Sessions :
           /\ Data(queue[c]) \in Seq(Items) /\ inbox[c] \in Seq(Items)
           /\ Pending[c] = Data(queue[c]) \o inbox[c]
           /\ Pending[c] \in Seq(Items)
<1> SUFFICES ASSUME NEW c \in Sessions
    PROVE  /\ Data(queue[c]) \in Seq(Items) /\ inbox[c] \in Seq(Items)
           /\ Pending[c] = Data(queue[c]) \o inbox[c]
           /\ Pending[c] \in Seq(Items)
  OBVIOUS
<1>1. queue[c] \in Seq(Entries) /\ EndsOnce(queue[c]) /\ inbox[c] \in Seq(Items)
  BY DEF TypeOK, Orderly, Entries
<1>2. Data(queue[c]) \in Seq(Items)  BY <1>1, DataAll, DataAround
<1>3. Pending[c] = Data(queue[c]) \o inbox[c]  BY DEF Pending
<1> QED BY <1>1, <1>2, <1>3

\* A step that leaves every other session alone.
LEMMA ElsewhereSame ==
  ASSUME NEW c \in Sessions, NEW s,
         Data(queue'[c]) \o inbox'[c] = s,
         \A d \in Sessions : d # c => queue'[d] = queue[d] /\ inbox'[d] = inbox[d]
  PROVE  Pending' = [Pending EXCEPT ![c] = s]
BY DEF Pending

\* A session that has what it had.
LEMMA NothingNew ==
  ASSUME NEW c \in Sessions, Pending' = [Pending EXCEPT ![c] = Pending[c]]
  PROVE  UNCHANGED Pending
BY DEF Pending

\* Every step of the queues is one of the stream, or none.
LEMMA StreamStep ==
  ASSUME TypeOK, Orderly, [Next]_vars
  PROVE  [Stream!Next]_Pending
<1> USE DEF conn, enc
<1>1. ASSUME NEW k \in Items, Broadcast(k) PROVE Stream!Next
  <2>1. clients \in SUBSET Sessions  BY DEF TypeOK
  <2>2. queue' = queue
        /\ inbox' = [c \in Sessions |->
                      IF c \in clients THEN Append(inbox[c], k) ELSE inbox[c]]
    BY <1>1 DEF Broadcast
  <2>3. ASSUME NEW c \in clients PROVE Pending'[c] = Append(Pending[c], k)
    <3> DEFINE a == Data(queue[c])
               b == inbox[c]
    <3>0. a \in Seq(Items) /\ b \in Seq(Items)  BY <2>1, PendingParts
    <3> HIDE DEF a, b
    <3>1. a \o Append(b, k) = Append(a \o b, k)  BY <3>0, Joined
    <3> QED BY <2>1, <2>2, <3>1 DEF Pending, a, b
  <2>4. ASSUME NEW c \in Sessions \ clients PROVE Pending'[c] = Pending[c]
    BY <2>2 DEF Pending
  <2>5. Pending' = [c \in Sessions |->
                     IF c \in clients THEN Append(Pending[c], k) ELSE Pending[c]]
    BY <2>3, <2>4 DEF Pending
  <2>6. Stream!Put(clients, k)  BY <2>5 DEF Stream!Put
  <2> QED BY <2>1, <2>6 DEF Stream!Next
<1>2. CASE EmitHdr \/ EmitIdr \/ EmitP \/ NextGop
  BY <1>1, <1>2 DEF EmitHdr, EmitIdr, EmitP, NextGop, Items, Video
<1>3. CASE UNCHANGED <<queue, inbox>>  BY <1>3 DEF Pending
<1>4. CASE EncoderDies \/ RestartEncoder
  BY <1>3, <1>4 DEF EncoderDies, RestartEncoder
<1>5. ASSUME NEW c \in Sessions, WsClose(c) \/ SenderDone(c) PROVE UNCHANGED Pending
  BY <1>3, <1>5 DEF WsClose, SenderDone, Pending
<1>6. ASSUME NEW c \in Sessions, Join(c) PROVE [Stream!Next]_Pending
  <2>1. queue[c] = <<>> /\ inbox[c] = <<>>  BY <1>6 DEF Join, Orderly
  <2>2. Pending[c] = <<>>  BY <2>1, PendingParts, DataAll DEF Pending, Data
  <2>3. PICK s \in JoinInboxes : inbox' = [inbox EXCEPT ![c] = s]  BY <1>6 DEF Join
  <2>4. queue' = queue  BY <1>6 DEF Join
  <2>5. \/ s = <<>>
        \/ \E k \in Items : s = <<k>>
        \/ \E k1, k2 \in Items : s = <<k1, k2>>
    BY <2>3 DEF JoinInboxes, TypeOK, Items, Video
  <2>6. s \in Seq(Items)
    <3>1. \A k \in Items : <<k>> \in Seq(Items)  OBVIOUS
    <3>2. \A k1, k2 \in Items : <<k1, k2>> \in Seq(Items)  OBVIOUS
    <3>3. <<>> \in Seq(Items)  OBVIOUS
    <3> QED BY <2>5, <3>1, <3>2, <3>3
  <2>7. Data(queue'[c]) \o inbox'[c] = s
    BY <2>1, <2>3, <2>4, <2>6, Joined DEF Data, TypeOK
  <2>8. Pending' = [Pending EXCEPT ![c] = s]
    BY <2>3, <2>4, <2>7, ElsewhereSame DEF TypeOK
  <2>9. CASE s = <<>>  BY <2>2, <2>8, <2>9, NothingNew
  <2>10. ASSUME NEW k \in Items, s = <<k>> PROVE Stream!Next
    <3>1. Append(<<>>, k) = s  BY <2>10
    <3>2. Pending' = [d \in Sessions |->
                       IF d \in {c} THEN Append(Pending[d], k) ELSE Pending[d]]
      BY <2>2, <2>8, <3>1 DEF Pending
    <3>3. Stream!Put({c}, k)  BY <3>2 DEF Stream!Put
    <3> QED BY <3>3 DEF Stream!Next
  <2>11. ASSUME NEW k1 \in Items, NEW k2 \in Items, s = <<k1, k2>> PROVE Stream!Next
    <3>1. Stream!Start(c, <<k1, k2>>)  BY <2>2, <2>8, <2>11 DEF Stream!Start
    <3> QED BY <3>1 DEF Stream!Next
  <2> QED BY <2>5, <2>9, <2>10, <2>11
<1>7. ASSUME NEW c \in Sessions, HandlerExit(c) PROVE UNCHANGED Pending
  <2>1. CASE queue' = queue  BY <1>7, <2>1 DEF HandlerExit, Pending
  <2>2. CASE queue' = [queue EXCEPT ![c] = Append(@, End)]
    <3>1. inbox' = inbox /\ phase[c] = "serving"  BY <1>7 DEF HandlerExit
    <3>2. queue[c] \in Seq(Entries) /\ \A i \in 1..Len(queue[c]) : queue[c][i] # End
      BY <3>1 DEF TypeOK, Orderly, Entries
    <3>3. Data(queue'[c]) = Data(queue[c])  BY <2>2, <3>2, DataEnd DEF TypeOK
    <3> QED BY <2>2, <3>1, <3>3 DEF Pending, TypeOK
  <2> QED BY <1>7, <2>1, <2>2 DEF HandlerExit
<1>8. ASSUME NEW c \in Sessions, PushCtl(c) PROVE Stream!Next
  <2>1. queue' = queue /\ inbox' = [inbox EXCEPT ![c] = Append(@, "ctl")]
    BY <1>8 DEF PushCtl
  <2>2. "ctl" \in Items  BY DEF Items
  <2> DEFINE a == Data(queue[c])
             b == inbox[c]
  <2>0. a \in Seq(Items) /\ b \in Seq(Items) /\ Pending[c] = a \o b  BY PendingParts
  <2> HIDE DEF a, b
  <2>3. a \o Append(b, "ctl") = Append(Pending[c], "ctl")  BY <2>0, <2>2, Joined
  <2>4. Pending' = [Pending EXCEPT ![c] = Append(Pending[c], "ctl")]
    <3>1. queue'[c] = queue[c] /\ inbox'[c] = Append(b, "ctl")  BY <2>1 DEF TypeOK, b
    <3>2. Data(queue'[c]) \o inbox'[c] = Append(Pending[c], "ctl")
      BY <2>3, <3>1 DEF a
    <3>3. \A d \in Sessions : d # c => queue'[d] = queue[d] /\ inbox'[d] = inbox[d]
      BY <2>1 DEF TypeOK
    <3> QED BY <3>2, <3>3, ElsewhereSame
  <2>5. Pending' = [d \in Sessions |->
                     IF d \in {c} THEN Append(Pending[d], "ctl") ELSE Pending[d]]
    BY <2>4 DEF Pending
  <2>6. Stream!Put({c}, "ctl")  BY <2>5 DEF Stream!Put
  <2> QED BY <2>2, <2>6 DEF Stream!Next
<1>9. ASSUME NEW c \in Sessions, RunEnqueue(c) PROVE [Stream!Next]_Pending
  <2> DEFINE k == Head(inbox[c])
             r == Kept(c, k)
             a == Data(queue[c])
             b == inbox[c]
  <2>1. b # <<>> /\ inbox' = [inbox EXCEPT ![c] = Tail(@)]
        /\ queue' = [queue EXCEPT ![c] = Append(r, k)]
    BY <1>9 DEF RunEnqueue
  <2>2. a \in Seq(Items) /\ b \in Seq(Items) /\ Pending[c] = a \o b  BY PendingParts
  <2>3. k \in Items  BY <2>1, <2>2
  <2>4. r \in Seq(Entries) /\ EndsOnce(r)  BY <2>3, KeptHasRoom, KeptData DEF Entries
  <2>5. \/ Data(r) = a
        \/ a # <<>> /\ Data(r) = Tail(a)
        \/ r = <<>>
    BY <2>3, KeptData
  <2>6. Data(Append(r, k)) = Append(Data(r), k)  BY <2>3, <2>4, DataAppend
  <2>7. queue'[c] = Append(r, k) /\ inbox'[c] = Tail(b)  BY <2>1 DEF TypeOK
  <2>8. \A d \in Sessions : d # c => queue'[d] = queue[d] /\ inbox'[d] = inbox[d]
    BY <2>1 DEF TypeOK
  <2>9. Data(queue'[c]) \o inbox'[c] = Append(Data(r), k) \o Tail(b)
    BY <2>6, <2>7
  <2>13. k = Head(b)  OBVIOUS
  <2> HIDE DEF r, a, b, k
  <2>10. CASE Data(r) = a
    <3>1. Append(a, k) \o Tail(b) = Pending[c]  BY <2>1, <2>2, <2>13, Joined
    <3>2. Pending' = [Pending EXCEPT ![c] = Pending[c]]
      BY <2>8, <2>9, <2>10, <3>1, ElsewhereSame
    <3> QED BY <3>2, NothingNew
  <2>11. CASE a # <<>> /\ Data(r) = Tail(a)
    <3>1. Tail(a) \in Seq(Items)  BY <2>2, <2>11
    <3>2. Append(Tail(a), k) \o Tail(b) = Tail(a) \o b  BY <2>1, <2>2, <2>13, <3>1, Joined
    <3>3. Tail(a) \o b = Tail(Pending[c]) /\ Pending[c] # <<>>  BY <2>2, <2>11, Joined
    <3>4. Pending' = [Pending EXCEPT ![c] = Tail(Pending[c])]
      <4>1. Data(queue'[c]) \o inbox'[c] = Tail(Pending[c])
        BY <2>9, <2>11, <3>2, <3>3
      <4> QED BY <2>8, <4>1, ElsewhereSame
    <3>5. Stream!Take(c)  BY <3>3, <3>4 DEF Stream!Take
    <3> QED BY <3>5 DEF Stream!Next
  <2>12. CASE r = <<>>
    <3>1. Data(r) = <<>>  BY <2>12 DEF Data
    <3>2. Append(<<>>, k) \o Tail(b) = b
      <4>1. <<>> \in Seq(Items)  OBVIOUS
      <4> QED BY <2>1, <2>2, <2>13, <4>1, Joined
    <3>3. Pending' = [Pending EXCEPT ![c] = b]
      <4>1. Data(queue'[c]) \o inbox'[c] = b  BY <2>9, <3>1, <3>2
      <4> QED BY <2>8, <4>1, ElsewhereSame
    <3>4. CASE a = <<>>
      <4>1. Pending[c] = b  BY <2>2, <3>4, Joined
      <4> QED BY <3>3, <4>1, NothingNew
    <3>5. CASE a # <<>>
      <4>1. SubSeq(Pending[c], Len(a) + 1, Len(Pending[c])) = b  BY <2>2, Joined
      <4>2. Len(a) \in 1..Len(Pending[c])  BY <2>2, <3>5
      <4>3. Pending' = [Pending EXCEPT ![c] = Stream!DropOldest(Pending[c], Len(a))]
        BY <3>3, <4>1 DEF Stream!DropOldest
      <4>4. Stream!Overrun(c)  BY <4>2, <4>3 DEF Stream!Overrun
      <4> QED BY <4>4 DEF Stream!Next
    <3> QED BY <3>4, <3>5
  <2> QED BY <2>5, <2>10, <2>11, <2>12
<1>10. ASSUME NEW c \in Sessions, SenderTake(c) PROVE [Stream!Next]_Pending
  <2>1. queue[c] # <<>> /\ queue' = [queue EXCEPT ![c] = Tail(@)] /\ inbox' = inbox
    BY <1>10 DEF SenderTake
  <2>2. queue[c] \in Seq(Entries) /\ EndsOnce(queue[c])  BY DEF TypeOK, Orderly, Entries
  <2>3. queue'[c] = Tail(queue[c]) /\ inbox'[c] = inbox[c]  BY <2>1 DEF TypeOK
  <2>4. \A d \in Sessions : d # c => queue'[d] = queue[d] /\ inbox'[d] = inbox[d]
    BY <2>1 DEF TypeOK
  <2>5. CASE Head(queue[c]) = End
    <3>1. Data(queue'[c]) = Data(queue[c])  BY <2>1, <2>2, <2>3, <2>5, DataTailEnd
    <3> QED BY <2>3, <2>4, <3>1 DEF Pending
  <2>6. CASE Head(queue[c]) # End
    <3> DEFINE a == Data(queue[c])
    <3>1. a # <<>> /\ Data(queue'[c]) = Tail(a)  BY <2>1, <2>2, <2>3, <2>6, DataTail
    <3>2. a \in Seq(Items) /\ inbox[c] \in Seq(Items) /\ Pending[c] = a \o inbox[c]
      BY PendingParts
    <3> HIDE DEF a
    <3>3. Tail(a) \o inbox[c] = Tail(Pending[c]) /\ Pending[c] # <<>>
      BY <3>1, <3>2, Joined
    <3>4. Pending' = [Pending EXCEPT ![c] = Tail(Pending[c])]
      BY <2>3, <2>4, <3>1, <3>3, ElsewhereSame
    <3>5. Stream!Take(c)  BY <3>3, <3>4 DEF Stream!Take
    <3> QED BY <3>5 DEF Stream!Next
  <2> QED BY <2>5, <2>6
<1>11. CASE UNCHANGED vars  BY <1>3, <1>11 DEF vars
<1> QED BY <1>2, <1>4, <1>5, <1>6, <1>7, <1>8, <1>9, <1>10, <1>11 DEF Next

(* The outbound path of every client is a stream that keeps the order and loses
   its oldest entries only (enqueue, _send_loop, _send_to_client): SendQueue
   implements LossyStream, for any sessions, queue length and inboxes. *)
THEOREM OldestLostHolds == Spec => OldestLostOnly
<1>1. Init => Stream!Init /\ Orderly
  BY DEF Init, Stream!Init, Pending, Data, Orderly, EndsOnce
<1>2. TypeOK /\ Orderly /\ [Next]_vars => Orderly' /\ [Stream!Next]_Pending
  BY OrderlyStep, StreamStep
<1> QED BY <1>1, <1>2, TypeCorrect, PTL DEF Spec, OldestLostOnly, Stream!Spec
-----------------------------------------------------------------------------
(* DesktopSessions                                                         *)

(* What can be missing at a start is a number of processes. *)
LEMMA MissingCounted ==
  ASSUME NEW x, NEW missing \in SUBSET Startable(x)
  PROVE  Cardinality(missing) \in Nat
<1>1. IsFiniteSet({"tablet", "compositor", "wm", "logind", "pulse", "bus", "terminal"})
  <2> DEFINE A == {"tablet"}
             B == A \cup {"compositor"}
             C == B \cup {"wm"}
             D == C \cup {"logind"}
             E == D \cup {"pulse"}
             F == E \cup {"bus"}
             G == F \cup {"terminal"}
  <2>1. IsFiniteSet(A)  BY FS_Singleton
  <2>2. IsFiniteSet(B)  BY <2>1, FS_AddElement
  <2>3. IsFiniteSet(C)  BY <2>2, FS_AddElement
  <2>4. IsFiniteSet(D)  BY <2>3, FS_AddElement
  <2>5. IsFiniteSet(E)  BY <2>4, FS_AddElement
  <2>6. IsFiniteSet(F)  BY <2>5, FS_AddElement
  <2>7. IsFiniteSet(G)  BY <2>6, FS_AddElement
  <2>8. G = {"tablet", "compositor", "wm", "logind", "pulse", "bus", "terminal"}  OBVIOUS
  <2> HIDE DEF G
  <2> QED BY <2>7, <2>8
<1>2. missing \subseteq {"tablet", "compositor", "wm", "logind", "pulse", "bus", "terminal"}
  BY DEF Startable, Bus, Pulse, WindowManager, Terminal, Logind, Compositor, Tablet
<1>3. IsFiniteSet(missing)  BY <1>1, <1>2, FS_Subset
<1> QED BY <1>3, FS_CardinalityType

(* A cleanup ends everything, if the handles are there. *)
LEMMA CleanedUp ==
  ASSUME NothingLeftRunning, NEW u \in Users
  PROVE  StillThere(u) = {}
BY DEF NothingLeftRunning, StillThere, Left, Alive

(* What a start leaves behind: no desktop, or one on a number without socket
   whose processes have their handles, on an X server that lives or is gone. *)
LEMMA Created ==
  ASSUME DesktopsTypeOK, NothingLeftRunning, NEW u \in Users, Create(u)
  PROVE  /\ failures' \in 0..MaxFailures /\ locks' \subseteq Displays
         /\ \/ /\ sessions' = [sessions EXCEPT ![u] = NoSession]
               /\ running' = [running EXCEPT ![u] = {}]
               /\ UNCHANGED <<sockets, runtimes, lost>>
            \/ \E n \in Displays \ sockets, h \in SUBSET Processes, r \in SUBSET Processes :
                 /\ r \ {"terminal"} \subseteq h /\ ("terminal" \in r => "x" \in r)
                 /\ sessions' = [sessions EXCEPT ![u] = [num |-> n, has |-> h]]
                 /\ running' = [running EXCEPT ![u] = r]
                 /\ sockets' = sockets \cup {n}
                 /\ runtimes' = [runtimes EXCEPT ![u] = IF @ = NoDisplay THEN n ELSE @]
                 /\ lost' = IF "x" \in r THEN lost ELSE lost \cup {u}
<1>0. PICK n \in Lowest(Free(u)), x \in Outcomes, leaves \in BOOLEAN :
        \E missing \in SUBSET Startable(x) : Start(u, n, x, missing, leaves)
  BY DEF Create
<1>1. PICK missing \in SUBSET Startable(x) : Start(u, n, x, missing, leaves)
  BY <1>0
<1>2. n \in Displays \ sockets  BY DEF Lowest, Free
<1>3. StillThere(u) = {}  BY CleanedUp
<1>4. failures' \in 0..MaxFailures
  <2>1. Cardinality(missing) \in Nat  BY MissingCounted
  <2>2. Fails(x) \in {0, 1}  BY DEF Fails
  <2> QED BY <1>1, <2>1, <2>2, BoundsAssumption DEF Start, DesktopsTypeOK
<1>5. locks' \subseteq Displays  BY <1>1, <1>2 DEF Start, DesktopsTypeOK
<1>6. CASE x = "failed"  BY <1>1, <1>3, <1>4, <1>5, <1>6 DEF Start
<1>7. CASE x # "failed"
  <2> DEFINE started == Startable(x) \ missing
             h == (started \ {"terminal"}) \cup {"x"}
             r == IF x = "taken" THEN started \ {"terminal"} ELSE started \cup {"x"}
  <2>1. started \subseteq Processes /\ "x" \notin started
    BY DEF Startable, Bus, Pulse, WindowManager, Terminal, Logind, Compositor, Tablet, Processes
  <2>2. h \in SUBSET Processes /\ r \in SUBSET Processes  BY <2>1 DEF Processes
  <2>3. r \ {"terminal"} \subseteq h /\ ("terminal" \in r => "x" \in r)  OBVIOUS
  <2>4. x = "taken" <=> "x" \notin r  BY <2>1
  <2>5. /\ sessions' = [sessions EXCEPT ![u] = [num |-> n, has |-> h]]
        /\ running' = [running EXCEPT ![u] = r]
        /\ sockets' = sockets \cup {n}
        /\ runtimes' = [runtimes EXCEPT ![u] = IF @ = NoDisplay THEN n ELSE @]
        /\ lost' = IF x = "taken" THEN lost \cup {u} ELSE lost
    BY <1>1, <1>3, <1>7 DEF Start
  <2> HIDE DEF started, h, r
  <2> QED BY <1>2, <1>4, <1>5, <2>2, <2>3, <2>4, <2>5
<1> QED BY <1>6, <1>7

(* DesktopsTypeOK is inductive, if nothing is left running. *)
LEMMA TypeStep ==
  ASSUME DesktopsTypeOK, NothingLeftRunning, [DesktopsNext]_desktopVars
  PROVE  DesktopsTypeOK'
<1> USE DEF DesktopsTypeOK
<1>1. ASSUME NEW u \in Users, Create(u), UNCHANGED <<host, deaths, runs>> PROVE DesktopsTypeOK'
  BY <1>1, Created DEF Session, NoSession
<1>2. ASSUME NEW u \in Users, Reuse(u), UNCHANGED <<host, deaths, runs>> PROVE DesktopsTypeOK'
  <2> DEFINE wanted == (WindowManager \cup Logind \cup Terminal) \ running[u]
  <2>1. PICK w \in {{}, wanted} : \E up \in SUBSET w :
          /\ failures + Cardinality(w \ up) <= MaxFailures
          /\ failures' = failures + Cardinality(w \ up)
          /\ running' = [running EXCEPT ![u] = @ \cup up]
          /\ sessions' = [sessions EXCEPT ![u].has = @ \cup (up \ {"terminal"})]
    BY <1>2 DEF Reuse
  <2>2. PICK up \in SUBSET w :
          /\ failures + Cardinality(w \ up) <= MaxFailures
          /\ failures' = failures + Cardinality(w \ up)
          /\ running' = [running EXCEPT ![u] = @ \cup up]
          /\ sessions' = [sessions EXCEPT ![u].has = @ \cup (up \ {"terminal"})]
    BY <2>1
  <2>3. w \subseteq Startable("Xvfb") /\ w \subseteq Processes
    BY DEF Startable, WindowManager, Logind, Terminal, Processes
  <2>4. Cardinality(w \ up) \in Nat  BY <2>3, MissingCounted
  <2>5. sessions[u] \in Session  BY <1>2 DEF Reuse, Alive
  <2>6. sessions' \in [Users -> Session \cup {NoSession}]  BY <2>2, <2>3, <2>5 DEF Session
  <2>7. running' \in [Users -> SUBSET Processes]  BY <2>2, <2>3
  <2>8. failures' \in 0..MaxFailures  BY <2>2, <2>4, BoundsAssumption
  <2>9. runtimes' \in [Users -> Displays \cup {NoDisplay}]  BY <1>2, <2>5 DEF Reuse, Session
  <2> QED BY <1>2, <2>6, <2>7, <2>8, <2>9 DEF Reuse
<1>3. ASSUME NEW u \in Users, LoginRefused(u) PROVE DesktopsTypeOK'
  BY <1>3, CleanedUp DEF LoginRefused
<1>4. ASSUME NEW u \in Users, XDies(u) PROVE DesktopsTypeOK'
  BY <1>4, BoundsAssumption DEF XDies
<1>5. ASSUME NEW u \in Users, ProcessDies(u) PROVE DesktopsTypeOK'
  BY <1>5, BoundsAssumption DEF ProcessDies
<1>6. ASSUME Shutdown PROVE DesktopsTypeOK'
  BY <1>6, CleanedUp, BoundsAssumption DEF Shutdown
<1>7. ASSUME Crash PROVE DesktopsTypeOK'
  BY <1>7, BoundsAssumption DEF Crash
<1>8. CASE UNCHANGED desktopVars  BY <1>8 DEF desktopVars
<1> QED BY <1>1, <1>2, <1>3, <1>4, <1>5, <1>6, <1>7, <1>8 DEF DesktopsNext, Login

(* No process escapes the cleanup: its handle comes with it. *)
LEMMA LeftStep ==
  ASSUME DesktopsTypeOK, NothingLeftRunning, [DesktopsNext]_desktopVars
  PROVE  NothingLeftRunning'
<1> USE DEF NothingLeftRunning, Alive, DesktopsTypeOK
<1>1. ASSUME NEW u \in Users, Create(u) PROVE NothingLeftRunning'
  <2>1. CASE /\ sessions' = [sessions EXCEPT ![u] = NoSession]
             /\ running' = [running EXCEPT ![u] = {}]
    BY <2>1
  <2>2. ASSUME NEW n \in Displays, NEW h \in SUBSET Processes, NEW r \in SUBSET Processes,
               r \ {"terminal"} \subseteq h, "terminal" \in r => "x" \in r,
               sessions' = [sessions EXCEPT ![u] = [num |-> n, has |-> h]],
               running' = [running EXCEPT ![u] = r]
        PROVE  NothingLeftRunning'
    <3>1. [num |-> n, has |-> h] # NoSession  BY DisplaysAssumption DEF NoSession, NoDisplay
    <3> QED BY <2>2, <3>1
  <2> QED BY <1>1, <2>1, <2>2, Created
<1>2. ASSUME NEW u \in Users, Reuse(u) PROVE NothingLeftRunning'
  <2>1. PICK up : /\ running' = [running EXCEPT ![u] = @ \cup up]
                  /\ sessions' = [sessions EXCEPT ![u].has = @ \cup (up \ {"terminal"})]
    BY <1>2 DEF Reuse
  <2>2. sessions[u] \in Session /\ "x" \in running[u]  BY <1>2 DEF Reuse
  <2>3. sessions'[u] # NoSession
    BY <2>1, <2>2, DisplaysAssumption DEF Session, NoSession, NoDisplay
  <2>4. \A v \in Users \ {u} : sessions'[v] = sessions[v] /\ running'[v] = running[v]
    BY <2>1
  <2>5. /\ running'[u] = running[u] \cup up
        /\ sessions'[u].has = sessions[u].has \cup (up \ {"terminal"})
    BY <2>1, <2>2 DEF Session
  <2> QED BY <2>2, <2>3, <2>4, <2>5
<1>3. ASSUME NEW u \in Users, LoginRefused(u) PROVE NothingLeftRunning'
  BY <1>3, CleanedUp DEF LoginRefused
<1>4. ASSUME NEW u \in Users, XDies(u) PROVE NothingLeftRunning'
  BY <1>4 DEF XDies
<1>5. ASSUME NEW u \in Users, ProcessDies(u) PROVE NothingLeftRunning'
  BY <1>5 DEF ProcessDies
<1>6. ASSUME Shutdown PROVE NothingLeftRunning'
  BY <1>6, CleanedUp DEF Shutdown
<1>7. ASSUME Crash PROVE NothingLeftRunning'
  BY <1>7 DEF Crash
<1>8. CASE UNCHANGED desktopVars  BY <1>8 DEF desktopVars
<1> QED BY <1>1, <1>2, <1>3, <1>4, <1>5, <1>6, <1>7, <1>8 DEF DesktopsNext, Login

(* What OneDisplayEach needs: the socket of a live X server is there, so that
   its number is not free, whatever has become of the lock. *)
Reserved == \A u \in Users : Alive(u) => sessions[u].num \in sockets

LEMMA DisplayStep ==
  ASSUME DesktopsTypeOK, NothingLeftRunning, Reserved, OneDisplayEach,
         [DesktopsNext]_desktopVars
  PROVE  Reserved' /\ OneDisplayEach'
<1> USE DEF Reserved, OneDisplayEach, DesktopsTypeOK
<1>1. ASSUME NEW u \in Users, Create(u) PROVE Reserved' /\ OneDisplayEach'
  <2>1. CASE /\ sessions' = [sessions EXCEPT ![u] = NoSession]
             /\ running' = [running EXCEPT ![u] = {}]
             /\ UNCHANGED sockets
    BY <2>1 DEF Alive
  <2>2. ASSUME NEW n \in Displays \ sockets, NEW h, NEW r,
               sessions' = [sessions EXCEPT ![u] = [num |-> n, has |-> h]],
               running' = [running EXCEPT ![u] = r],
               sockets' = sockets \cup {n}
        PROVE  Reserved' /\ OneDisplayEach'
    <3>1. \A v \in Users \ {u} : sessions'[v] = sessions[v] /\ (Alive(v)' <=> Alive(v))
      BY <2>2 DEF Alive
    <3>2. sessions'[u].num = n  BY <2>2
    <3> QED BY <2>2, <3>1, <3>2
  <2> QED BY <1>1, <2>1, <2>2, Created
<1>2. ASSUME NEW u \in Users, Reuse(u) PROVE Reserved' /\ OneDisplayEach'
  <2>1. PICK up : /\ running' = [running EXCEPT ![u] = @ \cup up]
                  /\ sessions' = [sessions EXCEPT ![u].has = @ \cup (up \ {"terminal"})]
    BY <1>2 DEF Reuse
  <2>2. sessions[u] \in Session /\ Alive(u)  BY <1>2 DEF Reuse, Alive
  <2>3. sessions'[u].num = sessions[u].num  BY <2>1, <2>2 DEF Session
  <2>4. \A v \in Users \ {u} : sessions'[v] = sessions[v] /\ (Alive(v)' <=> Alive(v))
    BY <2>1 DEF Alive
  <2>5. sockets' = sockets  BY <1>2 DEF Reuse
  <2> QED BY <2>2, <2>3, <2>4, <2>5
<1>3. ASSUME NEW u \in Users, LoginRefused(u) PROVE Reserved' /\ OneDisplayEach'
  BY <1>3 DEF LoginRefused, Alive
<1>4. ASSUME NEW u \in Users, XDies(u) PROVE Reserved' /\ OneDisplayEach'
  <2>1. ~Alive(u)'  BY <1>4 DEF XDies, Alive
  <2>2. \A v \in Users \ {u} : Alive(v)' <=> Alive(v)  BY <1>4 DEF XDies, Alive
  <2>3. sessions' = sessions  BY <1>4 DEF XDies
  <2>4. sockets' \in {sockets, sockets \ {sessions[u].num}} /\ Alive(u)
    BY <1>4 DEF XDies, LockOf, Alive
  <2> QED BY <2>1, <2>2, <2>3, <2>4
<1>5. ASSUME NEW u \in Users, ProcessDies(u) PROVE Reserved' /\ OneDisplayEach'
  BY <1>5 DEF ProcessDies, Alive
<1>6. CASE Shutdown  BY <1>6 DEF Shutdown, Alive
<1>7. CASE Crash  BY <1>7 DEF Crash, Alive
<1>8. CASE UNCHANGED desktopVars  BY <1>8 DEF desktopVars, Alive
<1> QED BY <1>1, <1>2, <1>3, <1>4, <1>5, <1>6, <1>7, <1>8 DEF DesktopsNext, Login

(* A runtime's display is its user's, until the X server is lost. *)
LEMMA SameStep ==
  ASSUME DesktopsTypeOK, NothingLeftRunning, SameDesktop, [DesktopsNext]_desktopVars
  PROVE  SameDesktop'
<1> USE DEF SameDesktop, DesktopsTypeOK
<1>1. ASSUME NEW u \in Users, ~Alive(u), Create(u) PROVE SameDesktop'
  <2>0. runtimes[u] # NoDisplay => u \in lost  BY <1>1
  <2>1. CASE /\ sessions' = [sessions EXCEPT ![u] = NoSession]
             /\ running' = [running EXCEPT ![u] = {}]
             /\ UNCHANGED <<runtimes, lost>>
    BY <2>0, <2>1 DEF Alive
  <2>2. ASSUME NEW n \in Displays, NEW h, NEW r,
               sessions' = [sessions EXCEPT ![u] = [num |-> n, has |-> h]],
               running' = [running EXCEPT ![u] = r],
               runtimes' = [runtimes EXCEPT ![u] = IF @ = NoDisplay THEN n ELSE @],
               lost' = IF "x" \in r THEN lost ELSE lost \cup {u}
        PROVE  SameDesktop'
    <3>1. \A v \in Users \ {u} :
            /\ sessions'[v] = sessions[v] /\ (Alive(v)' <=> Alive(v))
            /\ runtimes'[v] = runtimes[v] /\ (v \in lost' <=> v \in lost)
      BY <2>2 DEF Alive
    <3>2. u \notin lost' => /\ runtimes[u] = NoDisplay /\ runtimes'[u] = n
                            /\ Alive(u)' /\ sessions'[u].num = n
      BY <2>0, <2>2, DisplaysAssumption DEF Alive, NoSession, NoDisplay
    <3> QED BY <3>1, <3>2
  <2> QED BY <1>1, <2>1, <2>2, Created
<1>2. ASSUME NEW u \in Users, Reuse(u) PROVE SameDesktop'
  <2>1. PICK up : /\ running' = [running EXCEPT ![u] = @ \cup up]
                  /\ sessions' = [sessions EXCEPT ![u].has = @ \cup (up \ {"terminal"})]
    BY <1>2 DEF Reuse
  <2>2. sessions[u] \in Session /\ Alive(u)  BY <1>2 DEF Reuse, Alive
  <2>3. sessions'[u].num = sessions[u].num /\ Alive(u)'
    BY <2>1, <2>2, DisplaysAssumption DEF Session, Alive, NoSession, NoDisplay
  <2>4. \A v \in Users \ {u} : sessions'[v] = sessions[v] /\ (Alive(v)' <=> Alive(v))
    BY <2>1 DEF Alive
  <2>5. /\ runtimes' = [runtimes EXCEPT ![u] = IF @ = NoDisplay THEN sessions[u].num ELSE @]
        /\ lost' = lost
    BY <1>2 DEF Reuse
  <2> QED BY <2>2, <2>3, <2>4, <2>5
<1>3. ASSUME NEW u \in Users, LoginRefused(u) PROVE SameDesktop'
  BY <1>3 DEF LoginRefused, Alive
<1>4. ASSUME NEW u \in Users, XDies(u) PROVE SameDesktop'
  BY <1>4 DEF XDies, Alive
<1>5. ASSUME NEW u \in Users, ProcessDies(u) PROVE SameDesktop'
  BY <1>5 DEF ProcessDies, Alive
<1>6. CASE Shutdown  BY <1>6 DEF Shutdown
<1>7. CASE Crash  BY <1>7 DEF Crash
<1>8. CASE UNCHANGED desktopVars  BY <1>8 DEF desktopVars, Alive
<1> QED BY <1>1, <1>2, <1>3, <1>4, <1>5, <1>6, <1>7, <1>8 DEF DesktopsNext, Login

-----------------------------------------------------------------------------
LEMMA Initially ==
  DesktopsInit => DesktopsTypeOK /\ NothingLeftRunning /\ Reserved /\ OneDisplayEach /\ SameDesktop
BY BoundsAssumption
DEF DesktopsInit, DesktopsTypeOK, NothingLeftRunning, Reserved, OneDisplayEach,
    SameDesktop, Alive

(* SessionManager's tables and the files of its X servers keep their types,
   whatever dies, fails and is started again. *)
THEOREM DesktopsTypeCorrect == DesktopsSpec => []DesktopsTypeOK
<1>1. DesktopsTypeOK /\ NothingLeftRunning /\ [DesktopsNext]_desktopVars
        => DesktopsTypeOK' /\ NothingLeftRunning'
  BY TypeStep, LeftStep
<1> QED BY <1>1, Initially, PTL DEF DesktopsSpec

(* Whatever is running of a desktop, _cleanup_session ends it. *)
THEOREM NothingEscapesCleanup == DesktopsSpec => []NothingLeftRunning
<1>1. DesktopsTypeOK /\ NothingLeftRunning /\ [DesktopsNext]_desktopVars
        => DesktopsTypeOK' /\ NothingLeftRunning'
  BY TypeStep, LeftStep
<1> QED BY <1>1, Initially, PTL DEF DesktopsSpec

(* find_free_display never gives a live desktop's number to another user. *)
THEOREM OneDisplayEachHolds == DesktopsSpec => []OneDisplayEach
<1>1. NothingLeftRunning /\ DesktopsTypeOK /\ Reserved /\ OneDisplayEach
        /\ [DesktopsNext]_desktopVars
        => Reserved' /\ OneDisplayEach'
  BY DisplayStep
<1> QED BY <1>1, Initially, DesktopsTypeCorrect, NothingEscapesCleanup, PTL DEF DesktopsSpec

(* A user who comes back is given the desktop his runtime captures, as long as
   its X server lives. *)
THEOREM SameDesktopHolds == DesktopsSpec => []SameDesktop
<1>1. NothingLeftRunning /\ DesktopsTypeOK /\ SameDesktop /\ [DesktopsNext]_desktopVars
        => SameDesktop'
  BY SameStep
<1> QED BY <1>1, Initially, DesktopsTypeCorrect, NothingEscapesCleanup, PTL DEF DesktopsSpec
=============================================================================
