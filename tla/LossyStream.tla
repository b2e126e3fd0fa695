---------------------------- MODULE LossyStream ----------------------------
(***************************************************************************)
(* What one client's outbound path promises, whatever the queues in it do: *)
(* what is put in comes out in the order it was put in, nothing comes out  *)
(* twice, and what is lost is always the oldest of what is still pending:  *)
(* a prefix, never the newest item and never one from the middle.          *)
(***************************************************************************)
EXTENDS Naturals, Sequences

CONSTANT Sessions,  \* the connections
         Items      \* the kinds of data put on the stream

VARIABLE pending    \* per session, what was put in and has not come out, oldest first

TypeOK == pending \in [Sessions -> Seq(Items)]

Init == pending = [c \in Sessions |-> <<>>]

\* s without its n oldest elements.
DropOldest(s, n) == SubSeq(s, n + 1, Len(s))

\* One broadcast: the same item for every session of S, then possibly overruns.
Put(S, k) ==
  pending' = [c \in Sessions |-> IF c \in S THEN Append(pending[c], k) ELSE pending[c]]

\* Up to two items at once for one session that is just starting.
Start(c, s) ==
  /\ pending[c] = <<>>
  /\ pending' = [pending EXCEPT ![c] = s]

Take(c) ==
  /\ pending[c] # <<>>
  /\ pending' = [pending EXCEPT ![c] = Tail(@)]

Overrun(c) ==
  \E n \in 1..Len(pending[c]) :
    pending' = [pending EXCEPT ![c] = DropOldest(@, n)]

Next ==
  \/ \E S \in SUBSET Sessions, k \in Items : Put(S, k)
  \/ \E c \in Sessions : \E k1, k2 \in Items : Start(c, <<k1, k2>>)
  \/ \E c \in Sessions : Take(c) \/ Overrun(c)

Spec == Init /\ [][Next]_pending
=============================================================================
