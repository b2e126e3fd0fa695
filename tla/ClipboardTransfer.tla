------------------------- MODULE ClipboardTransfer -------------------------
(***************************************************************************)
(* Large clipboard payloads: cut into chunks that carry a sequence number  *)
(* and their index, put together by a ClipboardChunkAssembler per sequence *)
(* number.  One client and one way (client to server or back), chosen at   *)
(* the start; both programs cut, gate and assemble alike.  The first chunk *)
(* of a payload decides whether the receiver's toggle lets it in, the rest *)
(* follow it; sequence numbers turned away are remembered in a bounded set.*)
(*                                                                         *)
(* The chunks of one payload are put on the wire at once: the sender's     *)
(* loop has no await in it, and what else is sent meanwhile doesn't matter *)
(* here.  To a client they pass the send queue, which may drop any of them *)
(* (LossyStream); to the server nothing is lost but with the connection.   *)
(* What survives a connection differs: a ClientProtocol is kept, with its  *)
(* assemblers and its counter; a ClientSession is made anew, but the       *)
(* runtime that counts for it is kept until the server restarts.           *)
(***************************************************************************)
EXTENDS Naturals, SequencesExt

CONSTANTS
  MaxSends,     \* bound: payloads sent
  Sizes,        \* how many chunks a payload may have
  MaxTotal,     \* MAX_TOTAL_CHUNKS
  DropCap,      \* _DROPPED_SEQS_MAX
  SeqModulus,   \* sequence numbers are taken modulo this
  MaxFlips,     \* bound: toggles flipped
  MaxFaults,    \* bound: chunks lost and connections lost
  MaxRestarts,  \* bound: restarts of the server
  WireMax       \* bound: chunks under way

ASSUME SizesAssumption == Sizes \subseteq Nat \ {0}
ASSUME CapAssumption == {MaxTotal, DropCap, SeqModulus} \subseteq Nat \ {0}
ASSUME BoundsAssumption == {MaxSends, MaxFlips, MaxFaults, MaxRestarts, WireMax} \subseteq Nat

Payloads == 1..MaxSends
Kinds == {"text", "image"}
Seqs == 0..SeqModulus - 1

VARIABLES
  way,       \* "c2s" or "s2c"
  ctog,      \* the kinds the client's toggles let through, this way
  stog,      \* ... and the server's copy of them, from the last hello
  wire,      \* chunks under way, oldest first
  lastSeq,   \* _clipboard_seq of the sender
  sent,      \* how many payloads were sent
  asm,       \* the receiver's assemblers, by sequence number
  held,      \* the chunks they hold
  dropped,   \* _dropped_seqs
  clip,      \* the receiver's clipboard: the payloads it is made of, and if it is whole
  fate,      \* history, per payload
  flips, faults, restarts

toggles == <<way, ctog, stog>>
sender  == <<lastSeq, sent>>
table   == <<asm, held, dropped>>
counts  == <<flips, faults, restarts>>
vars    == <<toggles, wire, sender, table, clip, fate, counts>>

Chunk == [seq : Seqs, index : Nat, total : Sizes, kind : Kinds, of : Payloads]

TypeOK ==
  /\ way \in {"c2s", "s2c"} /\ ctog \subseteq Kinds /\ stog \subseteq Kinds
  /\ wire \in Seq(Chunk) /\ Len(wire) <= WireMax
  /\ lastSeq \in Seqs /\ sent \in 0..MaxSends
  /\ DOMAIN asm \subseteq Seqs
  /\ \A s \in DOMAIN asm : asm[s] \in [total : 1..MaxTotal, old : BOOLEAN]
  \* Every assembler lacks a chunk, and chunks are held by assemblers only.
  /\ \A s \in DOMAIN asm : {h.index : h \in {g \in held : g.seq = s}} # 0..asm[s].total - 1
  /\ \A h \in held : h \in Chunk /\ h.seq \in DOMAIN asm /\ h.index < asm[h.seq].total
  /\ dropped \subseteq Seqs /\ Cardinality(dropped) <= DropCap
  /\ clip \in [parts : SUBSET Payloads, whole : BOOLEAN]
  /\ fate \in [Payloads -> {"unsent", "sent", "gated", "accepted", "spoiled", "arrived"}]
  /\ flips \in 0..MaxFlips /\ faults \in 0..MaxFaults /\ restarts \in 0..MaxRestarts

Init ==
  /\ way \in {"c2s", "s2c"} /\ ctog \in SUBSET Kinds /\ stog = ctog
  /\ wire = <<>> /\ lastSeq = 0 /\ sent = 0
  /\ asm = <<>> /\ held = {} /\ dropped = {}
  /\ clip = [parts |-> {}, whole |-> TRUE]
  /\ fate = [p \in Payloads |-> "unsent"]
  /\ flips = 0 /\ faults = 0 /\ restarts = 0
-----------------------------------------------------------------------------
\* The sender.

SenderGate   == IF way = "c2s" THEN ctog ELSE stog
ReceiverGate == IF way = "c2s" THEN stog ELSE ctog

NextSeqForgotten == lastSeq
NextSeq == (lastSeq + 1) % SeqModulus

Cut(p, k, n) ==
  [i \in 1..n |-> [seq |-> NextSeq, index |-> i - 1, total |-> n, kind |-> k, of |-> p]]

\* A text of one chunk is not cut, and not sent this way.
Send(k, n) ==
  /\ sent < MaxSends /\ k \in SenderGate /\ (k = "text" => n > 1)
  /\ Len(wire) + n <= WireMax
  /\ sent' = sent + 1 /\ lastSeq' = NextSeq
  /\ wire' = wire \o Cut(sent + 1, k, n)
  /\ fate' = [fate EXCEPT ![sent + 1] = "sent"]
  /\ UNCHANGED <<toggles, table, clip, counts>>

\* set_clipboard_toggles: the client's own, at once; the server isn't told.
Flip(k) ==
  /\ flips < MaxFlips
  /\ flips' = flips + 1
  /\ ctog' = IF k \in ctog THEN ctog \ {k} ELSE ctog \cup {k}
  /\ UNCHANGED <<way, stog, wire, sender, table, clip, fate, faults, restarts>>
-----------------------------------------------------------------------------
\* The wire.

Spoil(ps) ==
  fate' = [p \in Payloads |-> IF p \in ps /\ fate[p] \in {"sent", "accepted"} THEN "spoiled"
                              ELSE fate[p]]

Lose ==
  /\ way = "s2c" /\ faults < MaxFaults
  /\ faults' = faults + 1
  /\ \E i \in 1..Len(wire) : wire' = RemoveAt(wire, i) /\ Spoil({wire[i].of})
  /\ UNCHANGED <<toggles, sender, table, clip, flips, restarts>>

\* Another connection: what was under way is gone, the hello brings the
\* toggles up to date, and a server that receives starts with an empty table.
NewConnection ==
  /\ wire' = <<>>
  /\ Spoil(Payloads)
  /\ stog' = ctog
  /\ IF way = "c2s" THEN asm' = <<>> /\ held' = {} /\ dropped' = {}
                    ELSE UNCHANGED table

Reconnect ==
  /\ faults < MaxFaults
  /\ faults' = faults + 1
  /\ NewConnection
  /\ UNCHANGED <<way, ctog, sender, clip, flips, restarts>>

\* A restarted server counts from the beginning.
Restart ==
  /\ restarts < MaxRestarts
  /\ restarts' = restarts + 1
  /\ NewConnection
  /\ lastSeq' = IF way = "s2c" THEN 0 ELSE lastSeq
  /\ UNCHANGED <<way, ctog, sent, clip, flips, faults>>

\* CHUNK_TIMEOUT_S passes for an assembler.
GrowOld(s) ==
  /\ s \in DOMAIN asm /\ ~asm[s].old
  /\ asm' = [asm EXCEPT ![s].old = TRUE]
  /\ Spoil({h.of : h \in {g \in held : g.seq = s}})
  /\ UNCHANGED <<toggles, wire, sender, held, dropped, clip, counts>>
-----------------------------------------------------------------------------
\* The receiver: _handle_clipboard_chunk, and handle_input's branch.

GatesEveryChunk(m) == m.kind \notin ReceiverGate
GatesImages(m)     == m.index = 0 /\ m.kind = "image" /\ m.kind \notin ReceiverGate
Gated(m)           == m.index = 0 /\ m.kind \notin ReceiverGate

\* _track_dropped_seq: some other entry makes room.
Track(s) ==
  IF Cardinality(dropped) >= DropCap
  THEN \E e \in dropped : dropped' = (dropped \ {e}) \cup {s}
  ELSE dropped' = dropped \cup {s}

TurnAway(m) ==
  /\ Gated(m)
  /\ Track(m.seq)
  /\ UNCHANGED <<asm, held, clip>>

\* A chunk of a payload that was turned away, or the first one of a payload
\* with more chunks than an assembler takes.
Skip(m) ==
  /\ ~Gated(m)
  /\ m.seq \in dropped \/ (m.seq \notin DOMAIN asm /\ m.total > MaxTotal)
  /\ UNCHANGED <<table, clip>>

\* What the assembler of m's sequence number is when m has been added: an index
\* out of its range, or one it already has, is ignored.
TotalOf(m) == IF m.seq \in DOMAIN asm THEN asm[m.seq].total ELSE m.total
AgeOf(m)   == m.seq \in DOMAIN asm /\ asm[m.seq].old
HeldWith(m) ==
  IF m.index < TotalOf(m) /\ ~\E h \in held : h.seq = m.seq /\ h.index = m.index
  THEN held \cup {m} ELSE held
ChunksOf(s, hs) == {h \in hs : h.seq = s}
Complete(m) ==
  /\ HeldWith(m) # held
  /\ \A i \in 0..TotalOf(m) - 1 : \E h \in HeldWith(m) : h.seq = m.seq /\ h.index = i

\* Stale assemblers are reaped after the chunk has been added.
Reap(as, hs) ==
  /\ asm' = Restrict(as, {s \in DOMAIN as : ~as[s].old})
  /\ held' = {h \in hs : h.seq \in DOMAIN as /\ ~as[h.seq].old}

Collect(m) ==
  /\ ~Gated(m) /\ m.seq \notin dropped /\ (m.seq \in DOMAIN asm \/ m.total <= MaxTotal)
  /\ ~Complete(m)
  /\ Reap([s \in DOMAIN asm \cup {m.seq} |->
             IF s = m.seq THEN [total |-> TotalOf(m), old |-> AgeOf(m)] ELSE asm[s]],
          HeldWith(m))
  /\ UNCHANGED <<dropped, clip>>

\* The payload is put together.  The server decodes texts that the client has
\* never encoded; of a mixed image either end may find that it is broken.
Corrupts(m) == way = "c2s" /\ m.kind = "text"
Finish(m) ==
  LET parts == {h.of : h \in ChunksOf(m.seq, HeldWith(m))}
      rest  == Restrict(asm, DOMAIN asm \ {m.seq})
      others == {h \in held : h.seq # m.seq} IN
  /\ ~Gated(m) /\ m.seq \notin dropped /\ (m.seq \in DOMAIN asm \/ m.total <= MaxTotal)
  /\ Complete(m)
  /\ \/ /\ clip' = [parts |-> parts, whole |-> ~Corrupts(m)]
        /\ Reap(rest, others)
     \/ /\ Corrupts(m) \/ (m.kind = "image" /\ parts # {m.of})
        /\ UNCHANGED clip
        /\ asm' = rest /\ held' = others
  /\ UNCHANGED dropped

\* What becomes of m's payload, for the properties.
Fate(m) ==
  IF m.index = 0 /\ m.kind \notin ReceiverGate THEN "gated"
  ELSE IF fate[m.of] = "spoiled" \/ m.total > MaxTotal \/ Corrupts(m) THEN "spoiled"
  ELSE IF clip' # clip THEN "arrived"
  ELSE IF m.index = 0 THEN "accepted"
  ELSE fate[m.of]

Receive ==
  /\ wire # <<>>
  /\ wire' = Tail(wire)
  /\ LET m == Head(wire) IN
       /\ TurnAway(m) \/ Skip(m) \/ Collect(m) \/ Finish(m)
       /\ fate' = [fate EXCEPT ![m.of] = IF fate[m.of] = "gated" THEN "gated" ELSE Fate(m)]
  /\ UNCHANGED <<toggles, sender, counts>>
-----------------------------------------------------------------------------
Next ==
  \/ \E k \in Kinds, n \in Sizes : Send(k, n)
  \/ \E k \in Kinds : Flip(k)
  \/ Lose \/ Reconnect \/ Restart
  \/ \E s \in Seqs : GrowOld(s)
  \/ Receive

\* The receiver's loop handles what arrives.
Spec == Init /\ [][Next]_vars /\ WF_vars(Receive)
-----------------------------------------------------------------------------
\* The numbers the receiver sees come from one count.
OneCount == way = "c2s" \/ restarts = 0

(* What is put together is one payload, whatever was lost, turned away or
   abandoned before it, as long as the server that counts is not restarted. *)
Unmixed == OneCount => Cardinality(clip.parts) <= 1

(* A payload whose first chunk met a closed toggle doesn't reach the clipboard,
   also when the toggle is opened before its last chunk, or its number is
   evicted from the set of dropped ones. *)
GatedStaysOut == OneCount => \A p \in clip.parts : fate[p] # "gated"

(* "the in-flight sequence still completes (payload was authorized when chunk 0
   crossed)": a payload that was let in arrives, whatever the toggles do, if
   nothing is lost and 30 seconds are enough. *)
AcceptedArrives ==
  \A p \in Payloads :
    (fate[p] = "accepted" /\ OneCount) ~> (fate[p] \in {"arrived", "spoiled"} \/ ~OneCount)
=============================================================================
