----------------------------- MODULE SendQueue -----------------------------
(***************************************************************************)
(* The outbound path of one SessionRuntime: the encoder's reader thread    *)
(* broadcasts NAL units to every client of the runtime, each NAL is handed *)
(* to the event loop as a coroutine, the coroutine puts it on the client's *)
(* bounded send queue (dropping the oldest entry and asking for an IDR on  *)
(* overflow), and the client's sender task writes the queue to the         *)
(* websocket.  handle_client adds the session to the runtime and, when the *)
(* websocket has closed, stops the sender and removes it again.            *)
(*                                                                         *)
(* A session is one connection (one ClientSession object): it is used      *)
(* once, a client that reconnects is another session.  Payloads are        *)
(* abstracted to their kind.  The event loop runs one action at a time;    *)
(* the reader thread only appends to inboxes, so the order in which        *)
(* callbacks of different sessions run is left open.                       *)
(***************************************************************************)
EXTENDS Naturals, Sequences

CONSTANTS
  Sessions,     \* the connections made to this runtime
  QMax,         \* send_queue's maxsize
  InboxMax,     \* bound: callbacks scheduled and not yet run, per session
  MaxRestarts   \* bound: encoder restarts other than the ones drops and joins cause

ASSUME QMaxAssumption == QMax \in Nat \ {0}
ASSUME InboxMaxAssumption == InboxMax \in Nat /\ InboxMax >= 2
ASSUME MaxRestartsAssumption == MaxRestarts \in Nat

\* What travels to a client: parameter sets (SPS/PPS), an IDR slice, a slice
\* that refers to the previous frame, and everything that is not video.
Video == {"hdr", "idr", "p"}
Items == Video \cup {"ctl"}
End == "END"           \* the None that ends the sender task

VARIABLES
  phase,      \* where handle_client is: "new", "serving", "finished"
  ws,         \* the websocket: "open", "closed"
  clients,    \* SessionRuntime.clients
  streaming,  \* SessionRuntime._streaming
  encoder,    \* the next NAL unit ffmpeg writes, or "dead" once the process is gone
  restarts,   \* how many of MaxRestarts were used
  inbox,      \* per session, callbacks handed to the loop, oldest first
  queue,      \* ClientSession.send_queue
  drops,      \* ClientSession._drops_since_keyframe: 0, 1, or 2 for more than one
  sender,     \* the sender task: "none", "waiting" in get(), "sending", "ended"
  gap         \* history: video was lost since the last IDR was queued, or none ever was

conn == <<phase, ws, clients, streaming>>
enc  == <<encoder, restarts>>
vars == <<phase, ws, clients, streaming, encoder, restarts, inbox, queue, drops,
          sender, gap>>

TypeOK ==
  /\ phase \in [Sessions -> {"new", "serving", "finished"}]
  /\ ws \in [Sessions -> {"open", "closed"}]
  /\ clients \in SUBSET Sessions
  /\ streaming \in BOOLEAN
  /\ encoder \in Video \cup {"dead"}
  /\ restarts \in 0..MaxRestarts
  /\ inbox \in [Sessions -> Seq(Items)]
  /\ queue \in [Sessions -> Seq(Items \cup {End})]
  /\ \A c \in Sessions : Len(queue[c]) <= QMax
  /\ drops \in [Sessions -> 0..2]
  /\ sender \in [Sessions -> {"none", "waiting", "sending", "ended"}]
  /\ gap \in [Sessions -> BOOLEAN]

\* A fresh runtime, whose encoder has been started and fed nothing, or one that
\* has been streaming to sessions that are gone by now.
Init ==
  /\ phase = [c \in Sessions |-> "new"]
  /\ ws = [c \in Sessions |-> "open"]
  /\ clients = {}
  /\ streaming \in BOOLEAN
  /\ encoder \in IF streaming THEN Video ELSE {"hdr"}
  /\ restarts = 0
  /\ inbox = [c \in Sessions |-> <<>>]
  /\ queue = [c \in Sessions |-> <<>>]
  /\ drops = [c \in Sessions |-> 0]
  /\ sender = [c \in Sessions |-> "none"]
  /\ gap = [c \in Sessions |-> TRUE]
-----------------------------------------------------------------------------
\* Connecting and disconnecting: handle_client, add_client, remove_client.

\* request_keyframe: the running ffmpeg is stopped and a new one started, and
\* the first thing a new one writes is its parameter sets.
RequestedEncoder == "hdr"

\* What may be scheduled for a session before the loop gets back to its ready
\* queue: the NAL the old ffmpeg's reader was delivering while add_client
\* restarted the encoder, and the latest cursor shape.
JoinInboxes ==
  {<<>>, <<"ctl">>} \cup
    (IF streaming /\ encoder # "dead" THEN {<<encoder>>, <<encoder, "ctl">>} ELSE {})

Join(c) ==
  /\ phase[c] = "new"
  /\ phase' = [phase EXCEPT ![c] = "serving"]
  /\ clients' = clients \cup {c}
  /\ streaming' = TRUE
  /\ encoder' = IF streaming THEN RequestedEncoder ELSE encoder
  /\ \E s \in JoinInboxes : inbox' = [inbox EXCEPT ![c] = s]
  /\ sender' = [sender EXCEPT ![c] = "waiting"]
  /\ UNCHANGED <<ws, restarts, queue, drops, gap>>

\* The peer or the network closes the connection.
WsClose(c) ==
  /\ phase[c] = "serving" /\ ws[c] = "open"
  /\ ws' = [ws EXCEPT ![c] = "closed"]
  /\ UNCHANGED <<phase, clients, streaming, enc, inbox, queue, drops, sender, gap>>

\* handle_client's finally: stop() puts the sentinel with put_nowait, which
\* raises QueueFull on a full queue, and then remove_client is not reached.
HandlerExit(c) ==
  /\ phase[c] = "serving" /\ ws[c] = "closed"
  /\ phase' = [phase EXCEPT ![c] = "finished"]
  /\ \/ /\ Len(queue[c]) < QMax
        /\ queue' = [queue EXCEPT ![c] = Append(@, End)]
        /\ clients' = clients \ {c}
     \/ /\ Len(queue[c]) = QMax
        /\ UNCHANGED <<queue, clients>>
  /\ UNCHANGED <<ws, streaming, enc, inbox, drops, sender, gap>>
-----------------------------------------------------------------------------
\* The encoder.

\* _on_encoded_frame: one callback per client of the runtime.
Broadcast(k) ==
  /\ streaming
  /\ \A c \in clients : Len(inbox[c]) < InboxMax
  /\ inbox' = [c \in Sessions |-> IF c \in clients THEN Append(inbox[c], k) ELSE inbox[c]]
  /\ UNCHANGED <<conn, restarts, queue, drops, sender, gap>>

EmitHdr == encoder = "hdr" /\ Broadcast("hdr") /\ encoder' = "idr"
EmitIdr == encoder = "idr" /\ Broadcast("idr") /\ encoder' = "p"
EmitP   == encoder = "p" /\ Broadcast("p") /\ encoder' = "p"

\* The GOP ends: every IDR comes with its parameter sets.
NextGop == encoder = "p" /\ Broadcast("hdr") /\ encoder' = "idr"

\* The ffmpeg process exits; feed_frame then returns without a word.
EncoderDies ==
  /\ encoder # "dead"
  /\ encoder' = "dead"
  /\ UNCHANGED <<conn, restarts, inbox, queue, drops, sender, gap>>

\* A restart asked for by a quality change, a hotplug or REQUEST_FULL_FRAME.
RestartEncoder ==
  /\ clients # {}
  /\ restarts < MaxRestarts
  /\ restarts' = restarts + 1
  /\ encoder' = RequestedEncoder
  /\ UNCHANGED <<conn, inbox, queue, drops, sender, gap>>

\* Audio, cursor, clipboard and health messages share the send queue.  The
\* inbox's last place is left to the encoder, so that they can't keep it out.
PushCtl(c) ==
  /\ c \in clients
  /\ Len(inbox[c]) < InboxMax - 1
  /\ inbox' = [inbox EXCEPT ![c] = Append(@, "ctl")]
  /\ UNCHANGED <<conn, enc, queue, drops, sender, gap>>
-----------------------------------------------------------------------------
\* The send queue and the sender task.

\* What of the queue stays when item k arrives: an IDR supersedes everything,
\* any other item pushes the oldest one out of a full queue.
Overflows(c, k) == k # "idr" /\ Len(queue[c]) = QMax
KeptOldest(c, k) ==
  IF k = "idr" THEN <<>> ELSE SubSeq(queue[c], 1, Len(queue[c]) - IF Overflows(c, k) THEN 1 ELSE 0)
Kept(c, k) ==
  IF k = "idr" THEN <<>> ELSE IF Overflows(c, k) THEN Tail(queue[c]) ELSE queue[c]

\* The drop streak after k: an IDR ends it, a drop prolongs it.
StreakNotReset(c, k) == IF Overflows(c, k) THEN (IF drops[c] = 0 THEN 1 ELSE 2) ELSE drops[c]
Streak(c, k) ==
  IF k = "idr" THEN 0
  ELSE IF Overflows(c, k) THEN (IF drops[c] = 0 THEN 1 ELSE 2) ELSE drops[c]

\* The first drop of a streak asks the encoder for an IDR.
AsksOnSecondDrop(c, k) == Overflows(c, k) /\ drops[c] = 1
AsksForIdr(c, k) == Overflows(c, k) /\ drops[c] = 0

\* enqueue() of the oldest scheduled callback of session c.
RunEnqueue(c) ==
  LET k == Head(inbox[c]) IN
  /\ inbox[c] # <<>>
  /\ inbox' = [inbox EXCEPT ![c] = Tail(@)]
  /\ queue' = [queue EXCEPT ![c] = Append(Kept(c, k), k)]
  /\ drops' = [drops EXCEPT ![c] = Streak(c, k)]
  /\ encoder' = IF AsksForIdr(c, k) THEN RequestedEncoder ELSE encoder
  /\ gap' = [gap EXCEPT ![c] =
               k # "idr" /\ (@ \/ (Overflows(c, k) /\ Head(queue[c]) \in Video))]
  /\ UNCHANGED <<conn, restarts, sender>>

\* _send_loop: get() returns the oldest entry; the sentinel ends the task.
SenderTake(c) ==
  /\ sender[c] = "waiting"
  /\ queue[c] # <<>>
  /\ queue' = [queue EXCEPT ![c] = Tail(@)]
  /\ sender' = [sender EXCEPT ![c] = IF Head(queue[c]) = End THEN "ended" ELSE "sending"]
  /\ UNCHANGED <<conn, enc, inbox, drops, gap>>

\* ws.send returns once the peer has taken the data; on a closed websocket it
\* raises ConnectionClosed, which ends the task.
SenderGoesOn(c) ==
  /\ sender[c] = "sending"
  /\ sender' = [sender EXCEPT ![c] = "waiting"]
  /\ UNCHANGED <<conn, enc, inbox, queue, drops, gap>>
SenderDone(c) ==
  /\ sender[c] = "sending"
  /\ sender' = [sender EXCEPT ![c] = IF ws[c] = "open" THEN "waiting" ELSE "ended"]
  /\ UNCHANGED <<conn, enc, inbox, queue, drops, gap>>
-----------------------------------------------------------------------------
Next ==
  \/ EmitHdr \/ EmitIdr \/ EmitP \/ NextGop
  \/ EncoderDies \/ RestartEncoder
  \/ \E c \in Sessions :
       \/ Join(c) \/ WsClose(c) \/ HandlerExit(c)
       \/ PushCtl(c) \/ RunEnqueue(c) \/ SenderTake(c) \/ SenderDone(c)

\* The loop runs every scheduled callback and every ready task; handle_client
\* notices a closed websocket; a started ffmpeg delivers its first GOP.  A
\* peer need not take data and nothing need close: SenderDone is fair only
\* on a closed websocket.
Fairness ==
  /\ WF_vars(EmitHdr) /\ WF_vars(EmitIdr)
  /\ \A c \in Sessions :
       /\ WF_vars(RunEnqueue(c))
       /\ WF_vars(SenderTake(c))
       /\ WF_vars(HandlerExit(c))
       /\ WF_vars(ws[c] = "closed" /\ SenderDone(c))

Spec == Init /\ [][Next]_vars /\ Fairness
-----------------------------------------------------------------------------
\* An IDR for session c is on its way: the encoder's next keyframe has not
\* been delivered yet, or it waits in the session's inbox.
IdrComing(c) ==
  \/ encoder \in {"hdr", "idr"}
  \/ \E i \in 1..Len(inbox[c]) : inbox[c][i] = "idr"

(* A client whose video has a hole, because frames were dropped from its
   queue or because it has just joined, always has an IDR coming; only a
   dead encoder can leave it without one (enqueue's request on the first
   drop of a streak, add_client's request for a joining client). *)
RecoveryPending ==
  \A c \in clients : gap[c] => IdrComing(c) \/ encoder = "dead"

(* An IDR in the queue is the oldest entry: once it is queued nothing older
   is sent before it, so a stalled client resumes at the newest picture it
   can decode (enqueue's clearing and its drop-oldest order together). *)
IdrHeadsQueue ==
  \A c \in Sessions : \A i \in 1..Len(queue[c]) : queue[c][i] = "idr" => i = 1

(* A hole in a client's video is closed by an IDR without waiting for the
   end of the GOP, unless the client goes away or the encoder dies. *)
Resync ==
  \A c \in Sessions :
    (c \in clients /\ gap[c]) ~> (~gap[c] \/ ws[c] = "closed" \/ encoder = "dead")

(* The sender task of a closed connection ends, whether or not the sentinel
   found room in the queue or was pushed out of it again. *)
SenderEnds ==
  \A c \in Sessions :
    (phase[c] = "serving" /\ ws[c] = "closed") ~> (sender[c] = "ended")

\* What a queue holds for its client: everything but the sentinel.
Data(q) ==
  IF \E i \in 1..Len(q) : q[i] = End
  THEN LET e == CHOOSE i \in 1..Len(q) : q[i] = End
       IN [i \in 1..Len(q) - 1 |-> q[IF i < e THEN i ELSE i + 1]]
  ELSE q

(* Inbox and queue together are an order-preserving stream that loses its
   oldest entries only. *)
Pending == [c \in Sessions |-> Data(queue[c]) \o inbox[c]]
Stream == INSTANCE LossyStream WITH pending <- Pending
OldestLostOnly == Stream!Spec
=============================================================================
