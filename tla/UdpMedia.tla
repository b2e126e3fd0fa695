------------------------------ MODULE UdpMedia ------------------------------
(***************************************************************************)
(* Media over UDP: how a client and the server agree to use it (a probe    *)
(* that has to be confirmed over TCP, a timeout that falls back), how      *)
(* frames are cut into datagrams and put together again, and the jitter    *)
(* buffer between the receiver's thread and the playback thread.           *)
(*                                                                         *)
(* A client reconnects without stopping what served the last connection:   *)
(* the old receiver goes on reading its own port and hands its frames to   *)
(* whatever jitter buffer the client has by then.                          *)
(*                                                                         *)
(* Frames are numbered in the order they are sent; a frame's sequence      *)
(* number and time stamp only ever compare as that number does.  Datagrams *)
(* are a set: any may be delivered next, never or, within a bound, twice.  *)
(* No time passes: what the code does after a while it may do any time.    *)
(***************************************************************************)
EXTENDS Naturals, FiniteSets, Sequences

CONSTANTS
  Probes,      \* UDP_PROBE_RETRIES
  MaxFrags,    \* bound: datagrams of a frame
  Media,       \* the kinds of frames the server has to send
  MaxConns,    \* bound: connections the client makes
  MaxFrames,   \* bound: frames sent
  MaxDups      \* bound: datagrams delivered twice

ASSUME ProbesAssumption == Probes \in Nat \ {0}
ASSUME BoundsAssumption ==
  MaxFrags \in Nat \ {0} /\ MaxConns \in Nat /\ MaxFrames \in Nat /\ MaxDups \in Nat

VARIABLES
  conn,      \* the client's connections so far, the last is the current one
  phase,     \* client, per connection: how far _negotiate_udp has come
  probed,    \* client, per connection: _probe_received
  announce, confirm,  \* connections with that message on its way over TCP
  alive,     \* server: connections whose end it has not seen
  registered,\* server: UDPMediaServer._clients
  toProbe,   \* server, per connection: probes still to be sent
  timer,     \* server: connections whose probe timeout is scheduled
  confirmed, \* server: connections with udp_confirmed and mode UDP_MEDIA
  late,      \* history: confirmed only after the timeout had unregistered them
  sent,      \* the frames sent, FrameFragmenter's two counters with them
  net,       \* datagrams on their way
  held,      \* per receiver: fragments in _pending
  last,      \* per receiver and channel: _last_complete_seq
  arrived,   \* history, per receiver: all fragments it has seen
  buffer,    \* per jitter buffer, frame and receiver: how often it is in there
  shown,     \* history, per playback thread, receiver and channel: last frame
  dups

negotiation == <<phase, announce, confirm, alive, toProbe, timer, confirmed, late>>
reception   == <<probed, held, last, arrived>>
playback    == <<buffer, shown>>
udpVars == <<conn, negotiation, registered, sent, net, reception, playback, dups>>

Conns == 1..MaxConns
Channels == {"video", "audio"}
Frames == 1..MaxFrames
Kinds == [channel : Channels, frags : 1..MaxFrags, key : BOOLEAN, probe : BOOLEAN]
Probe == [channel |-> "video", frags |-> 1, key |-> FALSE, probe |-> TRUE]
ASSUME MediaAssumption ==
  /\ Media \subseteq {f \in Kinds : ~f.probe}
  /\ \A f \in Media : f.key => f.channel = "video"

Fragment == Frames \X (1..MaxFrags)
Datagram == [to : Conns, frag : Fragment]

UdpTypeOK ==
  /\ conn \in 0..MaxConns
  /\ phase \in [Conns -> {"none", "announced", "udp", "tcp"}]
  /\ announce \subseteq Conns /\ confirm \subseteq Conns
  /\ alive \subseteq Conns /\ registered \subseteq alive
  /\ toProbe \in [Conns -> 0..Probes]
  /\ timer \subseteq Conns /\ confirmed \subseteq Conns /\ late \subseteq Conns
  /\ probed \subseteq Conns
  /\ sent \in Seq(Kinds) /\ Len(sent) <= MaxFrames
  /\ net \subseteq Datagram
  /\ held \in [Conns -> SUBSET Fragment] /\ arrived \in [Conns -> SUBSET Fragment]
  /\ last \in [Conns -> [Channels -> 0..MaxFrames]]
  /\ buffer \in [Conns -> [Frames \X Conns -> Nat]]
  /\ shown \in [Conns -> [Conns -> [Channels -> 0..MaxFrames]]]
  /\ dups \in 0..MaxDups

UdpInit ==
  /\ conn = 0
  /\ phase = [c \in Conns |-> "none"]
  /\ announce = {} /\ confirm = {}
  /\ alive = {} /\ registered = {} /\ timer = {} /\ confirmed = {} /\ late = {}
  /\ toProbe = [c \in Conns |-> 0]
  /\ probed = {} /\ sent = <<>> /\ net = {}
  /\ held = [c \in Conns |-> {}] /\ arrived = [c \in Conns |-> {}]
  /\ last = [c \in Conns |-> [ch \in Channels |-> 0]]
  /\ buffer = [c \in Conns |-> [e \in Frames \X Conns |-> 0]]
  /\ shown = [t \in Conns |-> [c \in Conns |-> [ch \in Channels |-> 0]]]
  /\ dups = 0
-----------------------------------------------------------------------------
\* The client's side of the negotiation.

\* _negotiate_udp up to its sleep.  Nothing of the last connection is stopped.
NegotiateUdp ==
  /\ conn < MaxConns
  /\ conn' = conn + 1
  /\ phase' = [phase EXCEPT ![conn'] = "announced"]
  /\ announce' = announce \cup {conn'}
  /\ alive' = alive \cup {conn'}
  /\ UNCHANGED <<confirm, registered, toProbe, timer, confirmed, late, sent, net,
                 reception, playback, dups>>

\* ... and after it: check_probe_received, asked once.
CheckProbeHoping(c) ==
  /\ c = conn /\ phase[c] = "announced"
  /\ phase' = [phase EXCEPT ![c] = "udp"]
  /\ confirm' = confirm \cup {c}
  /\ UNCHANGED <<conn, announce, alive, toProbe, timer, confirmed,
                 late, registered, sent, net, reception, playback, dups>>
CheckProbe(c) ==
  /\ c = conn /\ phase[c] = "announced"
  /\ phase' = [phase EXCEPT ![c] = IF c \in probed THEN "udp" ELSE "tcp"]
  /\ confirm' = IF c \in probed THEN confirm \cup {c} ELSE confirm
  /\ UNCHANGED <<conn, announce, alive, toProbe, timer, confirmed,
                 late, registered, sent, net, reception, playback, dups>>
-----------------------------------------------------------------------------
\* The server's side: handle_transport_message, one message of a client at a
\* time, the timeout, and remove_client.

HandleAnnounce(c) ==
  /\ c \in announce \cap alive
  /\ announce' = announce \ {c}
  /\ registered' = registered \cup {c}
  /\ toProbe' = [toProbe EXCEPT ![c] = Probes]
  /\ UNCHANGED <<conn, phase, confirm, alive, timer, confirmed, late,
                 sent, net, reception, playback, dups>>

HandleConfirm(c) ==
  /\ c \in confirm \cap alive
  /\ c \notin announce /\ toProbe[c] = 0
  /\ confirm' = confirm \ {c}
  /\ confirmed' = confirmed \cup {c}
  /\ late' = IF c \in registered THEN late ELSE late \cup {c}
  /\ UNCHANGED <<conn, phase, announce, alive, toProbe, timer,
                 registered, sent, net, reception, playback, dups>>

\* _check_probe_timeout; it finds nothing when the client has been removed.
ProbeTimeoutAlways(c) ==
  /\ c \in timer
  /\ timer' = timer \ {c}
  /\ registered' = registered \ {c}
  /\ UNCHANGED <<conn, phase, announce, confirm, alive, toProbe,
                 confirmed, late, sent, net, reception, playback, dups>>
ProbeTimeout(c) ==
  /\ c \in timer
  /\ timer' = timer \ {c}
  /\ registered' = IF c \in alive \ confirmed THEN registered \ {c} ELSE registered
  /\ UNCHANGED <<conn, phase, announce, confirm, alive, toProbe,
                 confirmed, late, sent, net, reception, playback, dups>>

Remove(c) ==
  /\ c \in alive
  /\ alive' = alive \ {c}
  /\ registered' = registered \ {c}
  /\ confirmed' = confirmed \ {c}
  /\ toProbe' = [toProbe EXCEPT ![c] = 0]
  /\ UNCHANGED <<conn, phase, announce, confirm, timer, late, sent, net,
                 reception, playback, dups>>
-----------------------------------------------------------------------------
\* Frames leave for every registered client, cut into datagrams.

Fragments(n, f) == {<<n, i>> : i \in 1..f.frags}
Transmit(f) ==
  /\ sent' = Append(sent, f)
  /\ net' = net \cup [to : registered, frag : Fragments(Len(sent) + 1, f)]

\* send_video_frame and send_audio_frame, given to a caller that asked
\* should_use_udp for some client.
Send(f) ==
  /\ confirmed # {} /\ registered # {} /\ Len(sent) < MaxFrames
  /\ Transmit(f)
  /\ UNCHANGED <<conn, negotiation, registered, reception, playback, dups>>

\* One turn of the loop that sends the probes, to every client as all frames
\* are; after the last one the timeout is scheduled.
SendProbe(c) ==
  /\ toProbe[c] > 0
  /\ toProbe' = [toProbe EXCEPT ![c] = @ - 1]
  /\ timer' = IF toProbe[c] = 1 THEN timer \cup {c} ELSE timer
  /\ IF registered = {} \/ Len(sent) = MaxFrames
     THEN UNCHANGED <<sent, net>>
     ELSE Transmit(Probe)
  /\ UNCHANGED <<conn, phase, announce, confirm, alive, confirmed, late,
                 registered, reception, playback, dups>>
-----------------------------------------------------------------------------
\* A datagram reaches a receiver: feed_packet, then the callbacks.

Of(n) == sent[n]
HeldForChannel(c, n) == {p \in held[c] : Of(p[1]).channel = Of(n).channel}
HeldFor(c, n) == {p \in held[c] : p[1] = n}
Older(c, n) == {p \in held[c] : Of(p[1]).channel = Of(n).channel /\ p[1] < n}

\* JitterBuffer.push, into the client's current buffer.  A keyframe clears it,
\* of newer frames and audio too.
Push(c, n) ==
  buffer' = [buffer EXCEPT ![conn] = [e \in Frames \X Conns |->
    (IF Of(n).key THEN 0 ELSE buffer[conn][e]) + (IF e = <<n, c>> THEN 1 ELSE 0)]]

\* Frames older than the last complete one are skipped, an equal one is not.
SkipsNone(c, n) == FALSE
Skips(c, n) == n < last[c][Of(n).channel]

Feed(c, p) ==
  LET n == p[1]
      whole == Cardinality(HeldFor(c, n) \cup {p}) = Of(n).frags
  IN IF Skips(c, n) THEN UNCHANGED <<held, last, probed, buffer>>
     ELSE IF ~whole
     THEN /\ held' = [held EXCEPT ![c] = @ \cup {p}]
          /\ UNCHANGED <<last, probed, buffer>>
     ELSE /\ held' = [held EXCEPT ![c] = @ \ (HeldFor(c, n) \cup Older(c, n))]
          /\ last' = [last EXCEPT ![c][Of(n).channel] = n]
          /\ IF Of(n).probe
             THEN probed' = probed \cup {c} /\ UNCHANGED buffer
             ELSE Push(c, n) /\ UNCHANGED probed

Deliver(d) ==
  /\ d \in net
  /\ \/ net' = net \ {d} /\ dups' = dups
     \/ dups < MaxDups /\ net' = net /\ dups' = dups + 1
  /\ arrived' = [arrived EXCEPT ![d.to] = @ \cup {d.frag}]
  /\ Feed(d.to, d.frag)
  /\ UNCHANGED <<conn, negotiation, registered, sent, shown>>

\* cleanup_timed_out
GiveUp(c, n) ==
  /\ HeldFor(c, n) # {}
  /\ held' = [held EXCEPT ![c] = @ \ HeldFor(c, n)]
  /\ UNCHANGED <<conn, negotiation, registered, sent, net, probed, last,
                 arrived, playback, dups>>

\* The playback thread takes the frame with the lowest time stamp, and drops
\* those after it that have been there too long.  Which those are is open.
First(b, e) ==
  /\ buffer[b][e] > 0
  /\ \A x \in Frames \X Conns : buffer[b][x] > 0 => e[1] <= x[1]
Play(b) ==
  \E e \in Frames \X Conns, upTo \in 0..MaxFrames :
    /\ First(b, e)
    /\ shown' = [shown EXCEPT ![b][e[2]][Of(e[1]).channel] = e[1]]
    /\ buffer' = [buffer EXCEPT ![b] = [x \in Frames \X Conns |->
         IF x = e THEN (IF x[1] <= upTo THEN 0 ELSE buffer[b][x] - 1)
                  ELSE IF x[1] <= upTo THEN 0 ELSE buffer[b][x]]]
    /\ UNCHANGED <<conn, negotiation, registered, sent, net, reception, dups>>
-----------------------------------------------------------------------------
UdpNext ==
  \/ NegotiateUdp
  \/ \E c \in Conns : CheckProbe(c)
  \/ \E c \in Conns : HandleAnnounce(c)
  \/ \E c \in Conns : HandleConfirm(c)
  \/ \E c \in Conns : ProbeTimeout(c)
  \/ \E c \in Conns : Remove(c)
  \/ \E c \in Conns : SendProbe(c)
  \/ \E f \in Media : Send(f)
  \/ \E d \in net : Deliver(d)
  \/ \E c \in Conns, n \in 1..Len(sent) : GiveUp(c, n)
  \/ \E b \in Conns : Play(b)

UdpSpec == UdpInit /\ [][UdpNext]_udpVars
-----------------------------------------------------------------------------
\* A frame that reaches the jitter buffer or the screen is whole: all its own
\* fragments arrived at the receiver that put it together (feed_packet), be
\* they late, twice, out of order or mixed with those of other frames.
Whole(c, n) == Fragments(n, Of(n)) \subseteq arrived[c]
FramesWhole ==
  /\ \A b \in Conns, n \in Frames, c \in Conns : buffer[b][<<n, c>>] > 0 => Whole(c, n)
  /\ \A t \in Conns, c \in Conns, ch \in Channels :
       shown[t][c][ch] # 0 => Whole(c, shown[t][c][ch])

\* What one playback thread shows of one receiver never goes back in time, in
\* either channel: datagrams are reordered and repeated, the receiver skips,
\* the buffer sorts, keyframes flush (feed_packet, push, _playback_loop).
NeverBack ==
  [][\A t \in Conns, c \in Conns, ch \in Channels :
       shown'[t][c][ch] >= shown[t][c][ch]]_udpVars

\* The server sends a client's media over UDP only when a datagram has come
\* through to that very connection's port and, unless the confirmation came
\* after the timeout, only while it has the address to send to
\* (should_use_udp, _check_probe_timeout).
ProvenPath == confirmed \subseteq probed /\ confirmed \subseteq registered \cup late
=============================================================================
