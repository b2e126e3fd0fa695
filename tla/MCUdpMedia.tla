----------------------------- MODULE MCUdpMedia -----------------------------
(* UdpMedia for TLC: the frames the server has to send. *)
EXTENDS UdpMedia
MCMedia ==
  {[channel |-> "video", frags |-> 2, key |-> k, probe |-> FALSE] : k \in BOOLEAN}
    \cup {[channel |-> "audio", frags |-> 1, key |-> FALSE, probe |-> FALSE]}
=============================================================================
