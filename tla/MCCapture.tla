----------------------------- MODULE MCCapture -----------------------------
(* One monitor, a second one beside it, and both in swapped places; an      *)
(* ffmpeg without AV1, whose first H.265 encoder lacks 4:4:4.               *)
EXTENDS Capture

A(x) == [name |-> "A", x |-> x, w |-> 1]
B(x) == [name |-> "B", x |-> x, w |-> 2]
MCLayouts == {<<A(0)>>, <<A(0), B(1)>>, <<A(2), B(0)>>}

MCOffered ==
  [h264 |-> <<[codec |-> "h264", full |-> TRUE]>>,
   h265 |-> <<[codec |-> "h265", full |-> FALSE], [codec |-> "h265", full |-> TRUE]>>,
   av1 |-> <<>>]
MCSettings ==
  {[codec |-> "h264", full |-> FALSE], [codec |-> "h265", full |-> TRUE],
   [codec |-> "av1", full |-> FALSE]}
=============================================================================
