----------------------------- MODULE MCClientParts -----------------------------
(* ClientParts for TLC: two desktops with monitors of different heights, one of
   them lower than its neighbour; widgets wider, higher, smaller and larger. *)
EXTENDS ClientParts, TLC

MCDesktops ==
  {<<[x |-> 0, y |-> 0, w |-> 8, h |-> 5], [x |-> 8, y |-> 0, w |-> 5, h |-> 7]>>,
   <<[x |-> 0, y |-> 2, w |-> 6, h |-> 4], [x |-> 6, y |-> 0, w |-> 4, h |-> 6],
     [x |-> 10, y |-> 1, w |-> 7, h |-> 5]>>}
MCWidgets ==
  {[w |-> 9, h |-> 6], [w |-> 12, h |-> 5], [w |-> 20, h |-> 17], [w |-> 5, h |-> 11]}

\* Clients of one user are alike, and so are ids.
MCSymmetry == Permutations(Programs) \cup Permutations(Names)
================================================================================
