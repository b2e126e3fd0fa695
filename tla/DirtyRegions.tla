---------------------------- MODULE DirtyRegions ----------------------------
(***************************************************************************)
(* What the JPEG loop sends of a frame: the blocks that changed, joined    *)
(* into larger rectangles.  A pure algorithm: blocks with a change are     *)
(* given, JPEG coding and the threshold for a change are left out.         *)
(***************************************************************************)
EXTENDS Naturals, Sequences, FiniteSets, SequencesExt

CONSTANTS Width, Height, BlockSize

ASSUME RegionsAssumption == Width \in Nat /\ Height \in Nat /\ BlockSize \in Nat \ {0}

Region(x, y, w, h) == [x |-> x, y |-> y, w |-> w, h |-> h]

\* _find_dirty_blocks: corners of blocks; those at the edge stick out.
Starts(size) == {i \in 0..(size - 1) : i % BlockSize = 0}
Blocks == {Region(x, y, BlockSize, BlockSize) : x \in Starts(Width), y \in Starts(Height)}

\* _merge_regions, first along the rows: spans that touch become one,
\* from left to right.
Join(spans, r) ==
  IF spans # <<>> /\ r.x <= Last(spans).x + Last(spans).w
  THEN Append(Front(spans), [Last(spans) EXCEPT !.w = r.x + r.w - Last(spans).x])
  ELSE Append(spans, r)

Row(blocks, y) ==
  LET spans[n \in 0..Width] ==
        IF n = 0 THEN <<>>
        ELSE LET r == Region(n - 1, y, BlockSize, BlockSize) IN
             IF r \in blocks THEN Join(spans[n - 1], r) ELSE spans[n - 1] IN
  spans[Width]

\* Not the code: spans of different widths are put on top of each other.
StackAny(regions, r) ==
  IF regions # <<>> /\ r.x = Last(regions).x /\ r.y = Last(regions).y + Last(regions).h
  THEN Append(Front(regions), [Last(regions) EXCEPT !.h = @ + r.h])
  ELSE Append(regions, r)

\* Then downwards: spans of equal ends on top of each other.
Stack(regions, r) ==
  IF /\ regions # <<>>
     /\ r.x = Last(regions).x /\ r.w = Last(regions).w
     /\ r.y = Last(regions).y + Last(regions).h
  THEN Append(Front(regions), [Last(regions) EXCEPT !.h = @ + r.h])
  ELSE Append(regions, r)

\* Sorted by x, then by y.
Order(r) == r.x * Height + r.y

Merged(blocks) ==
  LET rows == UNION {ToSet(Row(blocks, y)) : y \in Starts(Height)}
      final[n \in 0..(Width * Height)] ==
        IF n = 0 THEN <<>>
        ELSE LET next == {r \in rows : Order(r) = n - 1} IN
             IF next = {} THEN final[n - 1]
             ELSE Stack(final[n - 1], CHOOSE r \in next : TRUE) IN
  final[Width * Height]

\* capture_dirty_regions cuts off what sticks out.
Least(a, b) == IF a < b THEN a ELSE b
Cut(r) == [r EXCEPT !.w = Least(r.x + r.w, Width) - r.x, !.h = Least(r.y + r.h, Height) - r.y]
DirtyRegions(blocks) ==
  [i \in 1..Len(Merged(blocks)) |-> Cut(Merged(blocks)[i])]

Pixels(r) == {p \in (0..(Width - 1)) \X (0..(Height - 1)) :
                p[1] \in r.x..(r.x + r.w - 1) /\ p[2] \in r.y..(r.y + r.h - 1)}

\* Every changed pixel is in a region, nothing else is, and none is in two.
Exact(blocks, sent) ==
  /\ UNION {Pixels(sent[i]) : i \in 1..Len(sent)} = UNION {Pixels(b) : b \in blocks}
  /\ \A i \in 1..Len(sent) :
       /\ Pixels(sent[i]) # {}
       /\ \A j \in 1..(i - 1) : Pixels(sent[i]) \cap Pixels(sent[j]) = {}
AllExact == \A blocks \in SUBSET Blocks : Exact(blocks, DirtyRegions(blocks))

=============================================================================
