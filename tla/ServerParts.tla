----------------------------- MODULE ServerParts -----------------------------
(***************************************************************************)
(* Parts of the server that have no state in common: the receiver of       *)
(* uploads, and the screen capture on a Mac and through NvFBC.  A property *)
(* of one is about the steps of that one only, so one of them moves and    *)
(* the others rest.                                                        *)
(***************************************************************************)
EXTENDS FileTransfer, MacCapture, NvFbc

VARIABLE moving  \* the part that moves

PartsInit ==
  /\ moving \in {"uploads", "mac", "nvfbc"}
  /\ Init /\ MacInit /\ NvFbcInit
  \* A part that rests does so in one state.
  /\ moving # "mac" => displays = CHOOSE a \in Arrangements : TRUE
  /\ moving # "nvfbc" => xscreen = CHOOSE w \in Widths : TRUE

Uploads == moving = "uploads" /\ Next /\ UNCHANGED <<macVars, nvfbcVars, moving>>
MacCaptures == moving = "mac" /\ MacNext /\ UNCHANGED <<vars, nvfbcVars, moving>>
NvFbcCaptures == moving = "nvfbc" /\ NvFbcNext /\ UNCHANGED <<vars, macVars, moving>>

PartsSpec ==
  /\ PartsInit
  /\ [][Uploads \/ MacCaptures \/ NvFbcCaptures]_<<vars, macVars, nvfbcVars, moving>>
  /\ Fairness /\ MacFairness
=============================================================================
