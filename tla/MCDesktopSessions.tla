-------------------------- MODULE MCDesktopSessions --------------------------
(* DesktopSessions for TLC: users may be exchanged for each other. *)
EXTENDS DesktopSessions, TLC
UserSymmetry == Permutations(Users)
=============================================================================
