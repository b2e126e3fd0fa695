---------------------------- MODULE MCSendQueue ----------------------------
(* SendQueue for TLC: the instances are in the .cfg files. *)
EXTENDS SendQueue
=============================================================================
