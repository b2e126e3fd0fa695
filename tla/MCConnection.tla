---------------------------- MODULE MCConnection ----------------------------
(* Connection for TLC: the instances are in the .cfg files. *)
EXTENDS Connection
=============================================================================
