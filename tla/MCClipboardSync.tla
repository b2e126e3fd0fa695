-------------------------- MODULE MCClipboardSync --------------------------
(* ClipboardSync for TLC: the instances are in the .cfg files. *)
EXTENDS ClipboardSync
=============================================================================
