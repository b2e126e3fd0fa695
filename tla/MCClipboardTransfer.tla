------------------------ MODULE MCClipboardTransfer ------------------------
(* ClipboardTransfer for TLC: the instances are in the .cfg files. *)
EXTENDS ClipboardTransfer
=============================================================================
