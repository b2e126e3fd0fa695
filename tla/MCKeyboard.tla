----------------------------- MODULE MCKeyboard -----------------------------
(* Two users with a modifier each; one of them also uses caps lock, the     *)
(* other a key of the keypad.                                               *)
EXTENDS Keyboard, TLC

CONSTANTS c1, c2

MCKeysOf == (c1 :> {"ctrl", "caps"}) @@ (c2 :> {"ctrl", "one"})
MCCodeOf == [k \in Keys |-> IF k = "ctrl" THEN "control" ELSE k]
=============================================================================
