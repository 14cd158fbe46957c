----------------------------- MODULE MCKeyboard -----------------------------
(* Keyboard with the keys chosen in MCKeyboard.cfg and MCKeyboardHome.cfg. *)
EXTENDS Keyboard
=============================================================================
