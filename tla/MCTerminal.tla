----------------------------- MODULE MCTerminal -----------------------------
(* Terminal on a screen of three rows of two cells; MCTerminal.cfg gives the sizes. *)
EXTENDS Terminal
=============================================================================
