---------------------------- MODULE MCInterrupts ----------------------------
(* Interrupts with the bounds of MCInterrupts.cfg. *)
EXTENDS Interrupts
=============================================================================
