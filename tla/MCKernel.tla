------------------------------ MODULE MCKernel ------------------------------
(* Kernel with the bounds of MCKernel.cfg. *)
EXTENDS Kernel
=============================================================================
