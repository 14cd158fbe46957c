------------------------------- MODULE Format -------------------------------
(***************************************************************************)
(* What the reader of a format (Scanner) and the printer of its directives *)
(* (Printf) have in common.                                                *)
(***************************************************************************)
EXTENDS Integers

(* A width or precision given as "*" or, a precision, not given.           *)
Star == -1
None == -2

Power(b) == LET p[n \in Nat] == IF n = 0 THEN 1 ELSE b * p[n - 1] IN p
=============================================================================
