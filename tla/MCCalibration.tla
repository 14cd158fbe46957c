--------------------------- MODULE MCCalibration ---------------------------
(* Calibration with the output of an 8254. *)
EXTENDS Calibration
=============================================================================
