------------------------------ MODULE MCSweeps ------------------------------
(* The instance of Sweeps that is model-checked. *)
EXTENDS Sweeps, TLC
=============================================================================
