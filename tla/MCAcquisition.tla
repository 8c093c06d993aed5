---------------------------- MODULE MCAcquisition ----------------------------
(***************************************************************************)
(* Acquisition for TLC: the durations keep their order, in few units of    *)
(* time.                                                                   *)
(***************************************************************************)
EXTENDS Acquisition
=============================================================================
