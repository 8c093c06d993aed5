-------------------------- MODULE MCMagneticSession --------------------------
(***************************************************************************)
(* MagneticSession for TLC: the bounds are given in the configurations.    *)
(***************************************************************************)
EXTENDS MagneticSession
=============================================================================
