------------------------ MODULE MCControllerLifecycle ------------------------
(***************************************************************************)
(* ControllerLifecycle for TLC: bounds are given in the configurations.    *)
(***************************************************************************)
EXTENDS ControllerLifecycle
=============================================================================
