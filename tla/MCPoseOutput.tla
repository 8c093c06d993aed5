---------------------------- MODULE MCPoseOutput ----------------------------
(***************************************************************************)
(* Small instances of PoseOutput for TLC.                                  *)
(***************************************************************************)
EXTENDS PoseOutput
=============================================================================
