--------------------------- MODULE MCMotionHistory ---------------------------
(***************************************************************************)
(* MotionHistory for TLC: two readers with cursors of their own.  What its *)
(* samples come from and what is told beside them, the frames of a stream, *)
(* their times, telemetry and battery, are functions: MCSampleStream and   *)
(* MCReports assume of them what TLC then evaluates.                       *)
(***************************************************************************)
EXTENDS MotionHistory, MCSampleStream, MCReports
=============================================================================
