----------------------------- MODULE MCPrograms -----------------------------
(* One device; the programs are chosen at the start. *)
EXTENDS Programs, TLC
CONSTANT d
MCDevices == {d}
=============================================================================
