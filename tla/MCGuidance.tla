----------------------------- MODULE MCGuidance -----------------------------
(* The instance of Guidance that is model-checked. *)
EXTENDS Guidance, TLC
\* The mounting recorded in the manual, and one that turns the axes around.
MCTruths == {<<-2, 1, 3>>, <<3, 1, 2>>}
MCTried == {<<1, 2, 3>>, <<-2, 1, 3>>}
\* Nothing chosen yet, a saved mounting that is no rotation, and an axis twice.
MCLoaded == {<<0, 0, 0>>, <<-1, 2, 3>>, <<1, 1, 0>>}
=============================================================================
