-------------------------- MODULE MCMasterTimeReel --------------------------
(***************************************************************************)
(* A small instance of MasterTimeReel: a main chain g, a1, a2, a3, a fork  *)
(* b1, b2 of it, and the older genesis og of another network.              *)
(***************************************************************************)
EXTENDS MasterTimeReel

CONSTANTS g, a1, a2, a3, b1, b2, og

MCFrame == {g, a1, a2, a3, b1, b2, og}

MCFrameNumber ==
    [f \in Frame |-> CASE f \in {g, og} -> 0
                         [] f \in {a1, b1} -> 1
                         [] f \in {a2, b2} -> 2
                         [] f = a3 -> 3]

MCParentSelector ==
    [f \in Frame |-> CASE f \in {g, og} -> NoFrame
                         [] f \in {a1, b1} -> g
                         [] f = a2 -> a1
                         [] f = b2 -> b1
                         [] f = a3 -> a2]

MCDifficulty == [f \in Frame |-> IF f = og THEN 100000 ELSE 160000]
=============================================================================
