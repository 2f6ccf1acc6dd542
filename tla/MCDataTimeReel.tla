--------------------------- MODULE MCDataTimeReel ---------------------------
(***************************************************************************)
(* Small instances of DataTimeReel: the chain g, a1, a2, a3 with a sibling *)
(* b1 of a1 or b2 of a2.                                                   *)
(***************************************************************************)
EXTENDS DataTimeReel, TLC

CONSTANTS g, a1, a2, a3, b1, b2, gossip, sync

\* A fork at height 1, also a short one, and one at height 2.
MCFork == {g, a1, a2, a3, b1}
MCShort == {g, a1, a2, b1}
MCSiblings == {g, a1, a2, a3, b2}

\* Nothing is pruned and nothing fails.
Plain == [alwaysSend |-> FALSE, queueCap |-> 2, maxFrames |-> 3, invalid |-> {},
          maxCrashes |-> 0]
MCPlain == {Plain}
MCAlwaysSend == {[Plain EXCEPT !.alwaysSend = TRUE]}

\* The first sibling at height 2 is invalid; or the process dies, and its store is
\* pruned and its queue short.
MCSettings ==
    {[Plain EXCEPT !.invalid = {b2}],
     [alwaysSend |-> TRUE, queueCap |-> 1, maxFrames |-> 1, invalid |-> {},
      maxCrashes |-> 1]}

MCNumber == (g :> 0) @@ (a1 :> 1) @@ (b1 :> 1) @@ (a2 :> 2) @@ (b2 :> 2) @@ (a3 :> 3)

MCParent ==
    (g :> NoFrame) @@ (a1 :> g) @@ (b1 :> g) @@ (a2 :> a1) @@ (b2 :> a1) @@ (a3 :> a2)

MCRank ==
    (g :> 1) @@ (a1 :> 2) @@ (b1 :> 3) @@ (a2 :> 5) @@ (b2 :> 4) @@ (a3 :> 6)

MCFrameNumber == [f \in Frame |-> MCNumber[f]]
MCParentSelector == [f \in Frame |-> MCParent[f]]
MCSelectorRank == [f \in Frame |-> MCRank[f]]
=============================================================================
