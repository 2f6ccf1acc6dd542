----------------------------- MODULE FrameChain -----------------------------
(***************************************************************************)
(* What a time reel promises its readers, whatever goroutines, pending     *)
(* buffers, crashes and restarts lie underneath: a single chain of frames  *)
(* that starts at the genesis frame and only ever grows, by one frame at a *)
(* time, at its end.  Follows(p, f) says when f may be put after p: the    *)
(* master reel insists on the parent selector, the data reel does not.     *)
(***************************************************************************)
EXTENDS Naturals, Sequences

CONSTANTS Frame, Genesis, Follows(_, _)

VARIABLE chain

\* The last frame of the chain, the head of the reel.
Tip == chain[Len(chain)]

Init == chain = <<Genesis>>

Extend(f) == /\ Follows(Tip, f)
             /\ chain' = Append(chain, f)

Next == \E f \in Frame : Extend(f)

Spec == Init /\ [][Next]_chain
=============================================================================
