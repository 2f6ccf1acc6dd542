----------------------------- MODULE PrunedChain -----------------------------
(***************************************************************************)
(* What the data time reel promises the readers of its store, whatever     *)
(* callers, queued frames, crashes and restarts lie underneath: frames are *)
(* added at the end of a chain, one at a time, and taken away at its       *)
(* front, behind the genesis frame, but for the last keep of them.         *)
(* Follows(p, f) says when f may be put after p.                           *)
(***************************************************************************)
EXTENDS Naturals, Sequences

CONSTANTS Frame, Genesis, Follows(_, _)

VARIABLES
    served,  \* the frames that can be read, the genesis frame first
    keep     \* how many frames before the last stay; never changes

vars == <<served, keep>>

Init == served = <<Genesis>> /\ keep \in Nat

Extend(f) ==
    /\ Follows(served[Len(served)], f)
    /\ served' = Append(served, f)

\* The n frames behind the genesis frame are taken away.
Drop(n) ==
    /\ Len(served) - n > keep + 1
    /\ served' = <<Genesis>> \o SubSeq(served, n + 2, Len(served))

Next ==
    /\ \/ \E f \in Frame : Extend(f)
       \/ \E n \in 1 .. Len(served) : Drop(n)
    /\ keep' = keep

Spec == Init /\ [][Next]_vars
=============================================================================
