--------------------------- MODULE MCFrameMessages ---------------------------
(***************************************************************************)
(* Small instances of FrameMessages: three frames, published in different  *)
(* ways, and room for two buffers. Two of the frames have one number and   *)
(* one output, and only one of these verifies.                             *)
(***************************************************************************)
EXTENDS FrameMessages, TLC

CONSTANTS f1, f2, f3, p, s1, s2, s3, s4, s5

MCSigner == [f \in Frame |-> p]
MCFrameNumber == [f \in Frame |-> IF f = f2 THEN 2 ELSE 1]
MCOutput == [f \in Frame |-> IF f = f2 THEN 2 ELSE 1]
MCMode == [f \in Frame |-> CASE f = f1 -> "dual"
                             [] f = f2 -> "threshold"
                             [] OTHER -> "fragmented"]
MCShards == Permutations(Shard)
=============================================================================
