----------------------------- MODULE MCDataSync -----------------------------
(***************************************************************************)
(* Two peers: an honest one that announces frame 2 and then frame 3, and   *)
(* an unreliable one that announces frame 2. The node starts at frame 1.   *)
(***************************************************************************)
EXTENDS DataSync, TLC

CONSTANTS h, u

MCAnnounced == (h :> <<2, 3>>) @@ (u :> <<2>>)
=============================================================================
