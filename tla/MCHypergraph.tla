---------------------------- MODULE MCHypergraph ----------------------------
(***************************************************************************)
(* A small instance of Hypergraph: h1 connects v1, h2 connects h1 and v2.  *)
(* The two vertices are in one shard, whose tree then has no size.         *)
(* One replica has room for an operation on every atom, the other for one  *)
(* less.                                                                   *)
(***************************************************************************)
EXTENDS Hypergraph, TLC

CONSTANTS r1, r2, v1, v2, h1, h2

MCExtrinsics == (h1 :> {v1}) @@ (h2 :> {h1, v2})
MCNested == (h1 :> {v1}) @@ (h2 :> {h1, v1, v2})
MCSize == (v1 :> 1) @@ (v2 :> 2) @@ (h1 :> 1) @@ (h2 :> 2)
MCShardKey == (v1 :> 1) @@ (v2 :> 1)
MCMaxOps == (r1 :> 4) @@ (r2 :> 3)
=============================================================================
