-------------------------- MODULE MCCommitPipeline --------------------------
(* A queue of four slots, hence three operations at a time, and workloads    *)
(* of more operations than that.                                             *)
EXTENDS CommitPipeline, TLC

CONSTANTS b1, b2, b3, b4, b5

Ops(k, w) == Cardinality({b \in Batch : w[b] = k})

\* Five plain commits, so that slots are used again while one is still being
\* cleared; commits between two ingests; commits that sync; and five whose
\* callers do not wait for the sync, more than may wait for it at a time.
MCWorkloads ==
    {w \in [Batch -> Kind] :
        \/ Ops("noSync", w) = 5
        \/ Ops("ingest", w) = 2 /\ Ops("noSync", w) = 1 /\ Ops("empty", w) = 2
        \/ Ops("ingest", w) = 1 /\ Ops("noSync", w) = 2 /\ Ops("empty", w) = 2
        \/ Ops("sync", w) = 1 /\ Ops("empty", w) = 3
             /\ Ops("noSyncWait", w) + Ops("noSync", w) = 1
        \/ Ops("sync", w) = 2 /\ Ops("empty", w) = 3
        \/ Ops("noSyncWait", w) = 5}

\* Bound: the last of these workloads is explored with at most one Commit at a
\* time beside the flush loop.
MCOneByOne == Ops("noSyncWait", kind) = 5 => Cardinality(commitQueueSem) <= 1

MCCount == [k \in Kind |-> IF k = "ingest" THEN 2 ELSE 1]

MCSymmetry == Permutations(Batch)
=============================================================================
