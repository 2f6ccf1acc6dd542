----------------------------- MODULE Hypergraph -----------------------------
(***************************************************************************)
(* The hypergraph of node/hypergraph/application/hypergraph.go, held by    *)
(* several replicas, and its copy in node/store/hypergraph.go.             *)
(*                                                                         *)
(* A hypergraph is four grow-only sets: the vertices and the hyperedges    *)
(* that were added, and those that were removed. The sets are kept per     *)
(* shard and the shard is part of an atom's address, so each is modelled   *)
(* as the union of its shards. A shard is also a tree that sums up the     *)
(* sizes of its leaves (node/crypto/proof_tree.go), and of the trees the   *)
(* model keeps whether they have a size. A hyperedge is a value: its       *)
(* extrinsics are filled in before it is given to the hypergraph and do    *)
(* not change afterwards.                                                  *)
(*                                                                         *)
(* An operation that returns ErrMissingExtrinsics or ErrIsExtrinsic leaves *)
(* the hypergraph as it was; here it is an operation that is not enabled.  *)
(***************************************************************************)
EXTENDS Integers, FiniteSets, FiniteSetsExt

CONSTANTS
    Replica,     \* the parties that hold a copy
    Vertex,
    Hyperedge,
    Extrinsics,  \* Extrinsics[h]: the atoms the hyperedge h connects
    Nested,      \* Nested[h]: the atoms reached from h through extrinsics
    Size,        \* Size[a]: what GetSize answers for the atom
    ShardKey,    \* ShardKey[v]: the shard of the vertex
    MaxOps,      \* bound, per replica: operations it executes
    MaxLoads     \* bound: times the replicas read their copy back

Atom == Vertex \cup Hyperedge

Shard == {ShardKey[v] : v \in Vertex}

\* The address of an atom has 64 bytes, so there are finitely many.
ASSUME AtomAssumption ==
    /\ IsFiniteSet(Atom)
    /\ Vertex \cap Hyperedge = {}
    /\ Extrinsics \in [Hyperedge -> SUBSET Atom]
    /\ Size \in [Atom -> Nat]

\* What reachability through extrinsics amounts to. A hyperedge does not
\* contain itself: AddExtrinsic takes an atom that already exists.
ASSUME NestedAssumption ==
    /\ Nested \in [Hyperedge -> SUBSET Atom]
    /\ \A h \in Hyperedge :
          /\ h \notin Nested[h]
          /\ Extrinsics[h] \subseteq Nested[h]
          /\ \A e \in Nested[h] \cap Hyperedge : Nested[e] \subseteq Nested[h]
          /\ \A a \in Nested[h] \ Extrinsics[h] :
                /\ \E e \in Extrinsics[h] \cap Hyperedge : a \in Nested[e]
                /\ \E e \in Nested[h] \cap Hyperedge : a \in Extrinsics[e]

Op == [kind : {"AddVertex", "RemoveVertex"}, atom : Vertex]
        \cup [kind : {"AddHyperedge", "RemoveHyperedge"}, atom : Hyperedge]

VARIABLES
    vertexAdds,        \* per replica, the four sets and the size it keeps
    vertexRemoves,
    hyperedgeAdds,
    hyperedgeRemoves,
    size,
    unsized,           \* the shards whose tree of added vertices has no size
    pairSize,          \* the size of the vertices that lay two to a shard when
                       \* the copy was last read back (a history)
    done,              \* the operations in the copy (a history)
    ops,               \* how many operations the replica executed
    stored,            \* the copy on disk: its vertex sets and its history
    loads              \* how many copies were read back

sets == <<vertexAdds, vertexRemoves, hyperedgeAdds, hyperedgeRemoves>>
vars == <<sets, size, unsized, pairSize, done, ops, stored, loads>>

TypeOK ==
    /\ vertexAdds \in [Replica -> SUBSET Vertex]
    /\ vertexRemoves \in [Replica -> SUBSET Vertex]
    /\ hyperedgeAdds \in [Replica -> SUBSET Atom]
    /\ hyperedgeRemoves \in [Replica -> SUBSET Hyperedge]
    /\ size \in [Replica -> Int]
    /\ unsized \in [Replica -> SUBSET Shard]
    /\ pairSize \in [Replica -> Nat]
    /\ done \in [Replica -> SUBSET Op]
    /\ ops \in [Replica -> Nat]
    /\ stored \in [Replica -> [adds : SUBSET Vertex, removes : SUBSET Vertex,
                               unsized : SUBSET Shard,
                               done : SUBSET Op]]
    /\ loads \in Nat

-----------------------------------------------------------------------------
(* Lookups.                                                                *)

LookupVertex(r, v) == v \in vertexAdds[r] /\ v \notin vertexRemoves[r]

HasHyperedge(r, h) == h \in hyperedgeAdds[r] /\ h \notin hyperedgeRemoves[r]

HasAtom(r, a) == IF a \in Vertex THEN LookupVertex(r, a) ELSE HasHyperedge(r, a)

\* LookupAtom, LookupHyperedge and LookupAtomSet call one another down to the
\* vertices: everything inside the hyperedge has to be there.
LookupHyperedge(r, h) ==
    /\ \A a \in Nested[h] : HasAtom(r, a)
    /\ HasHyperedge(r, h)

LookupAtom(r, a) ==
    IF a \in Vertex THEN LookupVertex(r, a) ELSE LookupHyperedge(r, a)

LookupAtomSet(r, atoms) == \A a \in atoms : LookupAtom(r, a)

\* Some hyperedge that was ever added, removed since or not, connects the atom.
IsExtrinsic(r, a) ==
    \E h \in hyperedgeAdds[r] \cap Hyperedge : a \in Extrinsics[h]

\* Fault: nested hyperedges are not entered.
WithinDirect(r, a, h) == a \in Extrinsics[h] \/ a = h

\* Within: down the hyperedges that are present.
Within(r, a, h) ==
    LET in[k \in Hyperedge] ==
            \/ a \in Extrinsics[k] \/ a = k
            \/ \E e \in Extrinsics[k] \cap Hyperedge :
                  LookupHyperedge(r, e) /\ in[e]
    IN  in[h]

-----------------------------------------------------------------------------
(* Operations.                                                             *)

Executed(r, kind, a) ==
    /\ ops[r] < MaxOps[r]
    /\ ops' = [ops EXCEPT ![r] = @ + 1]
    /\ done' = [done EXCEPT ![r] = @ \cup {[kind |-> kind, atom |-> a]}]
    /\ UNCHANGED <<pairSize, stored, loads>>

InShard(vertices, k) == {v \in vertices : ShardKey[v] = k}

\* Insert, on the tree of the vertex's shard: a second leaf makes a branch that
\* is left without a size; an insertion below a branch sums up the sizes.
Insert(r, v) ==
    IF v \notin vertexAdds[r] /\ Cardinality(InShard(vertexAdds[r], ShardKey[v])) = 1
    THEN unsized[r] \cup {ShardKey[v]}
    ELSE unsized[r] \ {ShardKey[v]}

AddVertex(r, v) ==
    /\ Executed(r, "AddVertex", v)
    /\ vertexAdds' = [vertexAdds EXCEPT ![r] = @ \cup {v}]
    /\ unsized' = [unsized EXCEPT ![r] = Insert(r, v)]
    /\ size' = [size EXCEPT ![r] = @ + Size[v]]
    /\ UNCHANGED <<vertexRemoves, hyperedgeAdds, hyperedgeRemoves>>

AddHyperedge(r, h) ==
    /\ LookupAtomSet(r, Extrinsics[h])
    /\ Executed(r, "AddHyperedge", h)
    /\ IF h \in hyperedgeRemoves[r]
       THEN UNCHANGED <<hyperedgeAdds, size>>
       ELSE /\ hyperedgeAdds' = [hyperedgeAdds EXCEPT ![r] = @ \cup {h}]
            /\ size' = [size EXCEPT ![r] = @ + Size[h]]
    /\ UNCHANGED <<vertexAdds, vertexRemoves, hyperedgeRemoves, unsized>>

\* Fault: a vertex that a hyperedge connects is removed as well.
RemoveVertexConnected(r, v) ==
    /\ Executed(r, "RemoveVertex", v)
    /\ vertexAdds' = [vertexAdds EXCEPT ![r] = @ \cup {v}]
    /\ vertexRemoves' = [vertexRemoves EXCEPT ![r] = @ \cup {v}]
    /\ unsized' = [unsized EXCEPT ![r] = IF LookupVertex(r, v) THEN @ ELSE Insert(r, v)]
    /\ size' = [size EXCEPT ![r] = IF LookupVertex(r, v) THEN @ - Size[v] ELSE @]
    /\ UNCHANGED <<hyperedgeAdds, hyperedgeRemoves>>

\* Fault: the removal of a vertex that is not there leaves no trace.
RemoveVertexPresent(r, v) ==
    /\ LookupVertex(r, v) => ~IsExtrinsic(r, v)
    /\ Executed(r, "RemoveVertex", v)
    /\ vertexRemoves' = [vertexRemoves EXCEPT ![r] =
                             IF LookupVertex(r, v) THEN @ \cup {v} ELSE @]
    /\ size' = [size EXCEPT ![r] = IF LookupVertex(r, v) THEN @ - Size[v] ELSE @]
    /\ UNCHANGED <<vertexAdds, hyperedgeAdds, hyperedgeRemoves, unsized>>

\* A vertex that is not there is put in both sets, without a change of size.
RemoveVertex(r, v) ==
    /\ LookupVertex(r, v) => ~IsExtrinsic(r, v)
    /\ Executed(r, "RemoveVertex", v)
    /\ vertexAdds' = [vertexAdds EXCEPT ![r] = @ \cup {v}]
    /\ vertexRemoves' = [vertexRemoves EXCEPT ![r] = @ \cup {v}]
    /\ unsized' = [unsized EXCEPT ![r] = IF LookupVertex(r, v) THEN @ ELSE Insert(r, v)]
    /\ size' = [size EXCEPT ![r] = IF LookupVertex(r, v) THEN @ - Size[v] ELSE @]
    /\ UNCHANGED <<hyperedgeAdds, hyperedgeRemoves>>

\* Fault: the size is taken off whether the hyperedge is there or not.
RemoveHyperedgeSize(r, h) ==
    /\ LookupHyperedge(r, h) => ~IsExtrinsic(r, h)
    /\ Executed(r, "RemoveHyperedge", h)
    /\ hyperedgeAdds' = [hyperedgeAdds EXCEPT ![r] = @ \cup {h}]
    /\ hyperedgeRemoves' = [hyperedgeRemoves EXCEPT ![r] = @ \cup {h}]
    /\ size' = [size EXCEPT ![r] = @ - Size[h]]
    /\ UNCHANGED <<vertexAdds, vertexRemoves, unsized>>

RemoveHyperedge(r, h) ==
    /\ LookupHyperedge(r, h) => ~IsExtrinsic(r, h)
    /\ Executed(r, "RemoveHyperedge", h)
    /\ hyperedgeAdds' = [hyperedgeAdds EXCEPT ![r] = @ \cup {h}]
    /\ hyperedgeRemoves' = [hyperedgeRemoves EXCEPT ![r] = @ \cup {h}]
    /\ size' = [size EXCEPT ![r] = IF LookupHyperedge(r, h) THEN @ - Size[h] ELSE @]
    /\ UNCHANGED <<vertexAdds, vertexRemoves, unsized>>

-----------------------------------------------------------------------------
(* The store. Only vertices are ever saved: the token engine adds and      *)
(* removes coins, and a hyperedge has no encoding that can be read back.   *)

SizeOf(atoms) == MapThenSumSet(LAMBDA a : Size[a], atoms)

\* What GetSize of the shards adds up to: one without a size counts for nothing.
GetSize(vertices, shards) == SizeOf({v \in vertices : ShardKey[v] \notin shards})

InPairs(vertices) == {v \in vertices : Cardinality(InShard(vertices, ShardKey[v])) = 2}

SaveHypergraph(r) ==
    /\ hyperedgeAdds[r] \cap Hyperedge = {}
    /\ stored' = [stored EXCEPT ![r] = [adds |-> vertexAdds[r],
                                        removes |-> vertexRemoves[r],
                                        unsized |-> unsized[r],
                                        done |-> done[r]]]
    /\ UNCHANGED <<sets, size, unsized, pairSize, done, ops, loads>>

\* The key range that is read for the added hyperedges also holds the removed
\* vertices, which are loaded as such: what the first reading of them takes off
\* the size the second one gives back. The trees come back as they were saved.
LoadHypergraph(r) ==
    /\ loads < MaxLoads
    /\ loads' = loads + 1
    /\ vertexAdds' = [vertexAdds EXCEPT ![r] = stored[r].adds]
    /\ vertexRemoves' = [vertexRemoves EXCEPT ![r] = stored[r].removes]
    /\ hyperedgeAdds' = [hyperedgeAdds EXCEPT ![r] = stored[r].removes]
    /\ hyperedgeRemoves' = [hyperedgeRemoves EXCEPT ![r] = {}]
    /\ unsized' = [unsized EXCEPT ![r] = stored[r].unsized]
    /\ size' = [size EXCEPT ![r] = GetSize(stored[r].adds, stored[r].unsized)]
    /\ pairSize' = [pairSize EXCEPT ![r] = SizeOf(InPairs(stored[r].adds))]
    /\ done' = [done EXCEPT ![r] = stored[r].done]
    /\ UNCHANGED <<ops, stored>>

Init ==
    /\ vertexAdds = [r \in Replica |-> {}]
    /\ vertexRemoves = [r \in Replica |-> {}]
    /\ hyperedgeAdds = [r \in Replica |-> {}]
    /\ hyperedgeRemoves = [r \in Replica |-> {}]
    /\ size = [r \in Replica |-> 0]
    /\ unsized = [r \in Replica |-> {}]
    /\ pairSize = [r \in Replica |-> 0]
    /\ done = [r \in Replica |-> {}]
    /\ ops = [r \in Replica |-> 0]
    /\ stored = [r \in Replica |-> [adds |-> {}, removes |-> {}, unsized |-> {},
                               done |-> {}]]
    /\ loads = 0

Next ==
    \E r \in Replica :
        \/ \E v \in Vertex : AddVertex(r, v) \/ RemoveVertex(r, v)
        \/ \E h \in Hyperedge : AddHyperedge(r, h) \/ RemoveHyperedge(r, h)
        \/ SaveHypergraph(r)
        \/ LoadHypergraph(r)

Spec == Init /\ [][Next]_vars

-----------------------------------------------------------------------------
(* Properties.                                                             *)

\* A hyperedge that is present has all its extrinsics: whatever is removed
\* after AddHyperedge looked them up, RemoveVertex and RemoveHyperedge refuse
\* to take one away (ErrIsExtrinsic), and no tombstone left by the removal of
\* an absent atom hides one.
ExtrinsicsPresent ==
    \A r \in Replica : \A h \in Hyperedge :
        HasHyperedge(r, h) => LookupAtomSet(r, Extrinsics[h])

\* Two replicas that executed the same operations answer every lookup alike,
\* in whatever order the operations came and however often each was executed
\* (the question of TestConvergence, for every mix of the four operations).
Convergence ==
    \A r, s \in Replica :
        done[r] = done[s] => \A a \in Atom : LookupAtom(r, a) = LookupAtom(s, a)

\* Each subtraction from the size is paid for by an addition of the same atom.
\* Until a copy is read back the size is never below that of what is present
\* (pairSize is 0). After that it may be, and go below zero, but by no more than
\* what lay two to a shard in the copy: a shard whose second vertex was the last
\* to be inserted is read back with a size of 0 (IdSet.GetSize in
\* ImportFromBytes), and no other shard is.
SizeCovers ==
    \A r \in Replica :
        size[r] + pairSize[r] >= SizeOf({a \in Atom : LookupAtom(r, a)})

\* For a hyperedge that is present, Within answers whether the atom is reached
\* through extrinsics at all: no nested hyperedge cuts the walk short.
WithinReaches ==
    \A r \in Replica : \A h \in Hyperedge : \A a \in Atom :
        LookupHyperedge(r, h) => (Within(r, a, h) <=> a \in Nested[h] \cup {h})
=============================================================================
