-------------------------- MODULE HypergraphProofs --------------------------
(***************************************************************************)
(* Convergence, the integrity of hyperedges, the size and the walk through *)
(* nested hyperedges, for every set of replicas, vertices and hyperedges,  *)
(* any nesting of hyperedges, any number of operations in any order, and   *)
(* any number of saves and reloads.                                        *)
(*                                                                         *)
(* Convergence is not inductive: it compares two replicas and says nothing *)
(* of how either got there. What carries it is SetsFromDone: each of the   *)
(* four sets is a function of the operations that were executed. What      *)
(* carries the size over a reload is UnsizedArePairs.                      *)
(*                                                                         *)
(* The size is a fold and the walk a recursive function. What they compute *)
(* is shown by a least counterexample: among the finite sets for which a   *)
(* fact fails there would be one without a smaller one.                    *)
(***************************************************************************)
EXTENDS Hypergraph, FiniteSetTheorems, TLAPS

\* The operations of a history on a vertex or hyperedge.
Ran(d, kind, a) == [kind |-> kind, atom |-> a] \in d

VertexSets(adds, removes, d) ==
    /\ \A v \in Vertex : /\ v \in adds <=> Ran(d, "AddVertex", v)
                                            \/ Ran(d, "RemoveVertex", v)
                         /\ v \in removes <=> Ran(d, "RemoveVertex", v)

HyperedgeSets(adds, removes, d) ==
    /\ \A h \in Hyperedge : /\ h \in adds <=> Ran(d, "AddHyperedge", h)
                                               \/ Ran(d, "RemoveHyperedge", h)
                            /\ h \in removes <=> Ran(d, "RemoveHyperedge", h)

\* The sets of a replica, and of the copy on disk, are what their histories say.
SetsFromDone ==
    \A r \in Replica :
        /\ VertexSets(vertexAdds[r], vertexRemoves[r], done[r])
        /\ HyperedgeSets(hyperedgeAdds[r], hyperedgeRemoves[r], done[r])
        /\ VertexSets(stored[r].adds, stored[r].removes, stored[r].done)
        /\ HyperedgeSets({}, {}, stored[r].done)

\* A tree without a size is one that holds two vertices, here and on disk.
Paired(vertices, shards) == \A k \in shards : Cardinality(InShard(vertices, k)) = 2

UnsizedArePairs ==
    \A r \in Replica : /\ Paired(vertexAdds[r], unsized[r])
                       /\ Paired(stored[r].adds, stored[r].unsized)

\* The sizes and the counters do not matter to the sets.
SetTypes ==
    /\ vertexAdds \in [Replica -> SUBSET Vertex]
    /\ vertexRemoves \in [Replica -> SUBSET Vertex]
    /\ hyperedgeAdds \in [Replica -> SUBSET Atom]
    /\ hyperedgeRemoves \in [Replica -> SUBSET Hyperedge]
    /\ unsized \in [Replica -> SUBSET Shard]
    /\ done \in [Replica -> SUBSET Op]
    /\ stored \in [Replica -> [adds : SUBSET Vertex, removes : SUBSET Vertex,
                               unsized : SUBSET Shard, done : SUBSET Op]]

Inv == SetTypes /\ SetsFromDone /\ ExtrinsicsPresent

-----------------------------------------------------------------------------
LEMMA InitInv == Init => Inv
  <1> SUFFICES ASSUME Init PROVE Inv
    OBVIOUS
  <1> USE DEF Init
  <1>1. SetTypes
    BY DEF SetTypes
  <1>2. SetsFromDone
    BY DEF SetsFromDone, VertexSets, HyperedgeSets, Ran
  <1>3. ExtrinsicsPresent
    BY DEF ExtrinsicsPresent, HasHyperedge
  <1> QED
    BY <1>1, <1>2, <1>3 DEF Inv

\* The types.
LEMMA SetTypesStep == ASSUME SetTypes, [Next]_vars PROVE SetTypes'
  <1> USE DEF SetTypes
  <1>0. ASSUME NEW r \in Replica, NEW v \in Vertex PROVE Insert(r, v) \in SUBSET Shard
    BY DEF Insert, Shard
  <1>1. ASSUME NEW r \in Replica, NEW v \in Vertex, AddVertex(r, v)
        PROVE  SetTypes'
    BY <1>0, <1>1 DEF AddVertex, Executed, Op
  <1>2. ASSUME NEW r \in Replica, NEW v \in Vertex, RemoveVertex(r, v)
        PROVE  SetTypes'
    BY <1>0, <1>2 DEF RemoveVertex, Executed, Op
  <1>3. ASSUME NEW r \in Replica, NEW h \in Hyperedge, AddHyperedge(r, h)
        PROVE  SetTypes'
    <2>1. h \in Atom
      BY DEF Atom
    <2>2. done' \in [Replica -> SUBSET Op]
      BY <1>3 DEF AddHyperedge, Executed, Op
    <2>3. hyperedgeAdds' \in [Replica -> SUBSET Atom]
      BY <1>3, <2>1 DEF AddHyperedge
    <2> QED
      BY <1>3, <2>2, <2>3 DEF AddHyperedge, Executed
  <1>4. ASSUME NEW r \in Replica, NEW h \in Hyperedge, RemoveHyperedge(r, h)
        PROVE  SetTypes'
    <2>1. h \in Atom
      BY DEF Atom
    <2>2. done' \in [Replica -> SUBSET Op]
      BY <1>4 DEF RemoveHyperedge, Executed, Op
    <2> QED
      BY <1>4, <2>1, <2>2 DEF RemoveHyperedge, Executed
  <1>5. ASSUME NEW r \in Replica, SaveHypergraph(r)
        PROVE  SetTypes'
    BY <1>5 DEF SaveHypergraph, sets
  <1>6. ASSUME NEW r \in Replica, LoadHypergraph(r)
        PROVE  SetTypes'
    BY <1>6 DEF LoadHypergraph, Atom
  <1>7. CASE UNCHANGED vars
    BY SMTT(60), <1>7 DEF vars, sets
  <1> QED
    BY <1>1, <1>2, <1>3, <1>4, <1>5, <1>6, <1>7 DEF Next

\* Every operation enters its own history entry with what it does to the sets.
LEMMA SetsFromDoneStep ==
    ASSUME SetTypes, SetsFromDone, [Next]_vars PROVE SetsFromDone'
  <1> USE DEF SetTypes, SetsFromDone
  <1>1. ASSUME NEW r \in Replica, NEW v \in Vertex, AddVertex(r, v)
        PROVE  SetsFromDone'
    BY SMTT(30), <1>1 DEF AddVertex, Executed, VertexSets, HyperedgeSets, Ran
  <1>2. ASSUME NEW r \in Replica, NEW v \in Vertex, RemoveVertex(r, v)
        PROVE  SetsFromDone'
    BY <1>2 DEF RemoveVertex, Executed, VertexSets, HyperedgeSets, Ran
  <1>3. ASSUME NEW r \in Replica, NEW h \in Hyperedge, AddHyperedge(r, h)
        PROVE  SetsFromDone'
    BY SMTT(30), <1>3 DEF AddHyperedge, Executed, VertexSets, HyperedgeSets, Ran
  <1>4. ASSUME NEW r \in Replica, NEW h \in Hyperedge, RemoveHyperedge(r, h)
        PROVE  SetsFromDone'
    BY <1>4 DEF RemoveHyperedge, Executed, VertexSets, HyperedgeSets, Ran
  <1>5. ASSUME NEW r \in Replica, SaveHypergraph(r)
        PROVE  SetsFromDone'
    BY SMTT(30), <1>5 DEF SaveHypergraph, sets, VertexSets, HyperedgeSets, Ran
  <1>6. ASSUME NEW r \in Replica, LoadHypergraph(r)
        PROVE  SetsFromDone'
    BY <1>6, AtomAssumption DEF LoadHypergraph, VertexSets, HyperedgeSets, Ran
  <1>7. CASE UNCHANGED vars
    BY <1>7 DEF vars, sets
  <1> QED
    BY SMTT(30), <1>1, <1>2, <1>3, <1>4, <1>5, <1>6, <1>7 DEF Next

-----------------------------------------------------------------------------
\* With all extrinsics in place, a hyperedge that was added and not removed is
\* one that LookupHyperedge finds: everything inside it is there.
LEMMA HasIsLookup ==
    ASSUME ExtrinsicsPresent, NEW r \in Replica, NEW h \in Hyperedge,
           HasHyperedge(r, h)
    PROVE  LookupHyperedge(r, h)
  <1> SUFFICES ASSUME NEW a \in Nested[h] PROVE HasAtom(r, a)
    BY DEF LookupHyperedge
  <1>1. LookupAtomSet(r, Extrinsics[h])
    BY DEF ExtrinsicsPresent
  <1>2. CASE a \in Extrinsics[h]
    BY <1>1, <1>2 DEF LookupAtomSet, LookupAtom, LookupHyperedge, HasAtom
  <1>3. CASE a \notin Extrinsics[h]
    <2>1. PICK e \in Extrinsics[h] \cap Hyperedge : a \in Nested[e]
      BY <1>3, NestedAssumption
    <2>2. LookupHyperedge(r, e)
      BY <1>1, <2>1, AtomAssumption DEF LookupAtomSet, LookupAtom
    <2> QED
      BY <2>1, <2>2 DEF LookupHyperedge
  <1> QED
    BY <1>2, <1>3

\* An atom that no added hyperedge connects is nowhere inside one that is
\* present, however deep.
LEMMA NotInside ==
    ASSUME ExtrinsicsPresent, NEW r \in Replica, NEW a \in Atom,
           ~IsExtrinsic(r, a), NEW h \in Hyperedge, HasHyperedge(r, h)
    PROVE  a \notin Nested[h]
  <1> SUFFICES ASSUME a \in Nested[h] PROVE FALSE
    OBVIOUS
  <1>1. a \notin Extrinsics[h]
    BY DEF IsExtrinsic, HasHyperedge
  <1>2. PICK e \in Nested[h] \cap Hyperedge : a \in Extrinsics[e]
    BY <1>1, NestedAssumption
  <1>3. HasHyperedge(r, e)
    BY <1>2, HasIsLookup, AtomAssumption DEF LookupHyperedge, HasAtom
  <1> QED
    BY <1>2, <1>3 DEF IsExtrinsic, HasHyperedge

\* Extrinsics stay in place when what is present of the inside of a hyperedge
\* stays present.
LEMMA StaysPresent ==
    ASSUME ExtrinsicsPresent, NEW r \in Replica, NEW h \in Hyperedge,
           HasHyperedge(r, h),
           \A a \in Nested[h] : HasAtom(r, a) => HasAtom(r, a)'
    PROVE  LookupAtomSet(r, Extrinsics[h])'
  <1>1. \A a \in Nested[h] : HasAtom(r, a)'
    BY HasIsLookup DEF LookupHyperedge
  <1> SUFFICES ASSUME NEW x \in Extrinsics[h] PROVE LookupAtom(r, x)'
    BY DEF LookupAtomSet
  <1>2. x \in Nested[h] /\ x \in Atom
    BY NestedAssumption, AtomAssumption
  <1>3. CASE x \in Vertex
    BY <1>1, <1>2, <1>3 DEF LookupAtom, HasAtom
  <1>4. CASE x \in Hyperedge
    <2>1. Nested[x] \subseteq Nested[h] /\ x \notin Vertex
      BY <1>2, <1>4, NestedAssumption, AtomAssumption
    <2> QED
      BY <1>1, <1>2, <2>1 DEF LookupAtom, LookupHyperedge, HasAtom
  <1> QED
    BY <1>2, <1>3, <1>4 DEF Atom

LEMMA ExtrinsicsPresentStep ==
    ASSUME SetTypes, ExtrinsicsPresent, [Next]_vars PROVE ExtrinsicsPresent'
  <1> SUFFICES ASSUME NEW s \in Replica, NEW g \in Hyperedge, HasHyperedge(s, g)'
               PROVE  LookupAtomSet(s, Extrinsics[g])'
    BY DEF ExtrinsicsPresent
  <1> USE DEF SetTypes
  <1>1. ASSUME NEW r \in Replica, NEW v \in Vertex, AddVertex(r, v)
        PROVE  LookupAtomSet(s, Extrinsics[g])'
    <2>1. HasHyperedge(s, g)
      BY <1>1 DEF AddVertex, HasHyperedge
    <2>2. \A a \in Nested[g] : HasAtom(s, a) => HasAtom(s, a)'
      BY SMTT(30), <1>1 DEF AddVertex, HasAtom, LookupVertex, HasHyperedge
    <2> QED
      BY <2>1, <2>2, StaysPresent
  <1>2. ASSUME NEW r \in Replica, NEW v \in Vertex, RemoveVertex(r, v)
        PROVE  LookupAtomSet(s, Extrinsics[g])'
    <2>1. HasHyperedge(s, g)
      BY <1>2 DEF RemoveVertex, HasHyperedge
    <2>2. ASSUME NEW a \in Nested[g], HasAtom(s, a)
          PROVE  HasAtom(s, a)'
      <3>1. s = r => a # v
        <4> SUFFICES ASSUME s = r, a = v PROVE FALSE
          OBVIOUS
        <4>1. LookupVertex(r, v)
          BY SMTT(30), <2>2 DEF HasAtom
        <4>2. v \notin Nested[g]
          BY <1>2, <2>1, <4>1, NotInside DEF RemoveVertex, Atom
        <4> QED
          BY <4>2
      <3> QED
        BY <1>2, <2>2, <3>1 DEF RemoveVertex, HasAtom, LookupVertex, HasHyperedge
    <2> QED
      BY <2>1, <2>2, StaysPresent
  <1>3. ASSUME NEW r \in Replica, NEW h \in Hyperedge, AddHyperedge(r, h)
        PROVE  LookupAtomSet(s, Extrinsics[g])'
    <2>1. \A a \in Atom : HasAtom(s, a) => HasAtom(s, a)'
      BY SMTT(60), <1>3 DEF AddHyperedge, HasAtom, LookupVertex, HasHyperedge
    <2>2. CASE HasHyperedge(s, g)
      BY <2>1, <2>2, StaysPresent, NestedAssumption
    <2>3. CASE ~HasHyperedge(s, g)
      <3>1. s = r /\ g = h
        BY SMTT(30), <1>3, <2>3 DEF AddHyperedge, HasHyperedge
      <3>2. LookupAtomSet(s, Extrinsics[g])
        BY <1>3, <3>1 DEF AddHyperedge
      <3>3. ASSUME NEW x \in Extrinsics[g] PROVE LookupAtom(s, x)'
        <4>1. x \in Atom /\ LookupAtom(s, x)
          BY <3>2, AtomAssumption DEF LookupAtomSet
        <4>2. CASE x \in Vertex
          BY SMTT(30), <2>1, <4>1, <4>2 DEF LookupAtom, HasAtom
        <4>3. CASE x \notin Vertex
          <5>1. x \in Hyperedge /\ LookupHyperedge(s, x)
            BY SMTT(60), <4>1, <4>3 DEF Atom, LookupAtom
          <5>2. \A a \in Nested[x] : HasAtom(s, a)'
            BY SMTT(60), <2>1, <5>1, NestedAssumption DEF LookupHyperedge
          <5>3. HasHyperedge(s, x)'
            BY SMTT(60), <2>1, <4>1, <4>3, <5>1 DEF LookupHyperedge, HasAtom
          <5> QED
            BY <4>3, <5>2, <5>3 DEF LookupAtom, LookupHyperedge
        <4> QED
          BY <4>2, <4>3
      <3> QED
        BY <3>3 DEF LookupAtomSet
    <2> QED
      BY <2>2, <2>3
  <1>4. ASSUME NEW r \in Replica, NEW h \in Hyperedge, RemoveHyperedge(r, h)
        PROVE  LookupAtomSet(s, Extrinsics[g])'
    <2>1. HasHyperedge(s, g)
      BY SMTT(60), <1>4 DEF RemoveHyperedge, HasHyperedge
    <2>2. ASSUME NEW a \in Nested[g], HasAtom(s, a)
          PROVE  HasAtom(s, a)'
      <3>1. s = r => a # h
        <4> SUFFICES ASSUME s = r, a = h PROVE FALSE
          OBVIOUS
        <4>1. LookupHyperedge(r, h)
          BY SMTT(60), <2>2, HasIsLookup, AtomAssumption DEF HasAtom
        <4>2. h \notin Nested[g]
          BY SMTT(60), <1>4, <2>1, <4>1, NotInside DEF RemoveHyperedge, Atom
        <4> QED
          BY <4>2
      <3> QED
        BY <1>4, <2>2, <3>1 DEF RemoveHyperedge, HasAtom, LookupVertex, HasHyperedge
    <2> QED
      BY <2>1, <2>2, StaysPresent
  <1>5. ASSUME NEW r \in Replica, LoadHypergraph(r)
        PROVE  LookupAtomSet(s, Extrinsics[g])'
    <2>1. s # r
      BY <1>5, AtomAssumption DEF LoadHypergraph, HasHyperedge
    <2>2. HasHyperedge(s, g)
      BY SMTT(60), <1>5, <2>1 DEF LoadHypergraph, HasHyperedge
    <2>3. \A a \in Nested[g] : HasAtom(s, a) => HasAtom(s, a)'
      BY SMTT(60), <1>5, <2>1 DEF LoadHypergraph, HasAtom, LookupVertex, HasHyperedge
    <2> QED
      BY <2>2, <2>3, StaysPresent
  <1>6. ASSUME UNCHANGED sets
        PROVE  LookupAtomSet(s, Extrinsics[g])'
    <2>1. HasHyperedge(s, g)
      BY <1>6 DEF sets, HasHyperedge
    <2>2. \A a \in Nested[g] : HasAtom(s, a) => HasAtom(s, a)'
      BY <1>6 DEF sets, HasAtom, LookupVertex, HasHyperedge
    <2> QED
      BY <2>1, <2>2, StaysPresent
  <1> QED
    BY <1>1, <1>2, <1>3, <1>4, <1>5, <1>6 DEF Next, SaveHypergraph, vars

LEMMA InvStep == Inv /\ [Next]_vars => Inv'
  BY SetTypesStep, SetsFromDoneStep, ExtrinsicsPresentStep DEF Inv

LEMMA InvConverges == Inv => Convergence
  <1> SUFFICES ASSUME Inv, NEW r \in Replica, NEW s \in Replica,
                      done[r] = done[s], NEW a \in Atom
               PROVE  LookupAtom(r, a) = LookupAtom(s, a)
    BY DEF Convergence
  <1>1. \A v \in Vertex : LookupVertex(r, v) <=> LookupVertex(s, v)
    BY SMTT(30) DEF Inv, SetsFromDone, VertexSets, LookupVertex
  <1>2. \A h \in Hyperedge : HasHyperedge(r, h) <=> HasHyperedge(s, h)
    BY DEF Inv, SetsFromDone, HyperedgeSets, HasHyperedge
  <1>3. CASE a \in Vertex
    BY SMTT(30), <1>1, <1>3 DEF LookupAtom, LookupVertex
  <1>4. CASE a \notin Vertex
    <2>1. a \in Hyperedge
      BY <1>4 DEF Atom
    <2>2. \A b \in Nested[a] : HasAtom(r, b) <=> HasAtom(s, b)
      BY <1>1, <1>2, <2>1, NestedAssumption DEF HasAtom, Atom
    <2>3. LookupHyperedge(r, a) <=> LookupHyperedge(s, a)
      BY <1>2, <2>1, <2>2 DEF LookupHyperedge
    <2> QED
      BY <1>4, <2>3 DEF LookupAtom, LookupHyperedge
  <1> QED
    BY <1>3, <1>4

-----------------------------------------------------------------------------
(* The size. SizeOf is a fold over a set, which takes the elements in the    *)
(* order of a CHOOSE. It is the cardinality of a set that has Size[a]        *)
(* elements for each atom a, and that is what the proofs below reason with.  *)

\* One unit for each of what an atom counts.
Units(S) == {u \in Atom \X Nat : u[1] \in S /\ u[2] \in 1..Size[u[1]]}
Weight(S) == Cardinality(Units(S))

\* What the sum is computed with.
Summing(S, f) ==
    f = [s \in SUBSET S |-> IF s = {} THEN 0
                            ELSE Size[CHOOSE x \in s : TRUE]
                                   + f[s \ {CHOOSE x \in s : TRUE}]]

LEMMA SizeOfDef == ASSUME NEW S PROVE SizeOf(S) = (CHOOSE f : Summing(S, f))[S]
  BY DEF SizeOf, MapThenSumSet, MapThenFoldSet, Summing

\* Induction over finite sets: among any subsets of a finite set there is one
\* of which no other is a part, hence one that leaves them with any element it
\* loses.
LEMMA LeastSubset ==
    ASSUME NEW S, IsFiniteSet(S), NEW T \in SUBSET (SUBSET S), T # {}
    PROVE  \E s \in T : \A t \in T : t \subseteq s => t = s
  <1>1. IsWellFoundedOn(StrictSubsetOrdering(S), SUBSET S)
    BY SMTT(30), FS_StrictSubsetOrderingWellFounded, FS_FiniteSubsetsOfFinite
  <1>2. PICK s \in T : \A y \in T : ~(<<y, s>> \in StrictSubsetOrdering(S))
    BY <1>1, WFMin, Zenon
  <1>3. ASSUME NEW t \in T, t \subseteq s, t # s
        PROVE  <<t, s>> \in StrictSubsetOrdering(S)
    <2>1. t \in SUBSET S /\ s \in SUBSET S
      BY <1>2
    <2> QED
      BY <1>3, <2>1 DEF StrictSubsetOrdering
  <1>4. \A t \in T : t \subseteq s => t = s
    <2> SUFFICES ASSUME NEW t \in T, t \subseteq s, t # s PROVE FALSE
      OBVIOUS
    <2> QED
      BY <1>2, <1>3, Zenon
  <1> QED
    BY <1>4, Zenon

LEMMA LeastSet ==
    ASSUME NEW S, IsFiniteSet(S), NEW T \in SUBSET (SUBSET S), T # {}
    PROVE  \E s \in T : \A x \in s : s \ {x} \notin T
  <1>1. PICK s \in T : \A t \in T : t \subseteq s => t = s
    BY LeastSubset
  <1>2. \A x \in s : s \ {x} \subseteq s /\ s \ {x} # s
    OBVIOUS
  <1> QED
    BY <1>1, <1>2

LEMMA UnitsSplit ==
    ASSUME NEW S \in SUBSET Atom, NEW x \in S
    PROVE  /\ Units(S) = Units(S \ {x}) \cup ({x} \X (1..Size[x]))
           /\ Units(S \ {x}) \cap ({x} \X (1..Size[x])) = {}
  <1>1. Size[x] \in Nat
    BY AtomAssumption
  <1> QED
    BY <1>1 DEF Units

LEMMA UnitsOne ==
    ASSUME NEW x \in Atom
    PROVE  /\ IsFiniteSet({x} \X (1..Size[x]))
           /\ Cardinality({x} \X (1..Size[x])) = Size[x]
  <1>1. Size[x] \in Nat
    BY AtomAssumption
  <1>2. IsFiniteSet(1..Size[x]) /\ Cardinality(1..Size[x]) = Size[x]
    <2>1. PICK n \in Nat : n = Size[x]
      BY <1>1
    <2>2. IsFiniteSet(1..n) /\ Cardinality(1..n) = IF 1 > n THEN 0 ELSE n - 1 + 1
      BY FS_Interval
    <2> QED
      BY <2>1, <2>2
  <1>3. IsFiniteSet({x}) /\ Cardinality({x}) = 1
    BY FS_Singleton
  <1>4. /\ IsFiniteSet({x} \X (1..Size[x]))
        /\ Cardinality({x} \X (1..Size[x])) = Cardinality({x}) * Cardinality(1..Size[x])
    BY <1>2, <1>3, FS_Product, Zenon
  <1> QED
    BY <1>1, <1>2, <1>3, <1>4

LEMMA UnitsFinite == ASSUME NEW S \in SUBSET Atom PROVE IsFiniteSet(Units(S))
  <1> DEFINE T == {s \in SUBSET Atom : ~IsFiniteSet(Units(s))}
  <1> SUFFICES ASSUME S \in T PROVE FALSE
    OBVIOUS
  <1>1. PICK s \in T : \A x \in s : s \ {x} \notin T
    <2>1. T \in SUBSET (SUBSET Atom) /\ T # {}
      OBVIOUS
    <2> HIDE DEF T
    <2> QED
      BY ZenonT(60), <2>1, LeastSet, AtomAssumption
  <1>2. s # {}
    <2>1. Units({}) = {}
      BY DEF Units
    <2> QED
      BY ZenonT(60), <2>1, FS_EmptySet
  <1>3. PICK x \in s : TRUE
    BY <1>2
  <1>4. IsFiniteSet(Units(s \ {x}))
    BY <1>1, <1>3
  <1>5. Units(s) = Units(s \ {x}) \cup ({x} \X (1..Size[x]))
    BY <1>1, <1>3, UnitsSplit
  <1>6. IsFiniteSet({x} \X (1..Size[x]))
    BY <1>1, <1>3, UnitsOne
  <1>7. IsFiniteSet(Units(s \ {x}) \cup ({x} \X (1..Size[x])))
    BY <1>4, <1>6, FS_Union, Zenon
  <1> QED
    BY ZenonT(60), <1>1, <1>5, <1>7

LEMMA WeightStep ==
    ASSUME NEW S \in SUBSET Atom, NEW x \in S
    PROVE  /\ Weight(S) \in Nat
           /\ Weight(S \ {x}) \in Nat
           /\ Weight(S) = Size[x] + Weight(S \ {x})
  <1> DEFINE P == {x} \X (1..Size[x])
             U == Units(S \ {x})
  <1>1. IsFiniteSet(P) /\ Cardinality(P) = Size[x]
    BY UnitsOne
  <1>2. IsFiniteSet(U) /\ IsFiniteSet(Units(S))
    BY UnitsFinite
  <1>3. Units(S) = U \cup P /\ U \cap P = {}
    BY ZenonT(60), UnitsSplit
  <1>4. Cardinality(U) \in Nat /\ Cardinality(Units(S)) \in Nat /\ Size[x] \in Nat
    BY <1>2, FS_CardinalityType, AtomAssumption
  <1> HIDE DEF P, U
  <1>5. Cardinality(U \cup P) = Cardinality(U) + Cardinality(P) - Cardinality(U \cap P)
    BY <1>1, <1>2, FS_Union
  <1>6. Cardinality(U \cap P) = 0
    BY <1>3, FS_EmptySet
  <1> QED
    BY <1>1, <1>3, <1>4, <1>5, <1>6 DEF Weight, U

LEMMA WeightEmpty == Weight({}) = 0
  <1>1. Units({}) = {}
    BY DEF Units
  <1> QED
    BY <1>1, FS_EmptySet DEF Weight

\* The fold computes the weight.
LEMMA SizeIsWeight == ASSUME NEW S \in SUBSET Atom PROVE SizeOf(S) = Weight(S)
  <1> DEFINE F == [s \in SUBSET S |-> Weight(s)]
             f == CHOOSE g : Summing(S, g)
             T == {s \in SUBSET S : f[s] # Weight(s)}
  <1>1. Summing(S, F)
    <2>1. ASSUME NEW s \in SUBSET S, s # {}
          PROVE  F[s] = Size[CHOOSE x \in s : TRUE] + F[s \ {CHOOSE x \in s : TRUE}]
      <3>1. PICK y : y = CHOOSE x \in s : TRUE
        OBVIOUS
      <3>2. y \in s
        BY <2>1, <3>1
      <3>3. Weight(s) = Size[y] + Weight(s \ {y})
        BY <3>2, WeightStep
      <3> QED
        BY <3>1, <3>2, <3>3
    <2>2. F[{}] = 0
      BY WeightEmpty
    <2>3. F = [s \in SUBSET S |-> F[s]]
      OBVIOUS
    <2> HIDE DEF F
    <2> QED
      BY ZenonT(60), <2>1, <2>2, <2>3 DEF Summing
  <1>2. Summing(S, f)
    BY <1>1, Zenon
  <1> HIDE DEF f, F
  <1>3. ASSUME NEW s \in SUBSET S
        PROVE  f[s] = IF s = {} THEN 0
                      ELSE Size[CHOOSE x \in s : TRUE] + f[s \ {CHOOSE x \in s : TRUE}]
    BY <1>2 DEF Summing
  <1>4. T = {}
    <2> SUFFICES ASSUME T # {} PROVE FALSE
      OBVIOUS
    <2>1. PICK s \in T : \A x \in s : s \ {x} \notin T
      <3>1. T \in SUBSET (SUBSET S) /\ IsFiniteSet(S)
        BY FS_Subset, AtomAssumption
      <3> HIDE DEF T
      <3> QED
        BY SMTT(60), <3>1, LeastSet
    <2>2. s # {}
      BY ZenonT(60), <1>3, WeightEmpty
    <2>3. PICK y : y = CHOOSE x \in s : TRUE
      OBVIOUS
    <2>4. y \in s /\ s \in SUBSET Atom
      BY <2>1, <2>2, <2>3
    <2>5. f[s \ {y}] = Weight(s \ {y})
      BY <2>1, <2>4
    <2>6. f[s] = Size[y] + f[s \ {y}]
      BY ZenonT(60), <1>3, <2>1, <2>2, <2>3
    <2>7. Weight(s) = Size[y] + Weight(s \ {y})
      BY <2>4, WeightStep
    <2> QED
      BY <2>1, <2>5, <2>6, <2>7
  <1> QED
    BY <1>4, SizeOfDef DEF f

LEMMA WeightOfPart ==
    ASSUME NEW S \in SUBSET Atom, NEW T \in SUBSET S
    PROVE  Weight(S) \in Nat /\ Weight(T) \in Nat /\ Weight(T) <= Weight(S)
  <1>1. Units(T) \in SUBSET Units(S)
    BY DEF Units
  <1>2. IsFiniteSet(Units(S)) /\ IsFiniteSet(Units(T))
    BY UnitsFinite
  <1> QED
    BY <1>1, <1>2, FS_Subset, FS_CardinalityType DEF Weight

\* The atoms of which a replica says that they are there.
Present(r) == {a \in Atom : LookupAtom(r, a)}

Had == \A r \in Replica : Present(r) = {a \in Atom : HasAtom(r, a)}

LEMMA PresentIsHad == ExtrinsicsPresent => Had
  <1> SUFFICES ASSUME ExtrinsicsPresent, NEW r \in Replica, NEW a \in Atom
               PROVE  LookupAtom(r, a) <=> HasAtom(r, a)
    BY DEF Present, Had
  <1>1. CASE a \in Vertex
    BY <1>1 DEF LookupAtom, HasAtom
  <1>2. CASE a \notin Vertex
    <2>1. a \in Hyperedge
      BY <1>2 DEF Atom
    <2> QED
      BY <1>2, <2>1, HasIsLookup DEF LookupAtom, HasAtom, LookupHyperedge
  <1> QED
    BY <1>1, <1>2

\* What an operation on one atom may do to the size.
LEMMA Grows ==
    ASSUME NEW S \in SUBSET Atom, NEW T \in SUBSET Atom, NEW a \in Atom,
           T \subseteq S \cup {a}, NEW n \in Int, n >= SizeOf(S)
    PROVE  n + Size[a] >= SizeOf(T)
  <1>1. Weight(S) \in Nat /\ Size[a] \in Nat /\ n >= Weight(S)
    BY WeightOfPart, SizeIsWeight, AtomAssumption
  <1>2. S \cup {a} \in SUBSET Atom
    OBVIOUS
  <1>3. /\ Weight(S \cup {a}) \in Nat
        /\ Weight(S \cup {a}) = Size[a] + Weight((S \cup {a}) \ {a})
    BY <1>2, WeightStep
  <1>4. Weight((S \cup {a}) \ {a}) \in Nat /\ Weight((S \cup {a}) \ {a}) <= Weight(S)
    <2>1. (S \cup {a}) \ {a} \in SUBSET S
      OBVIOUS
    <2> QED
      BY <2>1, WeightOfPart
  <1>5. Weight(T) \in Nat /\ Weight(T) <= Weight(S \cup {a})
    BY <1>2, WeightOfPart
  <1>6. SizeOf(T) = Weight(T)
    BY SizeIsWeight
  <1> QED
    BY SMTT(30), <1>1, <1>3, <1>4, <1>5, <1>6

LEMMA Shrinks ==
    ASSUME NEW S \in SUBSET Atom, NEW a \in S,
           NEW n \in Int, n >= SizeOf(S)
    PROVE  n - Size[a] >= SizeOf(S \ {a})
  <1>1. /\ Weight(S) \in Nat /\ Weight(S \ {a}) \in Nat
        /\ Weight(S) = Size[a] + Weight(S \ {a})
    BY WeightStep
  <1>2. SizeOf(S) = Weight(S) /\ SizeOf(S \ {a}) = Weight(S \ {a})
    BY SizeIsWeight
  <1>3. Size[a] \in Nat
    BY AtomAssumption
  <1> QED
    BY <1>1, <1>2, <1>3

LEMMA Stays ==
    ASSUME NEW S \in SUBSET Atom, NEW T \in SUBSET S,
           NEW n \in Int, n >= SizeOf(S)
    PROVE  n >= SizeOf(T)
  <1>1. Weight(S) \in Nat /\ Weight(T) \in Nat /\ Weight(T) <= Weight(S)
    BY WeightOfPart
  <1>2. SizeOf(S) = Weight(S) /\ SizeOf(T) = Weight(T)
    BY SizeIsWeight
  <1> QED
    BY <1>1, <1>2

\* Two parts of a set weigh at least what the set does.
LEMMA Covering ==
    ASSUME NEW S \in SUBSET Atom, NEW A \in SUBSET S, NEW B \in SUBSET S,
           S \subseteq A \cup B
    PROVE  /\ SizeOf(A) \in Nat /\ SizeOf(B) \in Nat
           /\ SizeOf(A) + SizeOf(B) >= SizeOf(S)
  <1>1. A \in SUBSET Atom /\ B \in SUBSET Atom
    OBVIOUS
  <1>2. /\ SizeOf(A) = Weight(A) /\ SizeOf(B) = Weight(B) /\ SizeOf(S) = Weight(S)
    BY <1>1, SizeIsWeight
  <1>3. IsFiniteSet(Units(A)) /\ IsFiniteSet(Units(B))
    BY <1>1, UnitsFinite
  <1>4. Units(S) = Units(A) \cup Units(B)
    BY DEF Units
  <1>5. /\ Cardinality(Units(A) \cup Units(B)) =
             Cardinality(Units(A)) + Cardinality(Units(B))
               - Cardinality(Units(A) \cap Units(B))
    BY <1>3, FS_Union
  <1>6. IsFiniteSet(Units(A) \cap Units(B))
    BY <1>3, FS_Intersection
  <1>7. /\ Cardinality(Units(A)) \in Nat /\ Cardinality(Units(B)) \in Nat
        /\ Cardinality(Units(A) \cap Units(B)) \in Nat
    BY SMTT(30), <1>3, <1>6, FS_CardinalityType
  <1> QED
    BY SMTT(30), <1>2, <1>4, <1>5, <1>7 DEF Weight

\* An insertion leaves no other trees without a size than those of two vertices.
LEMMA InsertPairs ==
    ASSUME SetTypes, NEW r \in Replica, NEW v \in Vertex,
           Paired(vertexAdds[r], unsized[r])
    PROVE  Paired(vertexAdds[r] \cup {v}, Insert(r, v))
  <1> SUFFICES ASSUME NEW k \in Insert(r, v)
               PROVE  Cardinality(InShard(vertexAdds[r] \cup {v}, k)) = 2
    BY DEF Paired
  <1> DEFINE V == InShard(vertexAdds[r], k)
  <1>1. CASE k # ShardKey[v]
    <2>1. k \in unsized[r]
      BY <1>1 DEF Insert
    <2>2. InShard(vertexAdds[r] \cup {v}, k) = V
      BY <1>1 DEF InShard
    <2> QED
      BY SMTT(30), <2>1, <2>2 DEF Paired
  <1>2. CASE k = ShardKey[v]
    <2>1. v \notin vertexAdds[r] /\ Cardinality(V) = 1
      BY <1>2 DEF Insert
    <2>2. InShard(vertexAdds[r] \cup {v}, k) = V \cup {v} /\ v \notin V
      BY <1>2, <2>1 DEF InShard
    <2>3. V \in SUBSET Atom
      BY SMTT(30) DEF SetTypes, InShard, Atom
    <2>4. IsFiniteSet(V)
      BY SMTT(30), <2>3, AtomAssumption, FS_Subset
    <2>5. Cardinality(V \cup {v}) = Cardinality(V) + 1
      BY SMTT(30), <2>2, <2>4, FS_AddElement
    <2> QED
      BY <2>1, <2>2, <2>5
  <1> QED
    BY SMTT(30), <1>1, <1>2

LEMMA UnsizedStep ==
    ASSUME SetTypes, UnsizedArePairs, [Next]_vars PROVE UnsizedArePairs'
  <1> USE DEF SetTypes
  <1>1. \A r \in Replica : /\ Paired(vertexAdds[r], unsized[r])
                           /\ Paired(stored[r].adds, stored[r].unsized)
    BY DEF UnsizedArePairs
  <1> SUFFICES \A s \in Replica : /\ Paired(vertexAdds'[s], unsized'[s])
                                  /\ Paired(stored'[s].adds, stored'[s].unsized)
    BY DEF UnsizedArePairs, Paired, InShard
  <1>2. ASSUME NEW r \in Replica, NEW v \in Vertex, AddVertex(r, v), NEW s \in Replica
        PROVE  /\ Paired(vertexAdds'[s], unsized'[s])
               /\ Paired(stored'[s].adds, stored'[s].unsized)
    <2>1. /\ vertexAdds' = [vertexAdds EXCEPT ![r] = vertexAdds[r] \cup {v}]
          /\ unsized' = [unsized EXCEPT ![r] = Insert(r, v)]
          /\ stored' = stored
      BY <1>2 DEF AddVertex, Executed
    <2>2. Paired(vertexAdds[r] \cup {v}, Insert(r, v))
      BY SMTT(30), <1>1, InsertPairs
    <2> QED
      BY <1>1, <2>1, <2>2
  <1>3. ASSUME NEW r \in Replica, NEW v \in Vertex, RemoveVertex(r, v), NEW s \in Replica
        PROVE  /\ Paired(vertexAdds'[s], unsized'[s])
               /\ Paired(stored'[s].adds, stored'[s].unsized)
    <2>1. /\ vertexAdds' = [vertexAdds EXCEPT ![r] = vertexAdds[r] \cup {v}]
          /\ stored' = stored
      BY <1>3 DEF RemoveVertex, Executed
    <2>2. Paired(vertexAdds[r] \cup {v}, Insert(r, v))
      BY <1>1, InsertPairs
    <2>3. CASE LookupVertex(r, v)
      <3>1. vertexAdds' = vertexAdds /\ unsized' = unsized
        BY <1>3, <2>1, <2>3 DEF RemoveVertex, LookupVertex
      <3> QED
        BY <1>1, <2>1, <3>1
    <2>4. CASE ~LookupVertex(r, v)
      <3>1. unsized' = [unsized EXCEPT ![r] = Insert(r, v)]
        BY <1>3, <2>4 DEF RemoveVertex
      <3> QED
        BY <1>1, <2>1, <2>2, <3>1
    <2> QED
      BY SMTT(30), <2>3, <2>4
  <1>4. ASSUME NEW r \in Replica, SaveHypergraph(r), NEW s \in Replica
        PROVE  /\ Paired(vertexAdds'[s], unsized'[s])
               /\ Paired(stored'[s].adds, stored'[s].unsized)
    BY SMTT(30), <1>1, <1>4 DEF SaveHypergraph, sets
  <1>5. ASSUME NEW r \in Replica, LoadHypergraph(r), NEW s \in Replica
        PROVE  /\ Paired(vertexAdds'[s], unsized'[s])
               /\ Paired(stored'[s].adds, stored'[s].unsized)
    BY <1>1, <1>5 DEF LoadHypergraph
  <1>6. ASSUME UNCHANGED <<vertexAdds, unsized, stored>>, NEW s \in Replica
        PROVE  /\ Paired(vertexAdds'[s], unsized'[s])
               /\ Paired(stored'[s].adds, stored'[s].unsized)
    BY SMTT(30), <1>1, <1>6
  <1>7. ASSUME NEW r \in Replica, NEW h \in Hyperedge,
               AddHyperedge(r, h) \/ RemoveHyperedge(r, h)
        PROVE  UNCHANGED <<vertexAdds, unsized, stored>>
    BY <1>7 DEF AddHyperedge, RemoveHyperedge, Executed
  <1>8. UNCHANGED vars => UNCHANGED <<vertexAdds, unsized, stored>>
    BY DEF vars, sets
  <1> QED
    BY <1>2, <1>3, <1>4, <1>5, <1>6, <1>7, <1>8 DEF Next

\* The size, with what may have been lost in a reload, covers what is present.
Account(r) == size[r] + pairSize[r]

SizeInv ==
    /\ size \in [Replica -> Int] /\ pairSize \in [Replica -> Nat]
    /\ UnsizedArePairs
    /\ SizeCovers

LEMMA InitSize == Init => SizeInv
  <1> SUFFICES ASSUME Init PROVE SizeInv
    OBVIOUS
  <1>1. size \in [Replica -> Int] /\ pairSize \in [Replica -> Nat]
    BY SMTT(30) DEF Init
  <1>2. UnsizedArePairs
    BY SMTT(60) DEF Init, UnsizedArePairs, Paired
  <1>3. SizeCovers
    <2> SUFFICES ASSUME NEW r \in Replica
                 PROVE  size[r] + pairSize[r] >= SizeOf({a \in Atom : LookupAtom(r, a)})
      BY SMTT(30) DEF SizeCovers
    <2>1. {a \in Atom : LookupAtom(r, a)} = {}
      BY DEF Init, LookupAtom, LookupVertex, LookupHyperedge, HasHyperedge
    <2>2. SizeOf({}) = 0
      BY SizeIsWeight, WeightEmpty
    <2>3. SizeOf({a \in Atom : LookupAtom(r, a)}) = 0
      BY <2>1, <2>2, Zenon
    <2>4. size[r] = 0 /\ pairSize[r] = 0
      BY SMTT(60) DEF Init
    <2> QED
      BY SMTT(60), <2>3, <2>4
  <1> QED
    BY <1>1, <1>2, <1>3 DEF SizeInv

LEMMA SizeStep == ASSUME Inv, Inv', SizeInv, [Next]_vars PROVE SizeInv'
  <1> USE DEF SizeInv
  <1>1. \A r \in Replica : Account(r) \in Int /\ Account(r) >= SizeOf(Present(r))
    <2>1. \A r \in Replica : Account(r) \in Int
      BY DEF Account
    <2>2. \A r \in Replica : Account(r) >= SizeOf(Present(r))
      BY Zenon DEF SizeCovers, Present, Account
    <2> QED
      BY Zenon, <2>1, <2>2
  <1>2. \A r \in Replica : /\ Present(r) = {a \in Atom : HasAtom(r, a)}
                           /\ Present(r)' = {a \in Atom : HasAtom(r, a)'}
    <2>1. ExtrinsicsPresent /\ ExtrinsicsPresent'
      BY DEF Inv
    <2>2. Had /\ Had'
      BY <2>1, PresentIsHad, PTL
    <2> QED
      BY <2>2 DEF Had
  <1>3. \A r \in Replica : Present(r) \in SUBSET Atom /\ Present(r)' \in SUBSET Atom
    BY DEF Present
  <1>4. \A a \in Atom : Size[a] \in Nat
    BY AtomAssumption
  <1> SUFFICES /\ size' \in [Replica -> Int] /\ pairSize' \in [Replica -> Nat]
               /\ \A s \in Replica : Account(s)' >= SizeOf(Present(s)')
    <2>1. UnsizedArePairs'
      BY UnsizedStep DEF Inv
    <2>2. (\A s \in Replica : Account(s)' >= SizeOf(Present(s)')) => SizeCovers'
      BY Zenon DEF SizeCovers, Present, Account
    <2> QED
      BY Zenon, <2>1, <2>2
  <1> HIDE DEF SizeInv
  <1>a. size \in [Replica -> Int] /\ pairSize \in [Replica -> Nat] /\ UnsizedArePairs
    BY Zenon DEF SizeInv
  <1>b. /\ vertexAdds \in [Replica -> SUBSET Vertex]
        /\ vertexRemoves \in [Replica -> SUBSET Vertex]
        /\ hyperedgeAdds \in [Replica -> SUBSET Atom]
        /\ hyperedgeRemoves \in [Replica -> SUBSET Hyperedge]
    BY Zenon DEF Inv, SetTypes
  <1>c. \A r \in Replica : stored[r].adds \in SUBSET Vertex /\ stored[r].removes \in SUBSET Vertex
    BY SMTT(30) DEF Inv, SetTypes
  <1>5. ASSUME NEW r \in Replica, NEW v \in Vertex, AddVertex(r, v)
        PROVE  /\ size' \in [Replica -> Int] /\ pairSize' \in [Replica -> Nat]
               /\ \A s \in Replica : Account(s)' >= SizeOf(Present(s)')
    <2>1. v \in Atom
      BY SMTT(30) DEF Atom
    <2>2. size' = [size EXCEPT ![r] = @ + Size[v]] /\ pairSize' = pairSize
      BY Zenon, <1>5 DEF AddVertex, Executed
    <2>3. \A s \in Replica : \A a \in Atom :
             HasAtom(s, a)' => HasAtom(s, a) \/ (s = r /\ a = v)
      <3>1. /\ vertexAdds' = [vertexAdds EXCEPT ![r] = @ \cup {v}]
            /\ UNCHANGED <<vertexRemoves, hyperedgeAdds, hyperedgeRemoves>>
        BY Zenon, <1>5 DEF AddVertex
      <3> QED
        BY SMTT(30), <1>b, <3>1 DEF HasAtom, LookupVertex, HasHyperedge
    <2>4. Present(r)' \subseteq Present(r) \cup {v}
      BY SMTT(30), <1>2, <2>3
    <2>5. Account(r) + Size[v] >= SizeOf(Present(r)')
      BY ZenonT(60), <1>1, <1>3, <2>1, <2>4, Grows
    <2>6. ASSUME NEW s \in Replica, s # r PROVE Account(s) >= SizeOf(Present(s)')
      <3>1. Present(s)' \subseteq Present(s)
        BY SMTT(30), <1>2, <2>3, <2>6
      <3> QED
        BY ZenonT(60), <1>1, <1>3, <3>1, Stays
    <2> QED
      BY SMTT(60), <1>4, <1>a, <2>1, <2>2, <2>5, <2>6 DEF Account
  <1>6. ASSUME NEW r \in Replica, NEW v \in Vertex, RemoveVertex(r, v)
        PROVE  /\ size' \in [Replica -> Int] /\ pairSize' \in [Replica -> Nat]
               /\ \A s \in Replica : Account(s)' >= SizeOf(Present(s)')
    <2>1. v \in Atom
      BY DEF Atom
    <2>2. /\ size' = [size EXCEPT ![r] = IF LookupVertex(r, v) THEN @ - Size[v] ELSE @]
          /\ pairSize' = pairSize
      BY Zenon, <1>6 DEF RemoveVertex, Executed
    <2>3. \A s \in Replica : \A a \in Atom :
             HasAtom(s, a)' => HasAtom(s, a) /\ ~(s = r /\ a = v)
      <3>1. /\ vertexAdds' = [vertexAdds EXCEPT ![r] = @ \cup {v}]
            /\ vertexRemoves' = [vertexRemoves EXCEPT ![r] = @ \cup {v}]
            /\ UNCHANGED <<hyperedgeAdds, hyperedgeRemoves>>
        BY Zenon, <1>6 DEF RemoveVertex
      <3> QED
        BY SMTT(30), <1>b, <3>1 DEF HasAtom, LookupVertex, HasHyperedge
    <2>4. \A s \in Replica : Account(s) >= SizeOf(Present(s)')
      <3> SUFFICES ASSUME NEW s \in Replica PROVE Account(s) >= SizeOf(Present(s)')
        OBVIOUS
      <3>1. Present(s)' \subseteq Present(s)
        BY <1>2, <2>3
      <3> QED
        BY ZenonT(60), <1>1, <1>3, <3>1, Stays
    <2>5. ASSUME LookupVertex(r, v)
          PROVE  Account(r) - Size[v] >= SizeOf(Present(r)')
      <3>1. v \in Present(r)
        BY SMTT(30), <1>2, <2>1, <2>5 DEF HasAtom
      <3>2. Present(r)' \in SUBSET (Present(r) \ {v})
        BY SMTT(30), <1>2, <2>3
      <3>3. Account(r) - Size[v] >= SizeOf(Present(r) \ {v})
        BY ZenonT(60), <1>1, <1>3, <3>1, Shrinks
      <3>4. PICK n \in Int : n = Account(r) - Size[v]
        BY SMTT(60), <1>1, <1>4, <2>1
      <3>5. PICK S \in SUBSET Atom : S = Present(r) \ {v}
        BY ZenonT(60), <1>3
      <3>6. n >= SizeOf(S)
        BY <3>3, <3>4, <3>5
      <3>7. PICK T \in SUBSET S : T = Present(r)'
        BY SMTT(30), <3>2, <3>5
      <3>8. n >= SizeOf(T)
        BY <3>6, Stays
      <3> QED
        BY SMTT(30), <3>4, <3>7, <3>8
    <2> QED
      BY SMTT(60), <1>1, <1>4, <1>a, <2>1, <2>2, <2>4, <2>5 DEF Account
  <1>7. ASSUME NEW r \in Replica, NEW h \in Hyperedge, AddHyperedge(r, h)
        PROVE  /\ size' \in [Replica -> Int] /\ pairSize' \in [Replica -> Nat]
               /\ \A s \in Replica : Account(s)' >= SizeOf(Present(s)')
    <2>1. h \in Atom
      BY SMTT(30) DEF Atom
    <2>2. \A s \in Replica : \A a \in Atom :
             HasAtom(s, a)' => HasAtom(s, a) \/ (s = r /\ a = h /\ h \notin hyperedgeRemoves[r])
      <3>1. /\ IF h \in hyperedgeRemoves[r]
               THEN hyperedgeAdds' = hyperedgeAdds
               ELSE hyperedgeAdds' = [hyperedgeAdds EXCEPT ![r] = @ \cup {h}]
            /\ UNCHANGED <<vertexAdds, vertexRemoves, hyperedgeRemoves>>
        BY Zenon, <1>7 DEF AddHyperedge
      <3> QED
        BY SMTT(30), <1>b, <3>1 DEF HasAtom, LookupVertex, HasHyperedge
    <2>3. ASSUME NEW s \in Replica, s # r \/ h \in hyperedgeRemoves[r]
          PROVE  Account(s) >= SizeOf(Present(s)')
      <3>1. Present(s)' \subseteq Present(s)
        BY SMTT(60), <1>2, <2>2, <2>3
      <3> QED
        BY ZenonT(60), <1>1, <1>3, <3>1, Stays
    <2>4. CASE h \in hyperedgeRemoves[r]
      <3>1. size' = size /\ pairSize' = pairSize
        BY Zenon, <1>7, <2>4 DEF AddHyperedge, Executed
      <3> QED
        BY SMTT(30), <1>a, <2>3, <2>4, <3>1 DEF Account
    <2>5. CASE h \notin hyperedgeRemoves[r]
      <3>1. size' = [size EXCEPT ![r] = @ + Size[h]] /\ pairSize' = pairSize
        BY Zenon, <1>7, <2>5 DEF AddHyperedge, Executed
      <3>2. Present(r)' \subseteq Present(r) \cup {h}
        BY SMTT(30), <1>2, <2>2
      <3>3. Account(r) + Size[h] >= SizeOf(Present(r)')
        BY ZenonT(60), <1>1, <1>3, <2>1, <3>2, Grows
      <3> QED
        BY SMTT(60), <1>4, <1>a, <2>1, <2>3, <3>1, <3>3 DEF Account
    <2> QED
      BY <2>4, <2>5
  <1>8. ASSUME NEW r \in Replica, NEW h \in Hyperedge, RemoveHyperedge(r, h)
        PROVE  /\ size' \in [Replica -> Int] /\ pairSize' \in [Replica -> Nat]
               /\ \A s \in Replica : Account(s)' >= SizeOf(Present(s)')
    <2>1. h \in Atom /\ h \notin Vertex
      BY SMTT(30), AtomAssumption DEF Atom
    <2>2. /\ size' = [size EXCEPT ![r] = IF LookupHyperedge(r, h) THEN @ - Size[h] ELSE @]
          /\ pairSize' = pairSize
      BY Zenon, <1>8 DEF RemoveHyperedge, Executed
    <2>3. \A s \in Replica : \A a \in Atom :
             HasAtom(s, a)' => HasAtom(s, a) /\ ~(s = r /\ a = h)
      <3>1. /\ hyperedgeAdds' = [hyperedgeAdds EXCEPT ![r] = @ \cup {h}]
            /\ hyperedgeRemoves' = [hyperedgeRemoves EXCEPT ![r] = @ \cup {h}]
            /\ UNCHANGED <<vertexAdds, vertexRemoves>>
        BY Zenon, <1>8 DEF RemoveHyperedge
      <3> QED
        BY SMTT(30), <1>b, <2>1, <3>1 DEF HasAtom, LookupVertex, HasHyperedge
    <2>4. \A s \in Replica : Account(s) >= SizeOf(Present(s)')
      <3> SUFFICES ASSUME NEW s \in Replica PROVE Account(s) >= SizeOf(Present(s)')
        OBVIOUS
      <3>1. Present(s)' \subseteq Present(s)
        BY SMTT(30), <1>2, <2>3
      <3> QED
        BY ZenonT(60), <1>1, <1>3, <3>1, Stays
    <2>5. ASSUME LookupHyperedge(r, h)
          PROVE  Account(r) - Size[h] >= SizeOf(Present(r)')
      <3>1. h \in Present(r)
        <4>1. HasAtom(r, h)
          BY Zenon, <2>1, <2>5 DEF HasAtom, LookupHyperedge
        <4> QED
          BY SMTT(30), <1>2, <2>1, <4>1
      <3>2. Present(r)' \in SUBSET (Present(r) \ {h})
        BY SMTT(30), <1>2, <2>3
      <3>3. Account(r) - Size[h] >= SizeOf(Present(r) \ {h})
        BY ZenonT(60), <1>1, <1>3, <3>1, Shrinks
      <3>4. PICK n \in Int : n = Account(r) - Size[h]
        BY SMTT(60), <1>1, <1>4, <2>1
      <3>5. PICK S \in SUBSET Atom : S = Present(r) \ {h}
        BY ZenonT(60), <1>3
      <3>6. n >= SizeOf(S)
        BY SMTT(30), <3>3, <3>4, <3>5
      <3>7. PICK T \in SUBSET S : T = Present(r)'
        BY SMTT(30), <3>2, <3>5
      <3>8. n >= SizeOf(T)
        BY <3>6, Stays
      <3> QED
        BY SMTT(60), <3>4, <3>7, <3>8
    <2> QED
      BY SMTT(60), <1>1, <1>4, <1>a, <2>1, <2>2, <2>4, <2>5 DEF Account
  <1>9. ASSUME NEW r \in Replica, LoadHypergraph(r)
        PROVE  /\ size' \in [Replica -> Int] /\ pairSize' \in [Replica -> Nat]
               /\ \A s \in Replica : Account(s)' >= SizeOf(Present(s)')
    <2>1. stored[r].adds \in SUBSET Atom
      BY SMTT(30), <1>c DEF Atom
    <2>2. PICK S \in SUBSET Atom : S = stored[r].adds
      BY SMTT(30), <2>1
    <2> DEFINE A == {v \in S : ShardKey[v] \notin stored[r].unsized}
               B == InPairs(S)
    <2>3. /\ size' = [size EXCEPT ![r] = SizeOf(A)]
          /\ pairSize' = [pairSize EXCEPT ![r] = SizeOf(B)]
      <3>1. /\ size' = [size EXCEPT ![r] = GetSize(stored[r].adds, stored[r].unsized)]
            /\ pairSize' = [pairSize EXCEPT ![r] = SizeOf(InPairs(stored[r].adds))]
        BY Zenon, <1>9 DEF LoadHypergraph
      <3> QED
        BY Zenon, <2>2, <3>1 DEF GetSize
    <2>4. A \in SUBSET S /\ B \in SUBSET S /\ S \subseteq A \cup B
      <3>1. Paired(S, stored[r].unsized)
        BY Zenon, <1>a, <2>2 DEF UnsizedArePairs
      <3> QED
        BY SMTT(30), <3>1 DEF Paired, InPairs
    <2>5. /\ SizeOf(A) \in Nat /\ SizeOf(B) \in Nat
          /\ SizeOf(A) + SizeOf(B) >= SizeOf(S)
      <3> HIDE DEF A, B
      <3> QED
        BY ZenonT(60), <2>4, Covering
    <2> HIDE DEF A, B
    <2>r. /\ vertexAdds' = [vertexAdds EXCEPT ![r] = stored[r].adds]
          /\ vertexRemoves' = [vertexRemoves EXCEPT ![r] = stored[r].removes]
          /\ hyperedgeAdds' = [hyperedgeAdds EXCEPT ![r] = stored[r].removes]
          /\ hyperedgeRemoves' = [hyperedgeRemoves EXCEPT ![r] = {}]
      BY Zenon, <1>9 DEF LoadHypergraph
    <2>6. Present(r)' \subseteq stored[r].adds
      <3> SUFFICES ASSUME NEW a \in Atom, HasAtom(r, a)' PROVE a \in stored[r].adds
        BY SMTT(60), <1>2
      <3>1. CASE a \in Vertex
        BY SMTT(30), <1>b, <2>r, <3>1 DEF HasAtom, LookupVertex
      <3>2. CASE a \notin Vertex
        BY SMTT(30), <1>b, <1>c, <2>r, <3>2 DEF HasAtom, HasHyperedge
      <3> QED
        BY SMTT(30), <3>1, <3>2
    <2>7. SizeOf(A) + SizeOf(B) >= SizeOf(Present(r)')
      <3>1. PICK T \in SUBSET S : T = Present(r)'
        BY SMTT(30), <2>2, <2>6
      <3>2. PICK n \in Int : n = SizeOf(A) + SizeOf(B)
        BY <2>5
      <3>3. n >= SizeOf(S)
        BY Zenon, <2>5, <3>2
      <3> QED
        BY ZenonT(60), <3>1, <3>2, <3>3, Stays
    <2>8. ASSUME NEW s \in Replica, s # r PROVE Account(s) >= SizeOf(Present(s)')
      <3>1. Present(s)' \subseteq Present(s)
        <4>1. \A a \in Atom : HasAtom(s, a)' => HasAtom(s, a)
          BY SMTT(30), <1>b, <2>r, <2>8 DEF HasAtom, LookupVertex, HasHyperedge
        <4> QED
          BY SMTT(30), <1>2, <4>1
      <3> QED
        BY ZenonT(60), <1>1, <1>3, <3>1, Stays
    <2> QED
      BY SMTT(30), <1>a, <2>3, <2>7, <2>8, <2>5 DEF Account
  <1>10. ASSUME UNCHANGED <<sets, size, pairSize>>
         PROVE  /\ size' \in [Replica -> Int] /\ pairSize' \in [Replica -> Nat]
                /\ \A s \in Replica : Account(s)' >= SizeOf(Present(s)')
    <2>1. \A s \in Replica : Present(s)' \subseteq Present(s)
      <3>1. \A s \in Replica : \A a \in Atom : HasAtom(s, a)' = HasAtom(s, a)
        BY Zenon, <1>10 DEF sets, HasAtom, LookupVertex, HasHyperedge
      <3> QED
        BY SMTT(30), <1>2, <3>1
    <2>2. \A s \in Replica : Account(s) >= SizeOf(Present(s)')
      BY ZenonT(60), <1>1, <1>3, <2>1, Stays
    <2> QED
      BY SMTT(60), <1>a, <1>10, <2>2 DEF Account
  <1>11. ASSUME (\E r \in Replica : SaveHypergraph(r)) \/ UNCHANGED vars
         PROVE  UNCHANGED <<sets, size, pairSize>>
    BY SMTT(30), <1>11 DEF SaveHypergraph, vars
  <1> QED
    BY ZenonT(60), <1>5, <1>6, <1>7, <1>8, <1>9, <1>10, <1>11 DEF Next

-----------------------------------------------------------------------------
(* Within. The walk is a recursive function on hyperedges, which is well     *)
(* founded because what is nested in an extrinsic is nested in the hyperedge *)
(* and the extrinsic itself is not in it.                                    *)

Walk(r, a, f) ==
    f = [k \in Hyperedge |->
            \/ a \in Extrinsics[k] \/ a = k
            \/ \E e \in Extrinsics[k] \cap Hyperedge : LookupHyperedge(r, e) /\ f[e]]

LEMMA WithinDef ==
    ASSUME NEW r, NEW a, NEW h
    PROVE  Within(r, a, h) = (CHOOSE f : Walk(r, a, f))[h]
  BY SMTT(30) DEF Within, Walk

\* What the walk finds: of an extrinsic that is present, all that is in it.
Found(r, a, k) ==
    \/ a \in Extrinsics[k] \/ a = k
    \/ \E e \in Extrinsics[k] \cap Hyperedge :
          LookupHyperedge(r, e) /\ a \in Nested[e] \cup {e}

LEMMA FoundInside ==
    ASSUME NEW r, NEW a, NEW k \in Hyperedge, LookupHyperedge(r, k)
    PROVE  Found(r, a, k) <=> a \in Nested[k] \cup {k}
  <1>1. ASSUME NEW e \in Extrinsics[k] \cap Hyperedge
        PROVE  LookupHyperedge(r, e) /\ Nested[e] \cup {e} \subseteq Nested[k]
    <2>1. e \in Nested[k] /\ Nested[e] \subseteq Nested[k] /\ e \notin Vertex
      BY SMTT(30), NestedAssumption, AtomAssumption
    <2> QED
      BY <2>1 DEF LookupHyperedge, HasAtom
  <1>2. Extrinsics[k] \subseteq Nested[k]
    BY NestedAssumption
  <1>3. Found(r, a, k) => a \in Nested[k] \cup {k}
    BY SMTT(30), <1>1, <1>2 DEF Found
  <1>4. ASSUME a \in Nested[k], a \notin Extrinsics[k] PROVE Found(r, a, k)
    <2>1. PICK e \in Extrinsics[k] \cap Hyperedge : a \in Nested[e]
      BY SMTT(30), <1>4, NestedAssumption
    <2> QED
      BY SMTT(30), <1>1, <2>1 DEF Found
  <1>5. a \in Extrinsics[k] \cup {k} => Found(r, a, k)
    BY SMTT(30) DEF Found
  <1> QED
    BY <1>3, <1>4, <1>5

LEMMA WithinIsFound ==
    ASSUME NEW r, NEW a, NEW h \in Hyperedge
    PROVE  Within(r, a, h) <=> Found(r, a, h)
  <1> DEFINE F == [k \in Hyperedge |-> Found(r, a, k)]
             f == CHOOSE g : Walk(r, a, g)
             T == {s \in SUBSET Atom :
                      \E k \in Hyperedge : s = Nested[k] /\ ~(f[k] <=> Found(r, a, k))}
  <1>1. Walk(r, a, F)
    <2>1. ASSUME NEW k \in Hyperedge
          PROVE  F[k] = (\/ a \in Extrinsics[k] \/ a = k
                         \/ \E e \in Extrinsics[k] \cap Hyperedge :
                               LookupHyperedge(r, e) /\ F[e])
      <3>1. \A e \in Hyperedge : LookupHyperedge(r, e) => (F[e] <=> a \in Nested[e] \cup {e})
        BY FoundInside
      <3>2. F[k] = Found(r, a, k)
        OBVIOUS
      <3> HIDE DEF F
      <3> QED
        BY <3>1, <3>2 DEF Found
    <2>2. F = [k \in Hyperedge |-> F[k]]
      OBVIOUS
    <2> HIDE DEF F
    <2> QED
      BY ZenonT(60), <2>1, <2>2 DEF Walk
  <1>2. Walk(r, a, f)
    BY <1>1, Zenon
  <1> HIDE DEF f, F
  <1>3. ASSUME NEW k \in Hyperedge
        PROVE  f[k] <=> \/ a \in Extrinsics[k] \/ a = k
                        \/ \E e \in Extrinsics[k] \cap Hyperedge :
                              LookupHyperedge(r, e) /\ f[e]
    BY SMTT(60), <1>2 DEF Walk
  <1>4. T = {}
    <2> SUFFICES ASSUME T # {} PROVE FALSE
      OBVIOUS
    <2>1. PICK s \in T : \A t \in T : t \subseteq s => t = s
      <3>1. T \in SUBSET (SUBSET Atom)
        OBVIOUS
      <3> HIDE DEF T
      <3> QED
        BY <3>1, LeastSubset, AtomAssumption
    <2>2. PICK k \in Hyperedge : s = Nested[k] /\ ~(f[k] <=> Found(r, a, k))
      BY SMTT(60), <2>1
    <2>3. ASSUME NEW e \in Extrinsics[k] \cap Hyperedge
          PROVE  f[e] <=> Found(r, a, e)
      <3>1. Nested[e] \subseteq Nested[k] /\ Nested[e] # Nested[k]
        BY SMTT(60), NestedAssumption
      <3>2. Nested[e] \notin T
        BY SMTT(60), <2>1, <2>2, <3>1
      <3>3. Nested[e] \in SUBSET Atom
        BY SMTT(60), NestedAssumption
      <3> QED
        BY SMTT(60), <3>2, <3>3
    <2>4. \A e \in Extrinsics[k] \cap Hyperedge :
             LookupHyperedge(r, e) => (f[e] <=> a \in Nested[e] \cup {e})
      BY SMTT(60), <2>3, FoundInside
    <2> QED
      BY SMTT(60), <1>3, <2>2, <2>4 DEF Found
  <1>5. f[h] <=> Found(r, a, h)
    BY SMTT(60), <1>4, NestedAssumption
  <1> QED
    BY <1>5, WithinDef DEF f

LEMMA WithinIsNested == WithinReaches
  BY WithinIsFound, FoundInside DEF WithinReaches

-----------------------------------------------------------------------------
\* A hyperedge that is present has its extrinsics, whatever RemoveVertex and
\* RemoveHyperedge are called with and whatever is reloaded.
THEOREM ExtrinsicsAlwaysPresent == Spec => []ExtrinsicsPresent
  <1>1. Inv => ExtrinsicsPresent
    BY DEF Inv
  <1> QED
    BY <1>1, InitInv, InvStep, PTL DEF Spec

\* Replicas that executed the same operations agree on every lookup.
THEOREM ReplicasConverge == Spec => []Convergence
  BY InitInv, InvStep, InvConverges, PTL DEF Spec

\* The size that is kept by adding and subtracting (AddVertex to RemoveHyperedge,
\* ImportFromBytes) falls short of what is present at most by what lay two to a
\* shard when the copy was last read back, though removals of absent atoms,
\* repeated operations and reloads come between.
THEOREM SizeAlwaysCovers == Spec => []SizeCovers
  <1>1. Init => Inv /\ SizeInv
    BY InitInv, InitSize
  <1>2. (Inv /\ SizeInv) /\ [Next]_vars => (Inv /\ SizeInv)'
    BY InvStep, SizeStep
  <1>3. Inv /\ SizeInv => SizeCovers
    BY DEF SizeInv
  <1> QED
    BY <1>1, <1>2, <1>3, PTL DEF Spec

\* Within answers, for a hyperedge that is present, whether the atom is reached
\* through extrinsics at all, however deep hyperedges are nested.
THEOREM WithinAlwaysReaches == Spec => []WithinReaches
  BY WithinIsNested, PTL
=============================================================================
