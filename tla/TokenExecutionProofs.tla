------------------------ MODULE TokenExecutionProofs ------------------------
(***************************************************************************)
(* Proofs about TokenExecution, for any accounts, coins, provers, rings,   *)
(* requests and number of frames.                                          *)
(*                                                                         *)
(* The inductive invariant TokenInv says of the state of the head that     *)
(* coins have addresses of frames up to it, that the stored proofs are     *)
(* about frames, that no ring is overfull and no account in two.  A frame  *)
(* is executed only if ApplyTransitions gives its outputs again, so they   *)
(* are well made; the outputs one after the other, and then the joins, the *)
(* leaves, the evictions and the promotions one after the other, keep the  *)
(* invariant, and what each of the theorems says.                          *)
(***************************************************************************)
EXTENDS TokenApplicationProofs, FiniteSetTheorems

-----------------------------------------------------------------------------
(* The order of joins and leaves.                                          *)

\* The reversed array of a heap holds every item once.
LEMMA HeapReversedAt ==
    ASSUME NEW items, NEW n \in Nat, Len(items) = n, DOMAIN items = 1 .. n
    PROVE  \E p \in Permutation(n) : HeapReversed(items) = [i \in 1 .. n |-> items[p[i]]]
  <1> DEFINE priority == [i \in DOMAIN items |-> items[i].seniority]
  <1>1. Len(priority) = n
    BY SMT
  <1> HIDE DEF priority
  <1>2. PICK order \in Permutation(n) : order = All(priority)
    BY Zenon, <1>1, AllPermutes
  <1>3. order \in [1 .. n -> 1 .. n] /\ \A i, j \in 1 .. n : order[i] = order[j] => i = j
    BY Zenon DEF Permutation
  <1> DEFINE p == [i \in 1 .. n |-> order[n + 1 - i]]
  <1>4. \A i \in 1 .. n : n + 1 - i \in 1 .. n
    BY SMT
  <1>5. p \in [1 .. n -> 1 .. n]
    BY Zenon, <1>3, <1>4
  <1>6. ASSUME NEW i \in 1 .. n, NEW j \in 1 .. n, p[i] = p[j] PROVE i = j
    <2>1. order[n + 1 - i] = order[n + 1 - j]
      BY Zenon, <1>6
    <2>2. n + 1 - i = n + 1 - j
      BY Zenon, <1>3, <1>4, <2>1
    <2> QED
      BY SMT, <2>2
  <1>7. p \in Permutation(n)
    <2> HIDE DEF p
    <2> QED
      BY Zenon, <1>5, <1>6 DEF Permutation
  <1>8. HeapReversed(items) = [i \in DOMAIN items |-> items[order[Len(items) + 1 - i]]]
    BY Zenon, <1>2 DEF HeapReversed, priority
  <1>9. HeapReversed(items) = [i \in 1 .. n |-> items[p[i]]]
    <2>1. \A i \in 1 .. n : p[i] = order[n + 1 - i]
      BY Zenon
    <2> HIDE DEF p
    <2> QED
      BY Zenon, <1>8, <2>1
  <1> QED
    BY Zenon, <1>7, <1>9

\* The elements of addrs, each once, in another order.
Rearranged(addrs, q) ==
    /\ IsSeq(q)
    /\ \A k \in 1 .. Len(q) : \E j \in 1 .. Len(addrs) : q[k] = addrs[j]
    /\ (\A j, l \in 1 .. Len(addrs) : addrs[j] = addrs[l] => j = l)
          => (\A k, l \in 1 .. Len(q) : q[k] = q[l] => k = l)

\* The provers that join or leave are those of the outputs, in another order.
LEMMA SortedRearranges ==
    ASSUME NEW active, NEW addrs, IsSeq(addrs)
    PROVE  Rearranged(addrs, Sorted(active, addrs))
  <1>1. PICK n \in Nat : n = Len(addrs) /\ DOMAIN addrs = 1 .. n
    BY Zenon DEF IsSeq
  <1> DEFINE items == [i \in DOMAIN addrs |->
                          [addr |-> addrs[i], seniority |-> SeniorityOf(active, addrs[i])]]
  <1>2. DOMAIN items = 1 .. n /\ \A i \in 1 .. n : items[i].addr = addrs[i]
    BY Zenon, <1>1
  <1>3. Len(items) = n
    BY SMT, <1>2
  <1>4. PICK p \in Permutation(n) : HeapReversed(items) = [i \in 1 .. n |-> items[p[i]]]
    <2> HIDE DEF items
    <2> QED
      BY ZenonT(60), <1>2, <1>3, HeapReversedAt
  <1>5. PICK h : h = HeapReversed(items)
    BY Zenon
  <1>6. PICK s : s = Sorted(active, addrs)
    BY Zenon
  <1>7. s = [i \in DOMAIN h |-> h[i].addr]
    BY Zenon, <1>5, <1>6 DEF Sorted
  <1> HIDE DEF items
  <1>8. p \in [1 .. n -> 1 .. n]
    BY Zenon DEF Permutation
  <1>9. DOMAIN h = 1 .. n /\ \A i \in 1 .. n : h[i] = items[p[i]]
    BY Zenon, <1>4, <1>5
  <1>10. s = [i \in 1 .. n |-> s[i]] /\ \A i \in 1 .. n : s[i] = addrs[p[i]]
    BY Zenon, <1>2, <1>7, <1>8, <1>9
  <1>11. Len(s) = n
    BY SMT, <1>10
  <1>12. IsSeq(s)
    BY Zenon, <1>10, <1>11 DEF IsSeq
  <1>13. /\ \A i \in 1 .. n : p[i] \in 1 .. n
         /\ \A i, j \in 1 .. n : p[i] = p[j] => i = j
    BY Zenon DEF Permutation
  <1>14. \A k \in 1 .. n : \E j \in 1 .. n : s[k] = addrs[j]
    BY Zenon, <1>10, <1>13
  <1>15. ASSUME \A j, l \in 1 .. n : addrs[j] = addrs[l] => j = l, NEW k \in 1 .. n, NEW l \in 1 .. n, s[k] = s[l]
         PROVE  k = l
    <2>1. addrs[p[k]] = addrs[p[l]]
      BY Zenon, <1>10, <1>15
    <2>2. p[k] = p[l]
      BY Zenon, <1>13, <1>15, <2>1
    <2> QED
      BY Zenon, <1>13, <2>2
  <1> QED
    BY Zenon, <1>1, <1>6, <1>11, <1>12, <1>14, <1>15 DEF Rearranged

-----------------------------------------------------------------------------
(* The rings.                                                              *)

\* No ring is overfull.
Fits(rs) ==
    /\ IsSeq(rs)
    /\ \A r \in 1 .. Len(rs) :
          /\ IsFiniteSet(DOMAIN rs[r]) /\ Cardinality(DOMAIN rs[r]) <= RingSize
          /\ \A a \in DOMAIN rs[r] : rs[r][a] \in Nat

\* No account is in two rings.
Apart(rs) ==
    \A r, q \in 1 .. Len(rs) : r # q => DOMAIN rs[r] \cap DOMAIN rs[q] \cap Account = {}

\* Some ring holds a.
In(rs, a) == \E r \in 1 .. Len(rs) : a \in DOMAIN rs[r]

\* Ring m is replaced and the others stay.
Replaced(rs, m, ring, q) ==
    /\ IsSeq(q) /\ Len(q) = Len(rs) /\ q[m] = ring
    /\ \A x \in 1 .. Len(rs) : x # m => q[x] = rs[x]

\* EXCEPT does this.
LEMMA ReplaceRing ==
    ASSUME NEW rs, IsSeq(rs), NEW m \in 1 .. Len(rs), NEW ring, NEW q, q = [rs EXCEPT ![m] = ring]
    PROVE  Replaced(rs, m, ring, q)
  <1>1. DOMAIN rs = 1 .. Len(rs) /\ Len(rs) \in Nat
    BY Zenon DEF IsSeq
  <1>3. q[m] = ring /\ \A x \in 1 .. Len(rs) : x # m => q[x] = rs[x]
    BY Zenon, <1>1
  <1>4. DOMAIN q = 1 .. Len(rs) /\ q = [x \in 1 .. Len(rs) |-> q[x]]
    BY Zenon, <1>1
  <1>5. Len(q) = Len(rs)
    BY SMT, <1>1, <1>4
  <1> QED
    BY Zenon, <1>1, <1>3, <1>4, <1>5 DEF IsSeq, Replaced

\* Some provers leave their rings.
Shrunk(rs, q) ==
    /\ IsSeq(q) /\ Len(q) = Len(rs)
    /\ \A r \in 1 .. Len(rs) : /\ DOMAIN q[r] \subseteq DOMAIN rs[r]
                               /\ \A a \in DOMAIN q[r] : q[r][a] = rs[r][a]

\* Leaving keeps rings that fit and are apart so.
LEMMA ShrunkRings ==
    ASSUME NEW rs, NEW q, Shrunk(rs, q), Fits(rs), Apart(rs)
    PROVE  Fits(q) /\ Apart(q)
  <1>1. ASSUME NEW r \in 1 .. Len(q)
        PROVE  /\ IsFiniteSet(DOMAIN q[r]) /\ Cardinality(DOMAIN q[r]) <= RingSize
               /\ \A a \in DOMAIN q[r] : q[r][a] \in Nat
    <2>1. r \in 1 .. Len(rs) /\ DOMAIN q[r] \in SUBSET DOMAIN rs[r]
      BY Zenon DEF Shrunk
    <2>2. IsFiniteSet(DOMAIN rs[r]) /\ Cardinality(DOMAIN rs[r]) <= RingSize
      BY Zenon, <2>1 DEF Fits
    <2>3. IsFiniteSet(DOMAIN q[r]) /\ Cardinality(DOMAIN q[r]) <= Cardinality(DOMAIN rs[r])
      BY Zenon, <2>1, <2>2, FS_Subset
    <2>4. Cardinality(DOMAIN q[r]) \in Nat /\ Cardinality(DOMAIN rs[r]) \in Nat
      BY Zenon, <2>2, <2>3, FS_CardinalityType
    <2>5. Cardinality(DOMAIN q[r]) <= RingSize
      BY SMTT(30), <2>2, <2>3, <2>4, WindowAssumption
    <2>6. \A a \in DOMAIN q[r] : q[r][a] \in Nat
      BY Zenon, <2>1 DEF Fits, Shrunk
    <2> QED
      BY Zenon, <2>3, <2>5, <2>6
  <1>2. Apart(q)
    BY Zenon DEF Apart, Shrunk
  <1>3. IsSeq(q)
    BY Zenon DEF Shrunk
  <1> QED
    BY Zenon, <1>1, <1>2, <1>3 DEF Fits

\* Provers join: nobody leaves a ring.
Grown(rs, q) ==
    /\ Fits(q) /\ Apart(q)
    /\ \A r \in 1 .. Len(rs) : r \in 1 .. Len(q)
    /\ \A r \in 1 .. Len(rs) : \A b \in DOMAIN rs[r] : b \in DOMAIN q[r] /\ q[r][b] = rs[r][b]

\* Only a joins.
Joined(rs, q, a) == Grown(rs, q) /\ \A b : In(q, b) => In(rs, b) \/ b = a

\* A prover of no ring joins one that is not full.
LEMMA JoinInto ==
    ASSUME NEW g, Fits(g), Apart(g), NEW a \in Account, ~In(g, a), NEW number \in Nat,
           NEW m \in 1 .. Len(g), Cardinality(DOMAIN g[m]) # RingSize,
           NEW q, q = [g EXCEPT ![m] = Add(g[m], {a}, number)]
    PROVE  Joined(g, q, a)
  <1>1. PICK ring : ring = Add(g[m], {a}, number)
    BY Zenon
  <1>2. IsSeq(g)
    BY Zenon DEF Fits
  <1>3. /\ IsSeq(q) /\ Len(q) = Len(g) /\ q[m] = ring
        /\ \A x \in 1 .. Len(g) : x # m => q[x] = g[x]
    <2>1. q = [g EXCEPT ![m] = ring]
      BY Zenon, <1>1
    <2>2. Replaced(g, m, ring, q)
      BY Zenon, <1>2, <2>1, ReplaceRing
    <2> QED
      BY Zenon, <2>2 DEF Replaced
  <1>4. /\ DOMAIN ring = DOMAIN g[m] \cup {a} /\ ring[a] = number
        /\ \A b \in DOMAIN g[m] \ {a} : ring[b] = g[m][b]
    BY Zenon, <1>1 DEF Add
  <1>5. \A r \in 1 .. Len(g) : a \notin DOMAIN g[r]
    BY Zenon DEF In
  <1>6. /\ IsFiniteSet(DOMAIN g[m]) /\ Cardinality(DOMAIN g[m]) <= RingSize
        /\ \A b \in DOMAIN g[m] : g[m][b] \in Nat
    BY Zenon DEF Fits
  <1>7. IsFiniteSet(DOMAIN ring) /\ Cardinality(DOMAIN ring) = Cardinality(DOMAIN g[m]) + 1
    BY ZenonT(60), <1>4, <1>5, <1>6, FS_AddElement
  <1>8. Cardinality(DOMAIN g[m]) \in Nat
    BY Zenon, <1>6, FS_CardinalityType
  <1>9. Cardinality(DOMAIN ring) <= RingSize
    BY SMT, <1>6, <1>7, <1>8, WindowAssumption
  <1>10. \A b \in DOMAIN ring : ring[b] \in Nat
    BY Zenon, <1>4, <1>6
  <1>11. Fits(q)
    <2>1. ASSUME NEW r \in 1 .. Len(q)
          PROVE  /\ IsFiniteSet(DOMAIN q[r]) /\ Cardinality(DOMAIN q[r]) <= RingSize
                 /\ \A b \in DOMAIN q[r] : q[r][b] \in Nat
      <3>1. CASE r = m
        BY Zenon, <1>3, <1>7, <1>9, <1>10, <3>1
      <3>2. CASE r # m
        <4>1. q[r] = g[r] /\ r \in 1 .. Len(g)
          BY Zenon, <1>3, <3>2
        <4>2. /\ IsFiniteSet(DOMAIN g[r]) /\ Cardinality(DOMAIN g[r]) <= RingSize
              /\ \A b \in DOMAIN g[r] : g[r][b] \in Nat
          BY Zenon, <4>1 DEF Fits
        <4> QED
          BY Zenon, <4>1, <4>2
      <3> QED
        BY Zenon, <3>1, <3>2
    <2> QED
      BY Zenon, <1>3, <2>1 DEF Fits
  <1>12. Apart(q)
    <2> SUFFICES ASSUME NEW r \in 1 .. Len(g), NEW x \in 1 .. Len(g), r # x,
                        NEW b \in Account, b \in DOMAIN q[r], b \in DOMAIN q[x]
                 PROVE  FALSE
      BY Zenon, <1>3 DEF Apart
    <2>1. \A y \in 1 .. Len(g) : b \in DOMAIN q[y] => b \in DOMAIN g[y] \/ (b = a /\ y = m)
      BY Zenon, <1>3, <1>4
    <2>2. b # a
      BY Zenon, <1>5, <2>1
    <2> QED
      BY Zenon, <2>1, <2>2 DEF Apart
  <1>13. \A r \in 1 .. Len(g) : \A b \in DOMAIN g[r] : b \in DOMAIN q[r] /\ q[r][b] = g[r][b]
    <2> SUFFICES ASSUME NEW r \in 1 .. Len(g), NEW b \in DOMAIN g[r]
                 PROVE  b \in DOMAIN q[r] /\ q[r][b] = g[r][b]
      BY Zenon
    <2>1. b # a
      BY Zenon, <1>5
    <2>2. CASE r = m
      <3>1. b \in DOMAIN g[m] \ {a}
        BY Zenon, <2>1, <2>2
      <3> QED
        BY Zenon, <1>3, <1>4, <2>2, <3>1
    <2>3. CASE r # m
      BY Zenon, <1>3, <2>3
    <2> QED
      BY Zenon, <2>2, <2>3
  <1>14. ASSUME NEW b, In(q, b) PROVE In(g, b) \/ b = a
    <2>1. PICK r \in 1 .. Len(g) : b \in DOMAIN q[r]
      BY Zenon, <1>3, <1>14 DEF In
    <2>2. b \in DOMAIN g[r] \/ b = a
      BY Zenon, <1>3, <1>4, <2>1
    <2> QED
      BY Zenon, <2>2 DEF In
  <1> QED
    BY Zenon, <1>3, <1>11, <1>12, <1>13, <1>14 DEF Joined, Grown

\* An empty ring at the end.
LEMMA NewRing ==
    ASSUME NEW rs, Fits(rs), Apart(rs), NEW g, g = Append(rs, EmptyRing)
    PROVE  /\ Fits(g) /\ Apart(g) /\ Len(g) = Len(rs) + 1 /\ Len(rs) \in Nat
           /\ \A r \in 1 .. Len(rs) : r \in 1 .. Len(g) /\ g[r] = rs[r]
           /\ Len(g) \in 1 .. Len(g) /\ DOMAIN g[Len(g)] = {}
           /\ \A b : In(g, b) => In(rs, b)
  <1>0. DOMAIN EmptyRing = {}
    BY Zenon DEF EmptyRing
  <1>1. PICK e : e = EmptyRing /\ DOMAIN e = {}
    BY Zenon, <1>0
  <1>2. IsSeq(rs)
    BY Zenon DEF Fits
  <1>3. PICK n \in Nat : n = Len(rs)
    BY Zenon, <1>2 DEF IsSeq
  <1>4. /\ IsSeq(Append(rs, e)) /\ Len(Append(rs, e)) = Len(rs) + 1
        /\ \A k \in 1 .. Len(rs) + 1 : Append(rs, e)[k] = IF k <= Len(rs) THEN rs[k] ELSE e
    BY Zenon, <1>2, AppendIsSeq
  <1>5. /\ IsSeq(g) /\ Len(g) = n + 1
        /\ \A k \in 1 .. n + 1 : g[k] = IF k <= n THEN rs[k] ELSE e
    BY Zenon, <1>1, <1>3, <1>4
  <1>6. /\ \A r \in 1 .. n : r \in 1 .. n + 1 /\ g[r] = rs[r]
        /\ n + 1 \in 1 .. n + 1 /\ g[n + 1] = e
        /\ \A r \in 1 .. n + 1 : r \in 1 .. n \/ r = n + 1
    BY SMT, <1>5
  <1>7. Fits(g)
    <2>1. IsFiniteSet(DOMAIN e) /\ Cardinality(DOMAIN e) <= RingSize /\ \A a \in DOMAIN e : e[a] \in Nat
      <3>1. IsFiniteSet(DOMAIN e) /\ Cardinality(DOMAIN e) = 0
        BY Zenon, <1>1, FS_EmptySet
      <3>2. Cardinality(DOMAIN e) <= RingSize
        BY SMTT(30), <3>1, WindowAssumption
      <3> QED
        BY Zenon, <1>1, <3>1, <3>2
    <2>2. ASSUME NEW r \in 1 .. Len(g)
          PROVE  /\ IsFiniteSet(DOMAIN g[r]) /\ Cardinality(DOMAIN g[r]) <= RingSize
                 /\ \A b \in DOMAIN g[r] : g[r][b] \in Nat
      <3>1. CASE r = n + 1
        BY Zenon, <1>6, <2>1, <3>1
      <3>2. CASE r \in 1 .. n
        <4>1. /\ IsFiniteSet(DOMAIN rs[r]) /\ Cardinality(DOMAIN rs[r]) <= RingSize
              /\ \A b \in DOMAIN rs[r] : rs[r][b] \in Nat
          BY Zenon, <1>3, <3>2 DEF Fits
        <4>2. g[r] = rs[r]
          BY Zenon, <1>6, <3>2
        <4> QED
          BY Zenon, <4>1, <4>2
      <3> QED
        BY Zenon, <1>5, <1>6, <3>1, <3>2
    <2> QED
      BY Zenon, <1>5, <2>2 DEF Fits
  <1>8. ASSUME NEW r \in 1 .. n + 1, NEW b \in DOMAIN g[r] PROVE r \in 1 .. n /\ b \in DOMAIN rs[r]
    BY Zenon, <1>1, <1>6
  <1>9. Apart(g)
    <2> SUFFICES ASSUME NEW r \in 1 .. n + 1, NEW x \in 1 .. n + 1, r # x,
                        NEW b \in Account, b \in DOMAIN g[r], b \in DOMAIN g[x]
                 PROVE  FALSE
      BY Zenon, <1>5 DEF Apart
    <2>1. r \in 1 .. Len(rs) /\ b \in DOMAIN rs[r] /\ x \in 1 .. Len(rs) /\ b \in DOMAIN rs[x]
      BY Zenon, <1>3, <1>8
    <2> QED
      BY Zenon, <2>1 DEF Apart
  <1>10. ASSUME NEW b, In(g, b) PROVE In(rs, b)
    BY Zenon, <1>3, <1>5, <1>8, <1>10 DEF In
  <1> QED
    BY Zenon, <1>1, <1>3, <1>5, <1>6, <1>7, <1>9, <1>10

\* Joining after joining.
LEMMA GrownTwice ==
    ASSUME NEW rs, NEW g, NEW q, Grown(rs, g), Grown(g, q) PROVE Grown(rs, q)
  <1>1. ASSUME NEW r \in 1 .. Len(rs)
        PROVE  r \in 1 .. Len(q) /\ \A b \in DOMAIN rs[r] : b \in DOMAIN q[r] /\ q[r][b] = rs[r][b]
    <2>1. r \in 1 .. Len(g) /\ \A b \in DOMAIN rs[r] : b \in DOMAIN g[r] /\ g[r][b] = rs[r][b]
      BY Zenon DEF Grown
    <2>2. r \in 1 .. Len(q) /\ \A b \in DOMAIN g[r] : b \in DOMAIN q[r] /\ q[r][b] = g[r][b]
      BY Zenon, <2>1 DEF Grown
    <2> QED
      BY Zenon, <2>1, <2>2
  <1> QED
    BY Zenon, <1>1 DEF Grown

\* Join adds one prover to the last ring, or to a new one.
LEMMA JoinJoins ==
    ASSUME NEW rs, Fits(rs), Apart(rs), NEW a \in Account, ~In(rs, a), NEW number \in Nat
    PROVE  Joined(rs, Join(rs, a, number), a)
  <1> DEFINE full == rs = <<>> \/ Cardinality(DOMAIN rs[Len(rs)]) = RingSize
  <1>1. PICK g : g = IF full THEN Append(rs, EmptyRing) ELSE rs
    BY Zenon
  <1>2. PICK m : m = Len(g)
    BY Zenon
  <1>3. PICK q : q = Join(rs, a, number)
    BY Zenon
  <1>4. q = IF a \in DOMAIN g[m] THEN g ELSE [g EXCEPT ![m] = Add(g[m], {a}, number)]
    BY Zenon, <1>1, <1>2, <1>3 DEF Join
  <1>5. /\ Fits(g) /\ Apart(g) /\ Grown(rs, g) /\ (\A b : In(g, b) => In(rs, b))
        /\ m \in 1 .. Len(g) /\ Cardinality(DOMAIN g[m]) # RingSize
    <2>1. CASE full
      <3>1. g = Append(rs, EmptyRing)
        BY Zenon, <1>1, <2>1
      <3>2. /\ Fits(g) /\ Apart(g) /\ Len(g) = Len(rs) + 1 /\ Len(rs) \in Nat
            /\ \A r \in 1 .. Len(rs) : r \in 1 .. Len(g) /\ g[r] = rs[r]
            /\ Len(g) \in 1 .. Len(g) /\ DOMAIN g[Len(g)] = {}
            /\ \A b : In(g, b) => In(rs, b)
        BY Zenon, <3>1, NewRing
      <3>3. Grown(rs, g)
        BY Zenon, <3>2 DEF Grown
      <3>4. Cardinality(DOMAIN g[m]) = 0
        BY Zenon, <1>2, <3>2, FS_EmptySet
      <3>5. Cardinality(DOMAIN g[m]) # RingSize
        BY SMT, <3>4, WindowAssumption
      <3> QED
        BY Zenon, <1>2, <3>2, <3>3, <3>5
    <2>2. CASE ~full
      <3>1. g = rs /\ rs # <<>> /\ Cardinality(DOMAIN rs[Len(rs)]) # RingSize
        BY Zenon, <1>1, <2>2
      <3>2. Len(rs) \in 1 .. Len(rs)
        <4>1. IsSeq(rs)
          BY Zenon DEF Fits
        <4>2. Len(rs) \in Nat /\ rs = [i \in 1 .. Len(rs) |-> rs[i]]
          BY Zenon, <4>1 DEF IsSeq
        <4>3. Len(rs) # 0
          BY SMT, <3>1, <4>2
        <4> QED
          BY SMT, <4>2, <4>3
      <3>3. Grown(rs, rs)
        BY Zenon DEF Grown
      <3> QED
        BY Zenon, <1>2, <3>1, <3>2, <3>3
    <2> QED
      BY Zenon, <2>1, <2>2
  <1>6. ~In(g, a) /\ a \notin DOMAIN g[m]
    BY Zenon, <1>5 DEF In
  <1>7. Joined(g, q, a)
    <2>1. q = [g EXCEPT ![m] = Add(g[m], {a}, number)]
      BY Zenon, <1>4, <1>6
    <2> QED
      BY Zenon, <1>5, <1>6, <2>1, JoinInto
  <1>8. Grown(rs, q)
    BY Zenon, <1>5, <1>7, GrownTwice DEF Joined
  <1>9. \A b : In(q, b) => In(rs, b) \/ b = a
    BY Zenon, <1>5, <1>7 DEF Joined
  <1> QED
    BY Zenon, <1>3, <1>8, <1>9 DEF Joined

\* f is the recursive function of JoinAll, cut off at n.
JoiningAll(rs, joins, number, n, f) ==
    f = [i \in 0 .. n |-> IF i = 0 THEN rs ELSE Join(f[i - 1], joins[i], number)]

\* JoinAll is its last value.
LEMMA JoinAllDef ==
    ASSUME NEW rs, NEW joins, NEW number
    PROVE  JoinAll(rs, joins, number)
             = (CHOOSE f : JoiningAll(rs, joins, number, Len(joins), f))[Len(joins)]
  BY DEF JoinAll, JoiningAll

\* There is such a function.
LEMMA JoiningAllExists ==
    ASSUME NEW rs, NEW joins, NEW number, NEW n \in Nat
    PROVE  \E f : JoiningAll(rs, joins, number, n, f)
  <1> DEFINE S == {m \in Nat : \E f : JoiningAll(rs, joins, number, m, f)}
  <1>1. 0 \in S
    <2>1. JoiningAll(rs, joins, number, 0, [k \in 0 .. 0 |-> rs])
      BY SMT DEF JoiningAll
    <2> QED
      BY <2>1
  <1>2. ASSUME NEW m \in Nat, m \in S PROVE m + 1 \in S
    <2>1. PICK f : JoiningAll(rs, joins, number, m, f)
      BY <1>2
    <2> DEFINE g == [k \in 0 .. m + 1 |-> IF k = m + 1 THEN Join(f[m], joins[k], number) ELSE f[k]]
    <2>2. JoiningAll(rs, joins, number, m + 1, g)
      BY SMT, <2>1 DEF JoiningAll
    <2>3. m + 1 \in Nat
      OBVIOUS
    <2> HIDE DEF g
    <2> QED
      BY Zenon, <2>2, <2>3
  <1>3. \A k \in Nat : k \in S
    <2> HIDE DEF S
    <2> QED
      BY Zenon, <1>1, <1>2, Induction
  <1> QED
    BY Zenon, <1>3

\* Provers that are in no ring, each once, join.
LEMMA JoinAllGrows ==
    ASSUME NEW rs, Fits(rs), Apart(rs), NEW number \in Nat, NEW joins, IsSeq(joins),
           \A k \in 1 .. Len(joins) : joins[k] \in Account /\ ~In(rs, joins[k]),
           \A k, l \in 1 .. Len(joins) : joins[k] = joins[l] => k = l
    PROVE  Grown(rs, JoinAll(rs, joins, number))
  <1>1. PICK n \in Nat : n = Len(joins)
    BY Zenon DEF IsSeq
  <1>2. PICK f : JoiningAll(rs, joins, number, n, f) /\ JoinAll(rs, joins, number) = f[n]
    BY Zenon, <1>1, JoinAllDef, JoiningAllExists
  <1>3. f[0] = rs /\ \A i \in 1 .. n : f[i] = Join(f[i - 1], joins[i], number)
    BY SMT, <1>2 DEF JoiningAll
  <1> DEFINE S == {i \in 0 .. n : /\ Grown(rs, f[i])
                                  /\ \A b : In(f[i], b) => In(rs, b) \/ \E k \in 1 .. i : b = joins[k]}
  <1>4. 0 \in S
    <2>1. Grown(rs, rs)
      BY Zenon DEF Grown
    <2>2. 0 \in 0 .. n
      BY SMT
    <2> QED
      BY Zenon, <1>3, <2>1, <2>2
  <1>5. ASSUME NEW i \in 0 .. n - 1, i \in S PROVE i + 1 \in S
    <2>1. i + 1 \in 1 .. n /\ (i + 1) - 1 = i /\ i + 1 \in 0 .. n /\ i + 1 \in 1 .. i + 1
      BY SMT
    <2>2. \A k \in 1 .. i : k \in 1 .. n /\ k # i + 1 /\ k \in 1 .. i + 1
      BY SMT
    <2>3. PICK g, q, a : g = f[i] /\ q = f[i + 1] /\ a = joins[i + 1]
      BY Zenon
    <2>4. q = Join(g, a, number)
      BY Zenon, <1>3, <2>1, <2>3
    <2>5. Grown(rs, g) /\ \A b : In(g, b) => In(rs, b) \/ \E k \in 1 .. i : b = joins[k]
      BY Zenon, <1>5, <2>3
    <2>6. a \in Account /\ ~In(rs, a)
      BY Zenon, <1>1, <2>1, <2>3
    <2>7. ~In(g, a)
      <3> SUFFICES ASSUME NEW k \in 1 .. i, a = joins[k] PROVE FALSE
        BY Zenon, <2>5, <2>6
      <3> QED
        BY Zenon, <1>1, <2>1, <2>2, <2>3
    <2>8. Fits(g) /\ Apart(g)
      BY Zenon, <2>5 DEF Grown
    <2>9. Joined(g, q, a)
      BY Zenon, <2>4, <2>6, <2>7, <2>8, JoinJoins
    <2>10. Grown(rs, q)
      BY Zenon, <2>5, <2>9, GrownTwice DEF Joined
    <2>11. ASSUME NEW b, In(q, b) PROVE In(rs, b) \/ \E k \in 1 .. i + 1 : b = joins[k]
      <3>1. In(g, b) \/ b = a
        BY Zenon, <2>9, <2>11 DEF Joined
      <3>2. CASE b = a
        BY Zenon, <2>1, <2>3, <3>2
      <3>3. CASE In(g, b)
        BY Zenon, <2>2, <2>5, <3>3
      <3> QED
        BY Zenon, <3>1, <3>2, <3>3
    <2> QED
      BY Zenon, <2>1, <2>3, <2>10, <2>11
  <1>6. \A i \in 0 .. n : i \in S
    <2> HIDE DEF S
    <2> QED
      BY Zenon, <1>4, <1>5, InductionTo
  <1>7. n \in 0 .. n
    BY SMT
  <1> QED
    BY Zenon, <1>2, <1>6, <1>7

\* Only provers of S leave.
Left(rs, q, S) ==
    /\ Shrunk(rs, q)
    /\ \A r \in 1 .. Len(rs) : \A b \in DOMAIN rs[r] : b \in DOMAIN q[r] \/ b \in S

\* Leaving after leaving.
LEMMA LeftTwice ==
    ASSUME NEW rs, NEW g, NEW q, NEW S, Left(rs, g, S), Left(g, q, S) PROVE Left(rs, q, S)
  <1>1. Len(g) = Len(rs) /\ Len(q) = Len(rs) /\ IsSeq(q)
    BY Zenon DEF Left, Shrunk
  <1>2. ASSUME NEW r \in 1 .. Len(rs)
        PROVE  /\ DOMAIN q[r] \subseteq DOMAIN rs[r] /\ \A a \in DOMAIN q[r] : q[r][a] = rs[r][a]
               /\ \A b \in DOMAIN rs[r] : b \in DOMAIN q[r] \/ b \in S
    <2>1. /\ DOMAIN g[r] \subseteq DOMAIN rs[r] /\ \A a \in DOMAIN g[r] : g[r][a] = rs[r][a]
          /\ \A b \in DOMAIN rs[r] : b \in DOMAIN g[r] \/ b \in S
      BY Zenon DEF Left, Shrunk
    <2>2. /\ DOMAIN q[r] \subseteq DOMAIN g[r] /\ \A a \in DOMAIN q[r] : q[r][a] = g[r][a]
          /\ \A b \in DOMAIN g[r] : b \in DOMAIN q[r] \/ b \in S
      BY Zenon, <1>1 DEF Left, Shrunk
    <2> QED
      BY Zenon, <2>1, <2>2
  <1> QED
    BY Zenon, <1>1, <1>2 DEF Left, Shrunk

\* Nobody leaves.
LEMMA SameLeft ==
    ASSUME NEW rs, IsSeq(rs), NEW S PROVE Left(rs, rs, S)
  BY Zenon DEF Left, Shrunk

\* Leave takes one prover out of a ring, if any holds it.
LEMMA LeaveLeft ==
    ASSUME NEW rs, IsSeq(rs), NEW S, NEW a \in S
    PROVE  Left(rs, Leave(rs, a), S)
  <1>1. PICK held : held = {r \in DOMAIN rs : a \in DOMAIN rs[r]}
    BY Zenon
  <1>2. PICK q : q = Leave(rs, a)
    BY Zenon
  <1>3. q = IF held = {} THEN rs ELSE [rs EXCEPT ![Min(held)] = Without(rs[Min(held)], {a})]
    BY Zenon, <1>1, <1>2 DEF Leave
  <1>4. CASE held = {}
    BY Zenon, <1>2, <1>3, <1>4, SameLeft
  <1>5. CASE held # {}
    <2>1. DOMAIN rs = 1 .. Len(rs) /\ Len(rs) \in Nat
      BY Zenon DEF IsSeq
    <2>2. held \in SUBSET Nat
      BY SMTT(30), <1>1, <2>1
    <2>3. PICK m \in held : m = Min(held)
      BY Zenon, <1>5, <2>2, MinIsLeast
    <2>4. m \in 1 .. Len(rs)
      BY Zenon, <1>1, <2>1, <2>3
    <2>5. PICK ring : ring = Without(rs[m], {a})
      BY Zenon
    <2>6. q = [rs EXCEPT ![m] = ring]
      BY Zenon, <1>3, <1>5, <2>3, <2>5
    <2>7. Replaced(rs, m, ring, q)
      BY Zenon, <2>4, <2>6, ReplaceRing
    <2>8. DOMAIN ring = DOMAIN rs[m] \ {a} /\ \A y \in DOMAIN rs[m] \ {a} : ring[y] = rs[m][y]
      BY Zenon, <2>5, WithoutFacts
    <2>9. ASSUME NEW r \in 1 .. Len(rs)
          PROVE  /\ DOMAIN q[r] \subseteq DOMAIN rs[r] /\ \A b \in DOMAIN q[r] : q[r][b] = rs[r][b]
                 /\ \A b \in DOMAIN rs[r] : b \in DOMAIN q[r] \/ b \in S
      <3>1. CASE r = m
        <4>1. q[r] = ring
          BY Zenon, <2>7, <3>1 DEF Replaced
        <4> QED
          BY Zenon, <2>8, <3>1, <4>1
      <3>2. CASE r # m
        <4>1. q[r] = rs[r]
          BY Zenon, <2>7, <3>2 DEF Replaced
        <4> QED
          BY Zenon, <4>1
      <3> QED
        BY Zenon, <3>1, <3>2
    <2>10. IsSeq(q) /\ Len(q) = Len(rs)
      BY Zenon, <2>7 DEF Replaced
    <2> QED
      BY Zenon, <1>2, <2>9, <2>10 DEF Left, Shrunk
  <1> QED
    BY Zenon, <1>4, <1>5

\* f is the recursive function of LeaveAll, cut off at n.
LeavingAll(rs, leaves, n, f) ==
    f = [i \in 0 .. n |-> IF i = 0 THEN rs ELSE Leave(f[i - 1], leaves[i])]

\* LeaveAll is its last value.
LEMMA LeaveAllDef ==
    ASSUME NEW rs, NEW leaves
    PROVE  LeaveAll(rs, leaves) = (CHOOSE f : LeavingAll(rs, leaves, Len(leaves), f))[Len(leaves)]
  BY DEF LeaveAll, LeavingAll

\* There is such a function.
LEMMA LeavingAllExists ==
    ASSUME NEW rs, NEW leaves, NEW n \in Nat
    PROVE  \E f : LeavingAll(rs, leaves, n, f)
  <1> DEFINE S == {m \in Nat : \E f : LeavingAll(rs, leaves, m, f)}
  <1>1. 0 \in S
    <2>1. LeavingAll(rs, leaves, 0, [k \in 0 .. 0 |-> rs])
      BY SMT DEF LeavingAll
    <2> QED
      BY <2>1
  <1>2. ASSUME NEW m \in Nat, m \in S PROVE m + 1 \in S
    <2>1. PICK f : LeavingAll(rs, leaves, m, f)
      BY <1>2
    <2> DEFINE g == [k \in 0 .. m + 1 |-> IF k = m + 1 THEN Leave(f[m], leaves[k]) ELSE f[k]]
    <2>2. LeavingAll(rs, leaves, m + 1, g)
      BY SMTT(30), <2>1 DEF LeavingAll
    <2>3. m + 1 \in Nat
      OBVIOUS
    <2> HIDE DEF g
    <2> QED
      BY Zenon, <2>2, <2>3
  <1>3. \A k \in Nat : k \in S
    <2> HIDE DEF S
    <2> QED
      BY Zenon, <1>1, <1>2, Induction
  <1> QED
    BY Zenon, <1>3

\* Only provers of the list leave.
LEMMA LeaveAllLeft ==
    ASSUME NEW rs, IsSeq(rs), NEW leaves, IsSeq(leaves), NEW T,
           \A k \in 1 .. Len(leaves) : leaves[k] \in T
    PROVE  Left(rs, LeaveAll(rs, leaves), T)
  <1>1. PICK n \in Nat : n = Len(leaves)
    BY Zenon DEF IsSeq
  <1>2. PICK f : LeavingAll(rs, leaves, n, f) /\ LeaveAll(rs, leaves) = f[n]
    BY Zenon, <1>1, LeaveAllDef, LeavingAllExists
  <1>3. f[0] = rs /\ \A i \in 1 .. n : f[i] = Leave(f[i - 1], leaves[i])
    BY SMTT(30), <1>2 DEF LeavingAll
  <1> DEFINE S == {i \in 0 .. n : Left(rs, f[i], T)}
  <1>4. 0 \in S
    <2>1. 0 \in 0 .. n
      BY SMT
    <2> QED
      BY Zenon, <1>3, <2>1, SameLeft
  <1>5. ASSUME NEW i \in 0 .. n - 1, i \in S PROVE i + 1 \in S
    <2>1. i + 1 \in 1 .. n /\ (i + 1) - 1 = i /\ i + 1 \in 0 .. n
      BY SMT
    <2>2. PICK g, q, a : g = f[i] /\ q = f[i + 1] /\ a = leaves[i + 1]
      BY Zenon
    <2>3. q = Leave(g, a) /\ a \in T
      BY ZenonT(60), <1>1, <1>3, <2>1, <2>2
    <2>4. Left(rs, g, T)
      BY Zenon, <1>5, <2>2
    <2>5. IsSeq(g)
      BY Zenon, <2>4 DEF Left, Shrunk
    <2>6. Left(g, q, T)
      BY Zenon, <2>3, <2>5, LeaveLeft
    <2> QED
      BY ZenonT(60), <2>1, <2>2, <2>4, <2>6, LeftTwice
  <1>6. \A i \in 0 .. n : i \in S
    <2> HIDE DEF S
    <2> QED
      BY Zenon, <1>4, <1>5, InductionTo
  <1>7. n \in 0 .. n
    BY SMT
  <1> QED
    BY ZenonT(60), <1>2, <1>6, <1>7

\* Only provers that were not rewarded for long are evicted.
Evicted(rs, q, number) ==
    /\ Shrunk(rs, q)
    /\ \A r \in 1 .. Len(rs) : \A b \in DOMAIN rs[r] :
          b \in DOMAIN q[r] \/ rs[r][b] < (number - Expire) % WordSize

\* Evict does this.
LEMMA EvictEvicts ==
    ASSUME NEW rs, IsSeq(rs), NEW number PROVE Evicted(rs, Evict(rs, number), number)
  <1>1. PICK q : q = Evict(rs, number)
    BY Zenon
  <1>2. DOMAIN rs = 1 .. Len(rs) /\ Len(rs) \in Nat
    BY Zenon DEF IsSeq
  <1> DEFINE Old(r) == {a \in DOMAIN rs[r] : rs[r][a] < (number - Expire) % WordSize}
  <1>3. q = [r \in DOMAIN rs |-> Without(rs[r], Old(r))]
    BY Zenon, <1>1 DEF Evict
  <1>4. ASSUME NEW r \in 1 .. Len(rs)
        PROVE  /\ DOMAIN q[r] \subseteq DOMAIN rs[r] /\ \A b \in DOMAIN q[r] : q[r][b] = rs[r][b]
               /\ \A b \in DOMAIN rs[r] : b \in DOMAIN q[r] \/ rs[r][b] < (number - Expire) % WordSize
    <2>1. PICK old : old = Old(r)
      BY Zenon
    <2>2. q[r] = Without(rs[r], old)
      BY ZenonT(60), <1>2, <1>3, <2>1
    <2>3. \A b \in old : rs[r][b] < (number - Expire) % WordSize
      BY Zenon, <2>1
    <2>4. DOMAIN Without(rs[r], old) = DOMAIN rs[r] \ old
      BY Zenon, WithoutFacts
    <2>5. \A b \in DOMAIN rs[r] \ old : Without(rs[r], old)[b] = rs[r][b]
      BY Zenon, WithoutFacts
    <2> QED
      BY ZenonT(60), <2>2, <2>3, <2>4, <2>5
  <1>5. IsSeq(q) /\ Len(q) = Len(rs)
    <2>1. q = [r \in DOMAIN rs |-> q[r]]
      BY Zenon, <1>3
    <2> QED
      BY Zenon, <2>1, MapIsSeq
  <1> QED
    BY Zenon, <1>1, <1>4, <1>5 DEF Evicted, Shrunk

\* k values are at most k different ones.
LEMMA FewElements ==
    ASSUME NEW k \in Nat, NEW f, NEW S, S = {f[i] : i \in 1 .. k}
    PROVE  IsFiniteSet(S) /\ Cardinality(S) <= k
  <1> DEFINE g == [i \in 1 .. k |-> f[i]]
  <1>1. g \in Surjection(1 .. k, S)
    BY Zenon DEF Surjection
  <1>2. ExistsSurjection(1 .. k, S)
    BY Zenon, <1>1 DEF ExistsSurjection
  <1> QED
    BY Zenon, <1>2, FS_NatSurjection, FS_SurjCardinalityBound

\* What NearestOrder lists is in the ring.
LEMMA NearestInRing ==
    ASSUME NEW ring
    PROVE  IsSeq(NearestOrder(ring)) /\ \A i \in 1 .. Len(NearestOrder(ring)) : NearestOrder(ring)[i] \in DOMAIN ring
  <1> DEFINE at == {i \in DOMAIN AddressOrder : AddressOrder[i] \in DOMAIN ring}
  <1>1. IsSeq(AddressOrder)
    BY Zenon, AddressAssumption, SeqIsSeq
  <1>2. PICK next : next = NearestOrder(ring)
    BY Zenon
  <1>3. next = At(AddressOrder, at)
    BY Zenon, <1>2 DEF NearestOrder
  <1>4. \A i \in at : AddressOrder[i] \in DOMAIN ring
    OBVIOUS
  <1> HIDE DEF at
  <1>5. Picked(AddressOrder, at, next)
    BY Zenon, <1>1, <1>3, AtPicks
  <1>6. IsSeq(next) /\ \A i \in 1 .. Len(next) : next[i] \in DOMAIN ring
    BY Zenon, <1>4, <1>5 DEF Picked
  <1> QED
    BY Zenon, <1>2, <1>6

\* The provers that Promote moves.
Moved(rs, u) ==
    LET size == Cardinality(DOMAIN rs[u])
        next == NearestOrder(rs[u + 1])
        process == HeapReversed([i \in DOMAIN next |-> Item(seniority, next[i])])
    IN {process[i].addr : i \in {j \in DOMAIN process : j <= RingSize - size}}

\* They have room in ring u, and come from the next one; an address without a
\* seniority counts as NoAddress.
LEMMA MovedFew ==
    ASSUME NEW rs, Fits(rs), NEW u \in 1 .. Len(rs)
    PROVE  /\ IsFiniteSet(Moved(rs, u))
           /\ Cardinality(Moved(rs, u)) + Cardinality(DOMAIN rs[u]) <= RingSize
           /\ \A a \in Moved(rs, u) : a \in DOMAIN rs[u + 1] \/ a = NoAddress
  <1>1. PICK size : size = Cardinality(DOMAIN rs[u])
    BY Zenon
  <1>2. size \in Nat /\ size <= RingSize
    BY Zenon, <1>1, FS_CardinalityType DEF Fits
  <1>3. PICK room \in Nat : room = RingSize - size
    BY SMTT(30), <1>2, WindowAssumption
  <1>4. PICK next : next = NearestOrder(rs[u + 1])
    BY Zenon
  <1>5. IsSeq(next) /\ \A i \in 1 .. Len(next) : next[i] \in DOMAIN rs[u + 1]
    BY Zenon, <1>4, NearestInRing
  <1>6. PICK n \in Nat : n = Len(next) /\ DOMAIN next = 1 .. n
    BY Zenon, <1>5 DEF IsSeq
  <1>7. PICK items : items = [i \in DOMAIN next |-> Item(seniority, next[i])]
    BY Zenon
  <1>8. DOMAIN items = 1 .. n /\ \A i \in 1 .. n : items[i] = Item(seniority, next[i])
    BY Zenon, <1>6, <1>7
  <1>9. Len(items) = n
    BY SMTT(30), <1>8
  <1>10. PICK p \in Permutation(n) : HeapReversed(items) = [i \in 1 .. n |-> items[p[i]]]
    BY ZenonT(60), <1>8, <1>9, HeapReversedAt
  <1>11. PICK process : process = HeapReversed(items)
    BY Zenon
  <1>12. DOMAIN process = 1 .. n /\ \A i \in 1 .. n : process[i] = items[p[i]]
    BY Zenon, <1>10, <1>11
  <1>13. \A i \in 1 .. n : p[i] \in 1 .. n
    BY Zenon, <1>10 DEF Permutation
  <1>14. ASSUME NEW i \in 1 .. n PROVE process[i].addr \in DOMAIN rs[u + 1] \/ process[i].addr = NoAddress
    <2>1. PICK a : a = next[p[i]] /\ a \in DOMAIN rs[u + 1]
      BY ZenonT(60), <1>5, <1>6, <1>13
    <2>2. process[i] = Item(seniority, a)
      BY ZenonT(60), <1>8, <1>12, <1>13, <2>1
    <2>3. Item(seniority, a).addr = a \/ Item(seniority, a).addr = NoAddress
      BY SMTT(30) DEF Item
    <2> QED
      BY ZenonT(60), <2>1, <2>2, <2>3
  <1>15. PICK moved : moved = Moved(rs, u)
    BY Zenon
  <1>16. moved = {process[i].addr : i \in {j \in DOMAIN process : j <= room}}
    BY ZenonT(60), <1>1, <1>3, <1>4, <1>7, <1>11, <1>15 DEF Moved
  <1>17. PICK k \in Nat : k <= room /\ k <= n /\ {j \in 1 .. n : j <= room} = 1 .. k
    <2>1. CASE n <= room
      <3>1. {j \in 1 .. n : j <= room} = 1 .. n
        BY SMTT(30), <2>1
      <3> QED
        BY SMTT(30), <2>1, <3>1
    <2>2. CASE ~(n <= room)
      <3>1. {j \in 1 .. n : j <= room} = 1 .. room
        BY SMTT(30), <2>2
      <3> QED
        BY SMTT(30), <2>2, <3>1
    <2> QED
      BY Zenon, <2>1, <2>2
  <1>18. moved = {process[i].addr : i \in 1 .. k}
    BY ZenonT(60), <1>12, <1>16, <1>17
  <1>19. PICK f : f = [i \in 1 .. k |-> process[i].addr]
    BY Zenon
  <1>20. moved = {f[i] : i \in 1 .. k}
    BY Zenon, <1>18, <1>19
  <1>21. IsFiniteSet(moved) /\ Cardinality(moved) <= k
    BY Zenon, <1>20, FewElements
  <1>22. Cardinality(moved) \in Nat
    BY Zenon, <1>21, FS_CardinalityType
  <1>23. Cardinality(moved) + size <= RingSize
    BY SMTT(30), <1>2, <1>3, <1>17, <1>21, <1>22, WindowAssumption
  <1>24. \A a \in moved : a \in DOMAIN rs[u + 1] \/ a = NoAddress
    <2>1. \A i \in 1 .. k : i \in 1 .. n
      BY SMTT(30), <1>17
    <2> QED
      BY Zenon, <1>14, <1>18, <2>1
  <1> QED
    BY ZenonT(60), <1>1, <1>15, <1>21, <1>23, <1>24

\* Provers move between rings, and none leaves them all.
Promoted(rs, q) ==
    Fits(q) /\ Apart(q) /\ Len(q) = Len(rs) /\ \A b : In(rs, b) => In(q, b)

\* A promotion overfills no ring and leaves no prover in two, or in none.
LEMMA PromotePromotes ==
    ASSUME NEW rs, Fits(rs), Apart(rs), NEW number \in Nat,
           NEW u \in 1 .. Len(rs), u + 1 \in 1 .. Len(rs)
    PROVE  Promoted(rs, Promote(rs, u, number))
  <1>1. PICK q : q = Promote(rs, u, number)
    BY Zenon
  <1>2. PICK moved : moved = Moved(rs, u)
    BY Zenon
  <1>3. q = [rs EXCEPT ![u] = Add(@, moved, number), ![u + 1] = Without(@, moved)]
    BY Zenon, <1>1, <1>2 DEF Promote, Moved
  <1>4. /\ IsFiniteSet(moved) /\ Cardinality(moved) + Cardinality(DOMAIN rs[u]) <= RingSize
        /\ \A a \in moved : a \in DOMAIN rs[u + 1] \/ a = NoAddress
    BY Zenon, <1>2, MovedFew
  <1>5. PICK v : v = u + 1 /\ v \in 1 .. Len(rs) /\ u # v
    BY SMTT(30)
  <1>6. IsSeq(rs)
    BY Zenon DEF Fits
  <1>7. DOMAIN rs = 1 .. Len(rs) /\ Len(rs) \in Nat
    BY Zenon, <1>6 DEF IsSeq
  <1>8. PICK up, down : up = Add(rs[u], moved, number) /\ down = Without(rs[v], moved)
    BY Zenon
  <1>9. q = [rs EXCEPT ![u] = up, ![v] = down]
    BY Zenon, <1>3, <1>5, <1>7, <1>8
  <1>10. /\ q[u] = up /\ q[v] = down /\ \A x \in 1 .. Len(rs) : x # u /\ x # v => q[x] = rs[x]
         /\ q = [x \in 1 .. Len(rs) |-> q[x]]
    BY Zenon, <1>5, <1>7, <1>9
  <1>11. Len(q) = Len(rs)
    BY SMTT(30), <1>7, <1>10
  <1>12. IsSeq(q)
    BY Zenon, <1>7, <1>10, <1>11 DEF IsSeq
  <1>13. /\ DOMAIN up = DOMAIN rs[u] \cup moved
         /\ \A b \in DOMAIN up : up[b] = number \/ (b \in DOMAIN rs[u] /\ up[b] = rs[u][b])
    BY Zenon, <1>8 DEF Add
  <1>14. DOMAIN down = DOMAIN rs[v] \ moved /\ \A b \in DOMAIN down : down[b] = rs[v][b]
    BY Zenon, <1>8 DEF Without, Restrict
  <1>15. /\ IsFiniteSet(DOMAIN rs[u]) /\ Cardinality(DOMAIN rs[u]) <= RingSize
         /\ \A b \in DOMAIN rs[u] : rs[u][b] \in Nat
    BY Zenon DEF Fits
  <1>16. /\ IsFiniteSet(DOMAIN rs[v]) /\ Cardinality(DOMAIN rs[v]) <= RingSize
         /\ \A b \in DOMAIN rs[v] : rs[v][b] \in Nat
    BY Zenon, <1>5 DEF Fits
  <1>17. /\ IsFiniteSet(DOMAIN up) /\ Cardinality(DOMAIN up) <= RingSize
         /\ \A b \in DOMAIN up : up[b] \in Nat
    <2>1. /\ IsFiniteSet(DOMAIN up)
          /\ Cardinality(DOMAIN up) = Cardinality(DOMAIN rs[u]) + Cardinality(moved) - Cardinality(DOMAIN rs[u] \cap moved)
      <3>1. PICK d : d = DOMAIN rs[u] /\ IsFiniteSet(d)
        BY Zenon, <1>15
      <3>2. /\ IsFiniteSet(d \cup moved)
            /\ Cardinality(d \cup moved) = Cardinality(d) + Cardinality(moved) - Cardinality(d \cap moved)
        BY Zenon, <1>4, <3>1, FS_Union
      <3> QED
        BY Zenon, <1>13, <3>1, <3>2
    <2>2. DOMAIN rs[u] \cap moved \in SUBSET moved
      BY Zenon
    <2>3. IsFiniteSet(DOMAIN rs[u] \cap moved)
      BY ZenonT(60), <1>4, <2>2, FS_Subset
    <2>4. /\ Cardinality(DOMAIN rs[u]) \in Nat /\ Cardinality(moved) \in Nat
          /\ Cardinality(DOMAIN rs[u] \cap moved) \in Nat
      BY ZenonT(60), <1>4, <1>15, <2>3, FS_CardinalityType
    <2>5. PICK n1 \in Nat, n2 \in Nat, n3 \in Nat :
              /\ n1 = Cardinality(DOMAIN rs[u]) /\ n2 = Cardinality(moved)
              /\ n3 = Cardinality(DOMAIN rs[u] \cap moved)
      BY Zenon, <2>4
    <2>6. Cardinality(DOMAIN up) = n1 + n2 - n3 /\ n2 + n1 <= RingSize
      BY ZenonT(60), <1>4, <2>1, <2>5
    <2>7. Cardinality(DOMAIN up) <= RingSize
      BY SMTT(30), <2>6, WindowAssumption
    <2>8. \A b \in DOMAIN up : up[b] \in Nat
      BY Zenon, <1>13, <1>15
    <2> QED
      BY Zenon, <2>1, <2>7, <2>8
  <1>18. /\ IsFiniteSet(DOMAIN down) /\ Cardinality(DOMAIN down) <= RingSize
         /\ \A b \in DOMAIN down : down[b] \in Nat
    <2>1. DOMAIN down \in SUBSET DOMAIN rs[v]
      BY Zenon, <1>14
    <2>2. IsFiniteSet(DOMAIN down) /\ Cardinality(DOMAIN down) <= Cardinality(DOMAIN rs[v])
      BY ZenonT(60), <1>16, <2>1, FS_Subset
    <2>3. Cardinality(DOMAIN down) \in Nat /\ Cardinality(DOMAIN rs[v]) \in Nat
      BY ZenonT(60), <1>16, <2>2, FS_CardinalityType
    <2>4. Cardinality(DOMAIN down) <= RingSize
      BY SMTT(30), <1>16, <2>2, <2>3, WindowAssumption
    <2>5. \A b \in DOMAIN down : down[b] \in Nat
      BY Zenon, <1>14, <1>16
    <2> QED
      BY Zenon, <2>2, <2>4, <2>5
  <1>19. Fits(q)
    <2>1. ASSUME NEW r \in 1 .. Len(q)
          PROVE  /\ IsFiniteSet(DOMAIN q[r]) /\ Cardinality(DOMAIN q[r]) <= RingSize
                 /\ \A b \in DOMAIN q[r] : q[r][b] \in Nat
      <3>1. CASE r = u
        BY Zenon, <1>10, <1>17, <3>1
      <3>2. CASE r = v
        BY ZenonT(60), <1>10, <1>18, <3>2
      <3>3. CASE r # u /\ r # v
        <4>1. q[r] = rs[r] /\ r \in 1 .. Len(rs)
          BY ZenonT(60), <1>10, <1>11, <3>3
        <4>2. /\ IsFiniteSet(DOMAIN rs[r]) /\ Cardinality(DOMAIN rs[r]) <= RingSize
              /\ \A b \in DOMAIN rs[r] : rs[r][b] \in Nat
          BY Zenon, <4>1 DEF Fits
        <4> QED
          BY Zenon, <4>1, <4>2
      <3> QED
        BY ZenonT(60), <3>1, <3>2, <3>3
    <2> QED
      BY Zenon, <1>12, <2>1 DEF Fits
  <1>20. Apart(q)
    <2> SUFFICES ASSUME NEW r \in 1 .. Len(rs), NEW x \in 1 .. Len(rs), r # x,
                        NEW b \in Account, b \in DOMAIN q[r], b \in DOMAIN q[x]
                 PROVE  FALSE
      BY Zenon, <1>11 DEF Apart
    <2>1. b # NoAddress
      BY Zenon, AddressAssumption
    <2>2. \A y, z \in 1 .. Len(rs) : b \in DOMAIN rs[y] /\ b \in DOMAIN rs[z] => y = z
      BY Zenon DEF Apart
    <2>3. CASE b \in moved
      <3>1. b \in DOMAIN rs[v]
        BY ZenonT(60), <1>4, <1>5, <2>1, <2>3
      <3>2. ASSUME NEW y \in 1 .. Len(rs), b \in DOMAIN q[y] PROVE y = u
        <4>1. CASE y = v
          BY ZenonT(60), <1>10, <1>14, <2>3, <3>2, <4>1
        <4>2. CASE y # v /\ y # u
          BY ZenonT(60), <1>5, <1>10, <2>2, <3>1, <3>2, <4>2
        <4> QED
          BY Zenon, <4>1, <4>2
      <3> QED
        BY Zenon, <3>2
    <2>4. CASE b \notin moved
      <3>1. ASSUME NEW y \in 1 .. Len(rs), b \in DOMAIN q[y] PROVE b \in DOMAIN rs[y]
        <4>1. CASE y = u
          BY ZenonT(60), <1>10, <1>13, <2>4, <3>1, <4>1
        <4>2. CASE y = v
          BY Zenon, <1>10, <1>14, <3>1, <4>2
        <4>3. CASE y # v /\ y # u
          BY Zenon, <1>10, <3>1, <4>3
        <4> QED
          BY Zenon, <4>1, <4>2, <4>3
      <3> QED
        BY Zenon, <2>2, <3>1
    <2> QED
      BY Zenon, <2>3, <2>4
  <1>21. ASSUME NEW b, In(rs, b) PROVE In(q, b)
    <2>1. PICK r \in 1 .. Len(rs) : b \in DOMAIN rs[r]
      BY Zenon, <1>21 DEF In
    <2>2. b \in DOMAIN q[r] \/ b \in DOMAIN q[u]
      <3>1. CASE r = u
        BY Zenon, <1>10, <1>13, <2>1, <3>1
      <3>2. CASE r = v
        BY ZenonT(60), <1>10, <1>13, <1>14, <2>1, <3>2
      <3>3. CASE r # u /\ r # v
        BY Zenon, <1>10, <2>1, <3>3
      <3> QED
        BY Zenon, <3>1, <3>2, <3>3
    <2> QED
      BY Zenon, <1>11, <2>2 DEF In
  <1> QED
    BY ZenonT(60), <1>1, <1>11, <1>19, <1>20, <1>21 DEF Promoted

\* f is the recursive function of PromoteAll, cut off at m.
PromotingAll(rs, number, n, m, f) ==
    f = [u \in 0 .. m |-> IF u = 0 THEN rs ELSE IF u = n THEN f[u - 1]
                          ELSE Promote(f[u - 1], u, number)]

\* PromoteAll is its last value.
LEMMA PromoteAllDef ==
    ASSUME NEW rs, NEW number
    PROVE  PromoteAll(rs, number) = (CHOOSE f : PromotingAll(rs, number, Len(rs), Len(rs), f))[Len(rs)]
  BY DEF PromoteAll, PromotingAll

\* There is such a function.
LEMMA PromotingAllExists ==
    ASSUME NEW rs, NEW number, NEW n \in Nat
    PROVE  \E f : PromotingAll(rs, number, n, n, f)
  <1> DEFINE S == {m \in Nat : \E f : PromotingAll(rs, number, n, m, f)}
  <1>1. 0 \in S
    <2>1. PromotingAll(rs, number, n, 0, [k \in 0 .. 0 |-> rs])
      BY SMT DEF PromotingAll
    <2> QED
      BY <2>1
  <1>2. ASSUME NEW m \in Nat, m \in S PROVE m + 1 \in S
    <2>1. PICK f : PromotingAll(rs, number, n, m, f)
      BY SMTT(30), <1>2
    <2> DEFINE g == [k \in 0 .. m + 1 |-> IF k = m + 1
                        THEN IF k = n THEN f[m] ELSE Promote(f[m], k, number) ELSE f[k]]
    <2>2. PromotingAll(rs, number, n, m + 1, g)
      BY SMT, <2>1 DEF PromotingAll
    <2>3. m + 1 \in Nat
      OBVIOUS
    <2> HIDE DEF g
    <2> QED
      BY Zenon, <2>2, <2>3
  <1>3. \A k \in Nat : k \in S
    <2> HIDE DEF S
    <2> QED
      BY Zenon, <1>1, <1>2, Induction
  <1> QED
    BY Zenon, <1>3

\* Nor do the promotions one after the other.
LEMMA PromoteAllPromotes ==
    ASSUME NEW rs, Fits(rs), Apart(rs), NEW number \in Nat
    PROVE  Promoted(rs, PromoteAll(rs, number))
  <1>1. PICK n \in Nat : n = Len(rs)
    BY Zenon DEF IsSeq, Fits
  <1>2. PICK f : PromotingAll(rs, number, n, n, f) /\ PromoteAll(rs, number) = f[n]
    BY Zenon, <1>1, PromoteAllDef, PromotingAllExists
  <1>3. f[0] = rs /\ \A u \in 1 .. n : f[u] = IF u = n THEN f[u - 1] ELSE Promote(f[u - 1], u, number)
    BY SMTT(30), <1>2 DEF PromotingAll
  <1> DEFINE S == {u \in 0 .. n : Promoted(rs, f[u])}
  <1>4. 0 \in S
    <2>1. 0 \in 0 .. n
      BY SMT
    <2> QED
      BY Zenon, <1>3, <2>1 DEF Promoted
  <1>5. ASSUME NEW i \in 0 .. n - 1, i \in S PROVE i + 1 \in S
    <2>1. i + 1 \in 1 .. n /\ (i + 1) - 1 = i /\ i + 1 \in 0 .. n
      BY SMT
    <2>2. PICK g, q, u : g = f[i] /\ q = f[i + 1] /\ u = i + 1 /\ u \in 1 .. n
      BY Zenon, <2>1
    <2>3. q = IF u = n THEN g ELSE Promote(g, u, number)
      BY Zenon, <1>3, <2>1, <2>2
    <2>4. Promoted(rs, g)
      BY Zenon, <1>5, <2>2
    <2>5. Promoted(rs, q)
      <3>1. CASE u = n
        BY Zenon, <2>3, <2>4, <3>1
      <3>2. CASE u # n
        <4>1. u + 1 \in 1 .. n
          BY SMTT(30), <2>2, <3>2
        <4>2. Fits(g) /\ Apart(g) /\ Len(g) = n
          BY Zenon, <1>1, <2>4 DEF Promoted
        <4>3. Promoted(g, q)
          BY ZenonT(60), <2>2, <2>3, <3>2, <4>1, <4>2, PromotePromotes
        <4> QED
          BY Zenon, <2>4, <4>3 DEF Promoted
      <3> QED
        BY Zenon, <3>1, <3>2
    <2> QED
      BY Zenon, <2>1, <2>2, <2>5
  <1>6. \A i \in 0 .. n : i \in S
    <2> HIDE DEF S
    <2> QED
      BY ZenonT(60), <1>4, <1>5, InductionTo
  <1>7. n \in 0 .. n
    BY SMT
  <1> QED
    BY Zenon, <1>2, <1>6, <1>7

\* Provers other than those of S and those without a reward for long stay in the rings.
Processed(rs, q, S, number) ==
    /\ Fits(q) /\ Apart(q)
    /\ \A r \in 1 .. Len(rs) : \A b \in DOMAIN rs[r] :
          In(q, b) \/ b \in S \/ rs[r][b] < (number - Expire) % WordSize

\* Joins, leaves, evictions and promotions in one frame.
LEMMA JoinsAndLeavesProcessed ==
    ASSUME NEW rs, Fits(rs), Apart(rs), NEW number \in Nat, NEW joins, IsSeq(joins),
           \A k \in 1 .. Len(joins) : joins[k] \in Account /\ ~In(rs, joins[k]),
           \A k, l \in 1 .. Len(joins) : joins[k] = joins[l] => k = l,
           NEW leaves, IsSeq(leaves), NEW S, \A k \in 1 .. Len(leaves) : leaves[k] \in S
    PROVE  Processed(rs, ProcessJoinsAndLeaves(rs, joins, leaves, number), S, number)
  <1>1. PICK joined : joined = JoinAll(rs, joins, number) /\ Grown(rs, joined)
    BY Zenon, JoinAllGrows
  <1>2. Fits(joined) /\ Apart(joined) /\ IsSeq(joined)
    BY Zenon, <1>1 DEF Grown, Fits
  <1>3. PICK left : left = LeaveAll(joined, leaves) /\ Left(joined, left, S)
    BY Zenon, <1>2, LeaveAllLeft
  <1>4. Fits(left) /\ Apart(left) /\ IsSeq(left)
    <2>1. Shrunk(joined, left)
      BY Zenon, <1>3 DEF Left
    <2>2. Fits(left) /\ Apart(left)
      BY Zenon, <1>2, <2>1, ShrunkRings
    <2> QED
      BY Zenon, <2>2 DEF Fits
  <1>5. PICK rest : rest = Evict(left, number) /\ Evicted(left, rest, number)
    BY ZenonT(60), <1>4, EvictEvicts
  <1>6. Fits(rest) /\ Apart(rest)
    <2>1. Shrunk(left, rest)
      BY Zenon, <1>5 DEF Evicted
    <2> QED
      BY Zenon, <1>4, <2>1, ShrunkRings
  <1>7. PICK q : q = PromoteAll(rest, number) /\ Promoted(rest, q)
    BY Zenon, <1>6, PromoteAllPromotes
  <1>8. q = ProcessJoinsAndLeaves(rs, joins, leaves, number)
    BY ZenonT(60), <1>1, <1>3, <1>5, <1>7 DEF ProcessJoinsAndLeaves
  <1>9. ASSUME NEW r \in 1 .. Len(rs), NEW b \in DOMAIN rs[r], ~In(q, b), b \notin S
        PROVE  rs[r][b] < (number - Expire) % WordSize
    <2>1. r \in 1 .. Len(joined) /\ b \in DOMAIN joined[r] /\ joined[r][b] = rs[r][b]
      BY Zenon, <1>1 DEF Grown
    <2>2. Len(left) = Len(joined) /\ b \in DOMAIN left[r]
      BY ZenonT(60), <1>3, <1>9, <2>1 DEF Left, Shrunk
    <2>3. left[r][b] = joined[r][b]
      BY ZenonT(60), <1>3, <2>1, <2>2 DEF Left, Shrunk
    <2>4. ~In(rest, b)
      BY Zenon, <1>7, <1>9 DEF Promoted
    <2>5. Len(rest) = Len(left)
      BY Zenon, <1>5 DEF Evicted, Shrunk
    <2>6. r \in 1 .. Len(left) /\ b \notin DOMAIN rest[r]
      BY ZenonT(60), <2>1, <2>2, <2>4, <2>5 DEF In
    <2>7. left[r][b] < (number - Expire) % WordSize
      BY Zenon, <1>5, <2>2, <2>6 DEF Evicted
    <2> QED
      BY ZenonT(60), <2>1, <2>3, <2>7
  <1>10. Fits(q) /\ Apart(q)
    BY Zenon, <1>7 DEF Promoted
  <1> QED
    BY ZenonT(60), <1>8, <1>9, <1>10 DEF Processed

\* The rings as the outputs leave them.
LEMMA RingsKeptFit ==
    ASSUME NEW rs, NEW number \in Nat, RingsKept(rs, number), Fits(rings), Apart(rings)
    PROVE  Fits(rs) /\ Apart(rs) /\ \A b : In(rs, b) <=> In(rings, b)
  <1>1. IsSeq(rs) /\ Len(rs) = Len(rings)
    BY Zenon DEF RingsKept
  <1>2. \A r \in 1 .. Len(rings) : DOMAIN rs[r] = DOMAIN rings[r]
    BY Zenon DEF RingsKept
  <1>3. ASSUME NEW r \in 1 .. Len(rings)
        PROVE  /\ IsFiniteSet(DOMAIN rs[r]) /\ Cardinality(DOMAIN rs[r]) <= RingSize
               /\ \A a \in DOMAIN rs[r] : rs[r][a] \in Nat
    <2>1. /\ IsFiniteSet(DOMAIN rings[r]) /\ Cardinality(DOMAIN rings[r]) <= RingSize
          /\ \A a \in DOMAIN rings[r] : rings[r][a] \in Nat
      BY Zenon DEF Fits
    <2>2. \A a \in DOMAIN rings[r] : rs[r][a] = rings[r][a] \/ rs[r][a] = number
      BY Zenon DEF RingsKept
    <2> QED
      BY ZenonT(60), <1>2, <2>1, <2>2
  <1>4. Fits(rs)
    BY ZenonT(60), <1>1, <1>3 DEF Fits
  <1>5. Apart(rs)
    BY Zenon, <1>1, <1>2 DEF Apart
  <1>6. \A b : In(rs, b) <=> In(rings, b)
    BY Zenon, <1>1, <1>2 DEF In
  <1> QED
    BY ZenonT(60), <1>4, <1>5, <1>6

\* The rings after the frame.
RingsAfter(s, number) ==
    ProcessJoinsAndLeaves(s.rings, Sorted(s.active, s.joins), Sorted(s.active, s.leaves), number)

\* They are sound again, and whoever is gone had a reason.
LEMMA RingsProcessed ==
    ASSUME Fits(rings), Apart(rings), NEW outs, WellMade(outs), NEW number \in Nat,
           NEW s, NEW n \in Nat, n = Len(outs), Applied(s, n, outs, number)
    PROVE  Processed(s.rings, RingsAfter(s, number), Gone(outs, n), number)
  <1>1. PICK rs, joins, leaves, joining, leaving :
            /\ rs = s.rings /\ joins = s.joins /\ leaves = s.leaves
            /\ joining = Sorted(s.active, joins) /\ leaving = Sorted(s.active, leaves)
    BY Zenon
  <1>2. RingsKept(rs, number) /\ Joining(joins, n, outs) /\ Leaving(leaves, n, outs)
    BY Zenon, <1>1 DEF Applied
  <1>3. Fits(rs) /\ Apart(rs) /\ \A b : In(rs, b) <=> In(rings, b)
    BY Zenon, <1>2, RingsKeptFit
  <1>4. IsSeq(joins) /\ IsSeq(leaves)
    BY Zenon, <1>2 DEF Joining, Leaving
  <1>5. \A j, l \in 1 .. Len(joins) : joins[j] = joins[l] => j = l
    BY Zenon, <1>2 DEF Joining
  <1>6. /\ IsSeq(joining) /\ \A k \in 1 .. Len(joining) : \E j \in 1 .. Len(joins) : joining[k] = joins[j]
        /\ \A k, l \in 1 .. Len(joining) : joining[k] = joining[l] => k = l
    <2>1. Rearranged(joins, joining)
      BY ZenonT(60), <1>1, <1>4, SortedRearranges
    <2> QED
      BY Zenon, <1>5, <2>1 DEF Rearranged
  <1>7. IsSeq(leaving) /\ \A k \in 1 .. Len(leaving) : \E j \in 1 .. Len(leaves) : leaving[k] = leaves[j]
    <2>1. Rearranged(leaves, leaving)
      BY ZenonT(60), <1>1, <1>4, SortedRearranges
    <2> QED
      BY Zenon, <2>1 DEF Rearranged
  <1>8. ASSUME NEW j \in 1 .. Len(joins) PROVE joins[j] \in Account /\ ~In(rs, joins[j])
    <2>1. PICK p \in 1 .. n : outs[p].out = "join" /\ joins[j] = outs[p].prover
      BY Zenon, <1>2 DEF Joining
    <2>2. IsOutput(outs[p])
      BY Zenon DEF WellMade, Made
    <2>3. joins[j] \in Account /\ RingsOf(joins[j]) = {}
      BY Zenon, <2>1, <2>2 DEF IsOutput
    <2>4. DOMAIN rings = 1 .. Len(rings)
      BY Zenon DEF Fits, IsSeq
    <2>5. ~In(rings, joins[j])
      BY Zenon, <2>3, <2>4 DEF In, RingsOf
    <2> QED
      BY ZenonT(60), <1>3, <2>3, <2>5
  <1>9. \A k \in 1 .. Len(joining) : joining[k] \in Account /\ ~In(rs, joining[k])
    BY Zenon, <1>6, <1>8
  <1>10. \A k \in 1 .. Len(leaving) : leaving[k] \in Gone(outs, n)
    BY ZenonT(60), <1>2, <1>7 DEF Leaving
  <1>11. Processed(rs, ProcessJoinsAndLeaves(rs, joining, leaving, number), Gone(outs, n), number)
    BY ZenonT(60), <1>3, <1>6, <1>7, <1>9, <1>10, JoinsAndLeavesProcessed
  <1> QED
    BY Zenon, <1>1, <1>11 DEF RingsAfter

\* Above frame Expire the comparison of Evict does not wrap.
LEMMA SmallRemainder == ASSUME NEW x \in Nat, NEW w \in Nat, x < w PROVE x % w = x
  BY SMTT(30)

-----------------------------------------------------------------------------
(* The invariant and the theorems.                                         *)

\* A frame that waits for its execution has requests that were made, and is the
\* next one.
Waits == /\ frame.requests \in Seq(Asked)
         /\ frame.number = height + 1
         /\ frame.number <= workload.height

\* The inductive invariant.
TokenInv ==
    /\ workload \in Workloads
    /\ height \in Nat
    /\ staged \in Seq(Asked)
    /\ frame = Nothing \/ Waits
    /\ \A c \in DOMAIN coins : c \in Address /\ c[1] <= height
    /\ ProofFrames
    /\ Fits(rings) /\ Apart(rings)

\* What the execution of the frame comes to, s being the state after its outputs.
Outcome(s, n) ==
    /\ n = Len(frame.outputs)
    /\ WellMade(frame.outputs)
    /\ Applied(s, n, frame.outputs, frame.number)
    /\ coins' = s.coins /\ proofs' = s.proofs
    /\ Processed(s.rings, rings', Gone(frame.outputs, n), frame.number)
    /\ height' = frame.number /\ frame.number = height + 1 /\ frame.number \in Nat
    /\ frame.number < WordSize

\* Joins and leaves change the rings only.
LEMMA FinishedFields ==
    ASSUME NEW s, DOMAIN s = Fields, NEW number
    PROVE  /\ Finished(s, number).coins = s.coins
           /\ Finished(s, number).proofs = s.proofs
           /\ Finished(s, number).rings = RingsAfter(s, number)
  <1>1. PICK q : q = RingsAfter(s, number)
    BY Zenon
  <1>2. Finished(s, number) = [s EXCEPT !.rings = q]
    BY Zenon, <1>1 DEF Finished, RingsAfter
  <1>3. "rings" \in DOMAIN s /\ "coins" \in DOMAIN s /\ "proofs" \in DOMAIN s
    BY Zenon DEF Fields
  <1>4. [s EXCEPT !.rings = q].coins = s.coins /\ [s EXCEPT !.rings = q].proofs = s.proofs
    BY Zenon, <1>3
  <1>5. [s EXCEPT !.rings = q].rings = q
    BY Zenon, <1>3
  <1> QED
    BY ZenonT(60), <1>1, <1>2, <1>4, <1>5

\* A frame that waits has a number that fits a word.
LEMMA FrameHeight ==
    ASSUME TokenInv, Waits PROVE frame.number \in Nat /\ frame.number < WordSize
  <1>1. workload.height \in Nat /\ WordSize > workload.height
    BY Zenon, WindowAssumption DEF TokenInv, IsWorkload
  <1>2. height \in Nat /\ WordSize \in Nat
    BY Zenon, WindowAssumption DEF TokenInv
  <1>3. frame.number = height + 1 /\ frame.number <= workload.height
    BY Zenon DEF Waits
  <1> QED
    BY SMTT(30), <1>1, <1>2, <1>3

\* The execution of a frame comes to this.
LEMMA ExecuteOutcome ==
    ASSUME TokenInv, Execute PROVE \E s : \E n \in Nat : Outcome(s, n)
  <1>1. Waits
    BY Zenon DEF TokenInv, Execute
  <1>2. PICK outs, number : outs = frame.outputs /\ number = frame.number
    BY Zenon
  <1>3. WellMade(outs)
    <2>1. ApplyTransitions(frame.requests, FALSE).outputs = outs
      BY Zenon, <1>2 DEF Execute, VerifyExecution
    <2>2. frame.requests \in Seq(Asked) /\ ProofFrames
      BY Zenon, <1>1 DEF TokenInv, Waits
    <2>3. WellMade(ApplyTransitions(frame.requests, FALSE).outputs)
      BY Zenon, <2>2, AppliedWellMade
    <2> QED
      BY Zenon, <2>1, <2>3
  <1>4. PICK n \in Nat : n = Len(outs)
    BY Zenon, <1>3 DEF WellMade, Made, IsSeq
  <1>5. number \in Nat /\ number < WordSize
    BY ZenonT(60), <1>1, <1>2, FrameHeight
  <1>6. Fits(rings) /\ Apart(rings) /\ IsSeq(rings)
    BY Zenon DEF TokenInv, Fits
  <1>7. PICK s : Applied(s, n, outs, number) /\ ProcessFrame(frame) = Finished(s, number)
    BY ZenonT(60), <1>2, <1>3, <1>4, <1>6, OutputsApplied
  <1>8. DOMAIN s = Fields
    BY Zenon, <1>7 DEF Applied
  <1>9. /\ Finished(s, number).coins = s.coins
        /\ Finished(s, number).proofs = s.proofs
        /\ Finished(s, number).rings = RingsAfter(s, number)
    BY Zenon, <1>8, FinishedFields
  <1>10. /\ coins' = ProcessFrame(frame).coins /\ proofs' = ProcessFrame(frame).proofs
         /\ rings' = ProcessFrame(frame).rings /\ height' = frame.number
    BY Zenon DEF Execute
  <1>11. coins' = s.coins /\ proofs' = s.proofs /\ rings' = RingsAfter(s, number)
    BY ZenonT(60), <1>7, <1>9, <1>10
  <1>12. Processed(s.rings, RingsAfter(s, number), Gone(outs, n), number)
    BY ZenonT(60), <1>3, <1>4, <1>5, <1>6, <1>7, RingsProcessed
  <1>13. frame.number = height + 1
    BY Zenon, <1>1 DEF Waits
  <1> QED
    BY ZenonT(60), <1>2, <1>3, <1>4, <1>5, <1>7, <1>10, <1>11, <1>12, <1>13 DEF Outcome

\* A frame's execution is the only step that changes the state of the head.
LEMMA OnlyExecute ==
    ASSUME [Next]_vars, ~Execute PROVE UNCHANGED <<workload, ledger>>
  BY Zenon DEF Next, vars, handleTokenRequest, prove, Restart

\* The invariant holds initially.
LEMMA InitInv == ASSUME Init PROVE TokenInv
  <1>1. workload \in Workloads /\ height \in Nat /\ frame = Nothing
    BY SMTT(30) DEF Init
  <1>2. staged \in Seq(Asked)
    BY SMTT(30) DEF Init
  <1>3. ASSUME NEW c \in DOMAIN coins PROVE c \in Address /\ c[1] <= height
    <2>1. c \in {0} \X Nat
      BY Zenon, GenesisAssumption DEF Init
    <2>2. height = 0
      BY Zenon DEF Init
    <2> QED
      BY SMTT(30), <2>1, <2>2 DEF Address
  <1>4. ProofFrames
    BY Zenon DEF Init, ProofFrames
  <1>5. Len(rings) = 0 /\ rings = [i \in 1 .. 0 |-> rings[i]] /\ \A r : r \notin 1 .. 0
    BY SMTT(30) DEF Init
  <1>6. 0 \in Nat
    OBVIOUS
  <1>7. Fits(rings) /\ Apart(rings)
    BY Zenon, <1>5, <1>6 DEF Fits, Apart, IsSeq
  <1> QED
    BY ZenonT(60), <1>1, <1>2, <1>3, <1>4, <1>7 DEF TokenInv

\* The execution of a frame keeps it.
LEMMA ExecuteInv == ASSUME TokenInv, Execute PROVE TokenInv'
  <1>0. PICK s : \E n \in Nat : Outcome(s, n)
    BY Zenon, ExecuteOutcome
  <1>1. PICK n \in Nat : Outcome(s, n)
    BY Zenon, <1>0
  <1>2. PICK outs, number : outs = frame.outputs /\ number = frame.number /\ number \in Nat
    BY Zenon, <1>1 DEF Outcome
  <1>3. workload' \in Workloads /\ staged' \in Seq(Asked) /\ frame' = Nothing'
    <2>1. workload' = workload /\ staged' = staged /\ frame' = Nothing
      BY Zenon DEF Execute
    <2>2. Nothing' = Nothing
      BY Zenon DEF Nothing
    <2> QED
      BY ZenonT(60), <2>1, <2>2 DEF TokenInv
  <1>4. height' = number /\ number = height + 1 /\ height \in Nat
    BY Zenon, <1>1, <1>2 DEF Outcome, TokenInv
  <1>5. ASSUME NEW c \in DOMAIN coins' PROVE c \in Address /\ c[1] <= height'
    <2>1. CoinsKept(coins', n, number)
      BY Zenon, <1>1, <1>2 DEF Outcome, Applied
    <2>2. CASE c \in DOMAIN coins
      <3>1. c \in Address /\ c[1] <= height
        BY Zenon, <2>2 DEF TokenInv
      <3> QED
        BY SMTT(30), <1>4, <3>1 DEF Address
    <2>3. CASE c \notin DOMAIN coins
      <3>1. PICK j \in 1 .. n : c = <<number, j>>
        BY Zenon, <2>1, <2>3 DEF CoinsKept
      <3> QED
        BY SMTT(30), <1>4, <3>1 DEF Address
    <2> QED
      BY Zenon, <2>2, <2>3
  <1>6. ProofFrames'
    <2>1. ProofsKept(proofs', n, outs)
      BY Zenon, <1>1, <1>2 DEF Outcome, Applied
    <2>2. ProofFrames
      BY Zenon DEF TokenInv
    <2>3. ASSUME NEW a \in DOMAIN proofs' PROVE proofs'[a].frame \in Nat
      BY Zenon, <2>1, <2>2 DEF ProofsKept, ProofFrames
    <2> QED
      BY Zenon, <2>3 DEF ProofFrames
  <1>7. Fits(rings') /\ Apart(rings')
    BY Zenon, <1>1 DEF Outcome, Processed
  <1>8. Fits(rings)' /\ Apart(rings)'
    BY Zenon, <1>7 DEF Fits, Apart, IsSeq
  <1>9. height' \in Nat
    BY Zenon, <1>2, <1>4
  <1>10. Seq(Asked)' = Seq(Asked) /\ Address' = Address
    BY Zenon DEF Asked, Address, Quality
  <1> QED
    BY ZenonT(60), <1>3, <1>5, <1>6, <1>8, <1>9, <1>10 DEF TokenInv

\* So does every step that leaves the state of the head alone.
LEMMA StutterInv == ASSUME TokenInv, UNCHANGED <<workload, ledger>>, staged' \in Seq(Asked),
                           frame' = Nothing \/ (frame' = frame /\ Waits) \/ Waits'
                    PROVE  TokenInv'
  <1>1. /\ workload' = workload /\ height' = height /\ coins' = coins /\ proofs' = proofs
        /\ rings' = rings
    BY Zenon DEF ledger
  <1>2. workload' \in Workloads /\ height' \in Nat
    BY Zenon, <1>1 DEF TokenInv
  <1>3. frame' = Nothing' \/ Waits'
    <2>1. CASE frame' = Nothing
      BY Zenon, <2>1 DEF Nothing
    <2>2. CASE frame' = frame /\ Waits
      BY Zenon, <1>1, <2>2 DEF Waits, Asked, Address, Quality
    <2> QED
      BY Zenon, <2>1, <2>2
  <1>4. \A c \in DOMAIN coins' : c \in Address' /\ c[1] <= height'
    BY Zenon, <1>1 DEF TokenInv, Address
  <1>5. ProofFrames'
    BY Zenon, <1>1 DEF TokenInv, ProofFrames
  <1>6. Fits(rings)' /\ Apart(rings)'
    BY Zenon, <1>1 DEF TokenInv, Fits, Apart, IsSeq
  <1>7. staged' \in Seq(Asked)'
    BY Zenon DEF Asked, Address, Quality
  <1> QED
    BY ZenonT(60), <1>2, <1>3, <1>4, <1>5, <1>6, <1>7 DEF TokenInv

\* So does every step.
LEMMA NextInv == ASSUME TokenInv, [Next]_vars PROVE TokenInv'
  <1>1. staged \in Seq(Asked) /\ workload \in Workloads /\ height \in Nat
    BY Zenon DEF TokenInv
  <1>2. <<>> \in Seq(Asked)
    BY SMTT(30)
  <1>3. ASSUME NEW t \in Request, handleTokenRequest(t) PROVE TokenInv'
    <2>1. DOMAIN coins \subseteq Address
      BY Zenon DEF TokenInv
    <2>2. PICK A : A = Asked /\ t \in A
      BY ZenonT(60), <1>1, <2>1, RequestAsked
    <2>3. Append(staged, t) \in Seq(A)
      BY SMTT(30), <1>1, <2>2
    <2>4. UNCHANGED <<workload, ledger>> /\ staged' = Append(staged, t) /\ frame' = Nothing
      BY Zenon, <1>3 DEF handleTokenRequest
    <2> QED
      BY ZenonT(60), <2>2, <2>3, <2>4, StutterInv
  <1>4. ASSUME prove PROVE TokenInv'
    <2>1. PICK requests, outs : frame' = [requests |-> requests, outputs |-> outs, number |-> height + 1]
                                /\ requests = ApplyTransitions(staged, TRUE).requests
      BY Zenon, <1>4 DEF prove, currentFrameNumber
    <2>2. requests \in Seq(Asked)
      BY ZenonT(60), <1>1, <2>1, AppliedAsked
    <2>3. UNCHANGED <<workload, ledger>> /\ height < workload.height /\ staged' = <<>>
      BY Zenon, <1>4 DEF prove
    <2>4. height' = height /\ workload' = workload
      BY Zenon, <2>3 DEF ledger
    <2>5. frame'.requests = requests /\ frame'.number = height + 1
      BY Zenon, <2>1
    <2>6. height + 1 <= workload.height
      <3>1. workload.height \in Nat
        BY Zenon, <1>1, WindowAssumption DEF IsWorkload
      <3> QED
        BY SMTT(30), <1>1, <2>3, <3>1
    <2>7. Waits'
      BY ZenonT(60), <2>2, <2>4, <2>5, <2>6 DEF Waits, Asked, Address, Quality
    <2> QED
      BY ZenonT(60), <1>2, <2>3, <2>7, StutterInv
  <1>5. CASE Execute
    BY Zenon, <1>5, ExecuteInv
  <1>6. CASE Restart
    <2>1. UNCHANGED <<workload, ledger>> /\ staged' = <<>> /\ frame' = Nothing
      BY Zenon, <1>6 DEF Restart
    <2> QED
      BY ZenonT(60), <1>2, <2>1, StutterInv
  <1>7. CASE UNCHANGED vars
    <2>1. UNCHANGED <<workload, ledger>> /\ staged' = staged /\ frame' = frame
      BY Zenon, <1>7 DEF vars
    <2>2. frame = Nothing \/ Waits
      BY Zenon DEF TokenInv
    <2> QED
      BY ZenonT(60), <1>1, <2>1, <2>2, StutterInv
  <1> QED
    BY ZenonT(60), <1>3, <1>4, <1>5, <1>6, <1>7 DEF Next

\* It holds always.
LEMMA AlwaysInv == Spec => []TokenInv
  BY InitInv, NextInv, PTL DEF Spec

\* Every coin of the store stays as it was made, and what is not there before a
\* frame has an address of that frame.
THEOREM CoinsNeverChange == Spec => SpentForever
  <1> DEFINE Kept == \A c \in DOMAIN coins' :
                        IF c \in DOMAIN coins THEN coins'[c] = coins[c] ELSE c[1] = height'
  <1>1. ASSUME TokenInv, [Next]_vars PROVE [Kept]_vars
    <2>1. CASE Execute
      <3>0. PICK s : \E n \in Nat : Outcome(s, n)
        BY ZenonT(60), <1>1, <2>1, ExecuteOutcome
      <3>1. PICK n \in Nat : Outcome(s, n)
        BY Zenon, <3>0
      <3>2. PICK number : number = frame.number
        BY Zenon
      <3>3. /\ CoinsKept(coins', n, number)
            /\ height' = number /\ number = height + 1 /\ height \in Nat
        BY ZenonT(60), <1>1, <3>1, <3>2 DEF Outcome, Applied, TokenInv
      <3>4. ASSUME NEW c \in DOMAIN coins'
            PROVE  IF c \in DOMAIN coins THEN coins'[c] = coins[c] ELSE c[1] = height'
        <4>1. CASE c \in DOMAIN coins /\ coins'[c] = coins[c]
          BY Zenon, <4>1
        <4>2. CASE \E j \in 1 .. n : c = <<number, j>>
          <5>1. c[1] = number
            BY SMTT(30), <4>2
          <5>2. c \notin DOMAIN coins
            <6>1. c \in DOMAIN coins => c[1] <= height
              BY Zenon, <1>1 DEF TokenInv
            <6> QED
              BY SMTT(30), <3>3, <5>1, <6>1
          <5> QED
            BY ZenonT(60), <3>3, <5>1, <5>2
        <4> QED
          BY Zenon, <3>3, <4>1, <4>2 DEF CoinsKept
      <3> QED
        BY Zenon, <3>4
    <2>2. CASE ~Execute
      <3>1. coins' = coins
        BY Zenon, <1>1, <2>2, OnlyExecute DEF ledger
      <3> QED
        BY Zenon, <3>1
    <2> QED
      BY Zenon, <2>1, <2>2
  <1>2. Spec => [][Kept]_vars
    BY <1>1, AlwaysInv, PTL DEF Spec
  <1> QED
    BY SMTT(30), <1>2 DEF SpentForever

\* No ring is overfull and no prover is in two.
THEOREM RingsAlwaysSound == Spec => []RingsSound
  <1>1. ASSUME TokenInv PROVE RingsSound
    <2>1. DOMAIN rings = 1 .. Len(rings)
      BY Zenon, <1>1 DEF TokenInv, Fits, IsSeq
    <2> QED
      BY Zenon, <1>1, <2>1 DEF RingsSound, TokenInv, Fits, Apart
  <1> QED
    BY <1>1, AlwaysInv, PTL

\* The proof that is stored of a prover is replaced only by one about a later frame.
THEOREM WorkAlwaysAdvances == Spec => WorkAdvances
  <1> DEFINE Later == \A a \in DOMAIN proofs :
                         /\ a \in DOMAIN proofs'
                         /\ proofs'[a] = proofs[a] \/ proofs'[a].frame > proofs[a].frame
  <1>1. ASSUME TokenInv, [Next]_vars PROVE [Later]_vars
    <2>1. CASE Execute
      <3>0. PICK s : \E n \in Nat : Outcome(s, n)
        BY Zenon, <1>1, <2>1, ExecuteOutcome
      <3>1. PICK n \in Nat : Outcome(s, n)
        BY Zenon, <3>0
      <3>2. PICK outs : outs = frame.outputs
        BY Zenon
      <3>3. ProofsKept(proofs', n, outs) /\ Made(outs) /\ n = Len(outs)
        BY Zenon, <3>1, <3>2 DEF Outcome, Applied, WellMade
      <3>4. ~(n > 0 /\ outs[n].out = "deletedProof")
        <4>1. n + 1 \notin 1 .. n /\ (n > 0 => n \in 1 .. n)
          BY SMTT(30)
        <4> QED
          BY ZenonT(60), <3>3, <4>1 DEF Made
      <3>5. ASSUME NEW a \in DOMAIN proofs
            PROVE  /\ a \in DOMAIN proofs'
                   /\ proofs'[a] = proofs[a] \/ proofs'[a].frame > proofs[a].frame
        BY ZenonT(60), <3>3, <3>4 DEF ProofsKept
      <3> QED
        BY ZenonT(60), <3>5
    <2>2. CASE ~Execute
      <3>1. proofs' = proofs
        BY ZenonT(60), <1>1, <2>2, OnlyExecute DEF ledger
      <3> QED
        BY Zenon, <3>1
    <2> QED
      BY Zenon, <2>1, <2>2
  <1>2. Spec => [][Later]_vars
    BY <1>1, AlwaysInv, PTL DEF Spec
  <1> QED
    BY <1>2 DEF WorkAdvances

\* The members of rings are the accounts that some ring holds.
LEMMA MembersAreIn ==
    ASSUME NEW rs, NEW a
    PROVE  a \in Members(rs) <=> (a \in Account /\ \E r \in DOMAIN rs : a \in DOMAIN rs[r])
  <1>1. PICK doms : doms = {DOMAIN rs[r] : r \in DOMAIN rs}
    BY Zenon
  <1>2. a \in Members(rs) <=> (a \in Account /\ \E d \in doms : a \in d)
    <2>1. Members(rs) = (UNION doms) \cap Account
      BY Zenon, <1>1 DEF Members
    <2> QED
      BY Zenon, <2>1
  <1> QED
    BY Zenon, <1>1, <1>2

\* From frame Expire on, a prover leaves the rings only by a request of its own,
\* a penalty, or after Expire frames without a reward.
THEOREM MembersAlwaysStay == Spec => MembersStay
  <1> DEFINE Asks(a) == \E i \in DOMAIN frame.outputs :
                            \/ frame.outputs[i].out = "leave" /\ frame.outputs[i].prover = a
                            \/ frame.outputs[i].out = "penalty" /\ frame.outputs[i].owner = a
             Stay == height' >= Expire /\ height' # height =>
                        \A a \in Members(rings) \ Members(rings') :
                            \/ \E i \in DOMAIN frame.outputs :
                                  \/ frame.outputs[i].out = "leave" /\ frame.outputs[i].prover = a
                                  \/ frame.outputs[i].out = "penalty" /\ frame.outputs[i].owner = a
                            \/ rings[Min(RingsOf(a))][a] < height' - Expire
  <1>1. ASSUME TokenInv, [Next]_vars PROVE [Stay]_vars
    <2>1. CASE Execute
      <3> SUFFICES ASSUME height' >= Expire, NEW a \in Members(rings), a \notin Members(rings')
                   PROVE  Asks(a) \/ rings[Min(RingsOf(a))][a] < height' - Expire
        BY Zenon
      <3>0. PICK s : \E n \in Nat : Outcome(s, n)
        BY ZenonT(60), <1>1, <2>1, ExecuteOutcome
      <3>1. PICK n \in Nat : Outcome(s, n)
        BY Zenon, <3>0
      <3>2. PICK outs, number, rs, q :
                outs = frame.outputs /\ number = frame.number /\ rs = s.rings /\ q = rings'
        BY Zenon
      <3>3. /\ RingsKept(rs, number) /\ Processed(rs, q, Gone(outs, n), number)
            /\ n = Len(outs) /\ IsSeq(outs)
            /\ height' = number /\ number \in Nat /\ number < WordSize
        BY ZenonT(60), <3>1, <3>2 DEF Outcome, Applied, WellMade, Made
      <3>4. Fits(rings) /\ IsSeq(rings) /\ DOMAIN rings = 1 .. Len(rings)
        BY Zenon, <1>1 DEF TokenInv, Fits, IsSeq
      <3>5. a \in Account /\ RingsOf(a) # {}
        BY Zenon, MembersAreIn DEF RingsOf
      <3>6. PICK r \in 1 .. Len(rings) : r = Min(RingsOf(a)) /\ a \in DOMAIN rings[r]
        BY ZenonT(60), <3>4, <3>5, FirstRing
      <3>7. r \in 1 .. Len(rs) /\ a \in DOMAIN rs[r] /\ rs[r][a] \in {rings[r][a], number}
        BY ZenonT(60), <3>3, <3>6 DEF RingsKept
      <3>8. ~In(q, a)
        <4>1. DOMAIN q = 1 .. Len(q)
          BY Zenon, <3>3 DEF Processed, Fits, IsSeq
        <4> QED
          BY ZenonT(60), <3>2, <3>5, <4>1, MembersAreIn DEF In
      <3>9. a \in Gone(outs, n) \/ rs[r][a] < (number - Expire) % WordSize
        BY ZenonT(60), <3>3, <3>7, <3>8 DEF Processed
      <3>10. CASE a \in Gone(outs, n)
        <4>1. DOMAIN outs = 1 .. n
          BY Zenon, <3>3 DEF IsSeq
        <4> QED
          BY ZenonT(60), <3>2, <3>10, <4>1 DEF Gone
      <3>11. CASE rs[r][a] < (number - Expire) % WordSize
        <4>1. PICK x \in Nat : x = number - Expire /\ x < WordSize
          BY SMTT(30), <3>3, WindowAssumption
        <4>2. x % WordSize = x
          BY ZenonT(60), <4>1, SmallRemainder, WindowAssumption
        <4>3. rings[r][a] \in Nat
          BY ZenonT(60), <3>4, <3>6 DEF Fits
        <4>4. rings[r][a] < number - Expire
          <5>1. PICK y : y = rs[r][a] /\ y < x
            BY ZenonT(60), <3>11, <4>1, <4>2
          <5>2. y # number
            BY SMTT(30), <3>3, <4>1, <5>1, WindowAssumption
          <5>3. y = rings[r][a]
            BY ZenonT(60), <3>7, <5>1, <5>2
          <5> QED
            BY ZenonT(60), <4>1, <5>1, <5>3
        <4> QED
          BY ZenonT(60), <3>3, <3>6, <4>4
      <3> QED
        BY ZenonT(60), <3>9, <3>10, <3>11
    <2>2. CASE ~Execute
      <3>1. height' = height
        BY ZenonT(60), <1>1, <2>2, OnlyExecute DEF ledger
      <3> QED
        BY Zenon, <3>1
    <2> QED
      BY ZenonT(60), <2>1, <2>2
  <1>2. Spec => [][Stay]_vars
    BY <1>1, AlwaysInv, PTL DEF Spec
  <1> QED
    BY SMTT(30), <1>2 DEF MembersStay
=============================================================================
