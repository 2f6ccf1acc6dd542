----------------------- MODULE TokenApplicationProofs -----------------------
(***************************************************************************)
(* What the requests of a frame come to, for any accounts, requests and    *)
(* rings: lemmas for TokenExecutionProofs.                                 *)
(*                                                                         *)
(* The first part is about the recursive functions of the model: the array *)
(* of a heap holds what was pushed, a flattened sequence holds the         *)
(* elements of its parts.  The second follows ApplyTransitions: the lock   *)
(* map lets a key join once, and a mint replaces a proof only by one about *)
(* a later frame (AppliedWellMade).  The third follows ProcessFrame        *)
(* through the outputs of such a frame (OutputsApplied).                   *)
(*                                                                         *)
(* A recursive function is shown to exist by induction, and only then are  *)
(* its values known; the property that is carried along is a set of        *)
(* positions, so that the provers need no scheme.                          *)
(***************************************************************************)
EXTENDS TokenExecution, WellFoundedInduction, TLAPS

-----------------------------------------------------------------------------
(* Induction, and what the recursive functions of the model satisfy.       *)

\* Induction over the natural numbers, with the property as a set: a counterexample
\* would have a least one.
LEMMA Induction ==
    ASSUME NEW S, 0 \in S, \A k \in Nat : k \in S => k + 1 \in S
    PROVE  \A k \in Nat : k \in S
  <1> SUFFICES ASSUME Nat \ S # {} PROVE FALSE
    BY Zenon
  <1>1. PICK k \in Nat \ S : \A j \in Nat \ S : ~(<<j, k>> \in OpToRel(<, Nat))
    <2>1. Nat \ S \subseteq Nat
      OBVIOUS
    <2> QED
      BY Zenon, <2>1, NatLessThanWellFounded, WFMin
  <1>2. k # 0 /\ k - 1 \in Nat /\ k - 1 < k /\ (k - 1) + 1 = k
    BY SMT
  <1>3. k - 1 \in Nat \ S
    BY SMT, <1>2
  <1>4. <<k - 1, k>> \in OpToRel(<, Nat)
    BY SMT, <1>2 DEF OpToRel
  <1> QED
    BY Zenon, <1>1, <1>3, <1>4

\* The same up to a bound.
LEMMA InductionTo ==
    ASSUME NEW n \in Nat, NEW S, 0 \in S,
           \A k \in 0 .. n - 1 : k \in S => k + 1 \in S
    PROVE  \A k \in 0 .. n : k \in S
  <1> DEFINE T == {k \in Nat : k <= n => k \in S}
  <1>1. 0 \in T
    BY SMT
  <1>2. ASSUME NEW k \in Nat, k \in T PROVE k + 1 \in T
    BY SMT, <1>2
  <1>3. \A k \in Nat : k \in T
    <2> HIDE DEF T
    <2> QED
      BY Zenon, <1>1, <1>2, Induction
  <1> QED
    BY SMT, <1>3

-----------------------------------------------------------------------------
(* The heap array is a permutation of what was pushed.                     *)

\* The arrays that hold the positions 1 .. n, each once.
Permutation(n) ==
    {f \in [1 .. n -> 1 .. n] : \A i, j \in 1 .. n : f[i] = f[j] => i = j}

\* f is the recursive function of Upheap, cut off at n.
Rising(items, i, priority, n, f) ==
    f = [k \in 0 .. n |-> IF k = 0 THEN [items |-> items, i |-> i]
                          ELSE Up(f[k - 1], priority)]

\* Upheap is the last value of that function.
LEMMA UpheapDef ==
    ASSUME NEW items, NEW i, NEW priority
    PROVE  Upheap(items, i, priority)
             = (CHOOSE f : Rising(items, i, priority, Len(items), f))[Len(items)].items
  BY DEF Upheap, Rising

\* There is such a function.
LEMMA RisingExists ==
    ASSUME NEW items, NEW i, NEW priority, NEW n \in Nat
    PROVE  \E f : Rising(items, i, priority, n, f)
  <1> DEFINE S == {m \in Nat : \E f : Rising(items, i, priority, m, f)}
  <1>1. 0 \in S
    <2>1. Rising(items, i, priority, 0, [k \in 0 .. 0 |-> [items |-> items, i |-> i]])
      BY SMT DEF Rising
    <2> QED
      BY <2>1
  <1>2. ASSUME NEW m \in Nat, m \in S PROVE m + 1 \in S
    <2>1. PICK f : Rising(items, i, priority, m, f)
      BY <1>2
    <2> DEFINE g == [k \in 0 .. m + 1 |-> IF k = m + 1 THEN Up(f[m], priority) ELSE f[k]]
    <2>2. Rising(items, i, priority, m + 1, g)
      BY SMT, <2>1 DEF Rising
    <2>3. m + 1 \in Nat
      OBVIOUS
    <2> HIDE DEF g
    <2> QED
      BY Zenon, <2>2, <2>3
  <1>3. \A k \in Nat : k \in S
    <2> HIDE DEF S
    <2> QED
      BY Zenon, <1>1, <1>2, Induction
  <1> QED
    BY Zenon, <1>3

\* Swapping two places of the array keeps it a permutation.
LEMMA SwapPermutes ==
    ASSUME NEW n \in Nat, NEW f \in Permutation(n), NEW i \in 1 .. n, NEW j \in 1 .. n
    PROVE  Swap(f, i, j) \in Permutation(n)
  <1>1. /\ f \in [1 .. n -> 1 .. n]
        /\ \A x, y \in 1 .. n : f[x] = f[y] => x = y
    BY DEF Permutation
  <1>2. PICK g : g = Swap(f, i, j)
    BY Zenon
  <1>3. g \in [1 .. n -> 1 .. n]
    BY Zenon, <1>1, <1>2 DEF Swap
  <1>4. \A x \in 1 .. n : g[x] = IF x = j THEN f[i] ELSE IF x = i THEN f[j] ELSE f[x]
    BY Zenon, <1>1, <1>2 DEF Swap
  <1>5. ASSUME NEW x \in 1 .. n, NEW y \in 1 .. n, g[x] = g[y] PROVE x = y
    BY Zenon, <1>1, <1>4, <1>5
  <1> QED
    BY Zenon, <1>2, <1>3, <1>5 DEF Permutation

\* upheap only swaps.
LEMMA UpheapPermutes ==
    ASSUME NEW n \in Nat, NEW items \in Permutation(n), NEW i \in 1 .. n, NEW priority
    PROVE  Upheap(items, i, priority) \in Permutation(n)
  <1>1. Len(items) = n
    BY SMT DEF Permutation
  <1>2. PICK f : /\ Rising(items, i, priority, n, f)
                 /\ Upheap(items, i, priority) = f[n].items
    BY Zenon, <1>1, UpheapDef, RisingExists
  <1> DEFINE Fine(h) == /\ h = [items |-> h.items, i |-> h.i]
                        /\ h.items \in Permutation(n) /\ h.i \in 1 .. n
             S == {k \in 0 .. n : Fine(f[k])}
  <1>3. 0 \in S
    BY SMT, <1>2 DEF Rising
  <1>4. ASSUME NEW k \in 0 .. n - 1, k \in S PROVE k + 1 \in S
    <2>1. f[k + 1] = Up(f[k], priority) /\ k + 1 \in 0 .. n
      BY SMT, <1>2 DEF Rising
    <2>2. PICK h : h = f[k]
      BY Zenon
    <2>3. h.items \in Permutation(n) /\ h.i \in 1 .. n
      BY <1>4, <2>2
    <2>4. CASE h.i > 1
      <3>1. h.i \div 2 \in 1 .. n
        BY SMT, <2>3, <2>4
      <3>2. Swap(h.items, h.i, h.i \div 2) \in Permutation(n)
        BY ZenonT(60), <2>3, <3>1, SwapPermutes
      <3>3. Fine(Up(h, priority))
        BY SMTT(30), <1>4, <2>2, <2>3, <3>1, <3>2 DEF Up
      <3> QED
        BY <2>1, <2>2, <3>3
    <2>5. CASE ~(h.i > 1)
      BY <1>4, <2>1, <2>2, <2>5 DEF Up
    <2> QED
      BY <2>4, <2>5
  <1>5. \A k \in 0 .. n : k \in S
    <2> HIDE DEF S
    <2> QED
      BY Zenon, <1>3, <1>4, InductionTo
  <1>6. n \in 0 .. n
    BY SMT
  <1> QED
    BY Zenon, <1>2, <1>5, <1>6

\* f is the recursive function of All, cut off at n.
Pushing(priority, n, f) ==
    f = [k \in 0 .. n |-> IF k = 0 THEN <<>> ELSE Push(f[k - 1], k, priority)]

\* All is the last value of that function.
LEMMA AllDef ==
    ASSUME NEW priority
    PROVE  All(priority)
             = (CHOOSE f : Pushing(priority, Len(priority), f))[Len(priority)]
  BY DEF All, Pushing

\* There is such a function.
LEMMA PushingExists ==
    ASSUME NEW priority, NEW n \in Nat
    PROVE  \E f : Pushing(priority, n, f)
  <1> DEFINE S == {m \in Nat : \E f : Pushing(priority, m, f)}
  <1>1. 0 \in S
    <2>1. Pushing(priority, 0, [k \in 0 .. 0 |-> <<>>])
      BY SMT DEF Pushing
    <2> QED
      BY <2>1
  <1>2. ASSUME NEW m \in Nat, m \in S PROVE m + 1 \in S
    <2>1. PICK f : Pushing(priority, m, f)
      BY <1>2
    <2> DEFINE g == [k \in 0 .. m + 1 |-> IF k = m + 1 THEN Push(f[m], k, priority) ELSE f[k]]
    <2>2. Pushing(priority, m + 1, g)
      BY SMT, <2>1 DEF Pushing
    <2>3. m + 1 \in Nat
      OBVIOUS
    <2> HIDE DEF g
    <2> QED
      BY Zenon, <2>2, <2>3
  <1>3. \A k \in Nat : k \in S
    <2> HIDE DEF S
    <2> QED
      BY Zenon, <1>1, <1>2, Induction
  <1> QED
    BY Zenon, <1>3

\* Append keeps the type of a sequence.
LEMMA AppendType == ASSUME NEW S, NEW s \in Seq(S), NEW e \in S PROVE Append(s, e) \in Seq(S)
  BY SMT

\* Pushing the next position keeps the array a permutation.
LEMMA PushPermutes ==
    ASSUME NEW n \in Nat, NEW items \in Permutation(n), NEW priority
    PROVE  Push(items, n + 1, priority) \in Permutation(n + 1)
  <1>1. Len(items) = n
    BY SMT DEF Permutation
  <1>2. Append(items, n + 1) \in Permutation(n + 1)
    <2>1. items \in Seq(Nat) /\ \A i \in 1 .. n : items[i] \in 1 .. n
      BY SMT DEF Permutation
    <2>2. PICK g \in Seq(Nat) : g = Append(items, n + 1)
      <3>1. n + 1 \in Nat
        OBVIOUS
      <3> QED
        BY Zenon, <2>1, <3>1, AppendType
    <2>3. /\ Len(g) = n + 1 /\ g[n + 1] = n + 1
          /\ \A i \in 1 .. n : g[i] = items[i]
      BY SMT, <1>1, <2>1, <2>2
    <2>4. g \in [1 .. n + 1 -> 1 .. n + 1]
      <3>1. \A i \in 1 .. n + 1 : g[i] \in 1 .. n + 1
        BY SMTT(60), <2>1, <2>3
      <3>2. g = [i \in 1 .. n + 1 |-> g[i]]
        BY SMT, <2>2, <2>3
      <3> QED
        BY Zenon, <3>1, <3>2
    <2>5. ASSUME NEW i \in 1 .. n + 1, NEW j \in 1 .. n + 1, g[i] = g[j] PROVE i = j
      BY SMTT(30), <2>1, <2>3, <2>5 DEF Permutation
    <2> QED
      BY Zenon, <2>2, <2>4, <2>5 DEF Permutation
  <1>3. n + 1 \in Nat /\ n + 1 \in 1 .. n + 1
    BY SMT
  <1> QED
    BY Zenon, <1>1, <1>2, <1>3, UpheapPermutes DEF Push

\* The array of the heap has every position that was pushed once, in some order.
LEMMA AllPermutes ==
    ASSUME NEW priority, Len(priority) \in Nat
    PROVE  All(priority) \in Permutation(Len(priority))
  <1>1. PICK n \in Nat : n = Len(priority)
    OBVIOUS
  <1>2. PICK f : Pushing(priority, n, f) /\ All(priority) = f[n]
    BY Zenon, <1>1, AllDef, PushingExists
  <1> DEFINE S == {k \in 0 .. n : f[k] \in Permutation(k)}
  <1>3. 0 \in S
    BY SMT, <1>2 DEF Pushing, Permutation
  <1>4. ASSUME NEW k \in 0 .. n - 1, k \in S PROVE k + 1 \in S
    <2>1. f[k + 1] = Push(f[k], k + 1, priority) /\ k + 1 \in 0 .. n /\ k \in Nat
      BY SMT, <1>2 DEF Pushing
    <2>2. f[k] \in Permutation(k)
      BY <1>4
    <2> QED
      BY Zenon, <2>1, <2>2, PushPermutes
  <1>5. \A k \in 0 .. n : k \in S
    <2> HIDE DEF S
    <2> QED
      BY Zenon, <1>3, <1>4, InductionTo
  <1>6. n \in 0 .. n
    BY SMT
  <1> QED
    BY Zenon, <1>1, <1>2, <1>5, <1>6

-----------------------------------------------------------------------------
(* Flatten puts the sequences one after the other.                         *)

\* One sequence after the other.
Then(s, t) == s \o t

\* What that gives.
LEMMA ThenType ==
    ASSUME NEW T, NEW s \in Seq(T), NEW t \in Seq(T)
    PROVE  Then(s, t) \in Seq(T) /\ Len(Then(s, t)) = Len(s) + Len(t)
  BY SMT DEF Then

\* f is the recursive function of Flatten, cut off at n.
Flattening(seqs, n, f) ==
    f = [k \in 0 .. n |-> IF k = 0 THEN <<>> ELSE Then(f[k - 1], seqs[k])]

\* Flatten is the last value of that function.
LEMMA FlattenDef ==
    ASSUME NEW seqs
    PROVE  Flatten(seqs) = (CHOOSE f : Flattening(seqs, Len(seqs), f))[Len(seqs)]
  BY DEF Flatten, Flattening, Then

\* There is such a function.
LEMMA FlatteningExists ==
    ASSUME NEW seqs, NEW n \in Nat
    PROVE  \E f : Flattening(seqs, n, f)
  <1> DEFINE S == {m \in Nat : \E f : Flattening(seqs, m, f)}
  <1>1. 0 \in S
    <2>1. Flattening(seqs, 0, [k \in 0 .. 0 |-> <<>>])
      BY SMT DEF Flattening
    <2> QED
      BY <2>1
  <1>2. ASSUME NEW m \in Nat, m \in S PROVE m + 1 \in S
    <2>1. PICK f : Flattening(seqs, m, f)
      BY <1>2
    <2> DEFINE g == [k \in 0 .. m + 1 |-> IF k = m + 1 THEN Then(f[m], seqs[k]) ELSE f[k]]
    <2>2. Flattening(seqs, m + 1, g)
      BY SMT, <2>1 DEF Flattening
    <2>3. m + 1 \in Nat
      OBVIOUS
    <2> HIDE DEF g
    <2> QED
      BY Zenon, <2>2, <2>3
  <1>3. \A k \in Nat : k \in S
    <2> HIDE DEF S
    <2> QED
      BY Zenon, <1>1, <1>2, Induction
  <1> QED
    BY Zenon, <1>3

\* s is the first n sequences one after the other, the i-th of which ends at
\* position off[i].
Laid(seqs, n, s, off) ==
    /\ off[0] = 0 /\ off[n] = Len(s)
    /\ \A i \in 1 .. n : off[i] = off[i - 1] + Len(seqs[i])
    /\ \A i, j \in 0 .. n : i <= j => off[i] <= off[j]
    /\ \A i \in 1 .. n : \A k \in 1 .. Len(seqs[i]) : s[off[i - 1] + k] = seqs[i][k]
    /\ \A p \in 1 .. Len(s) : \E i \in 1 .. n : off[i - 1] < p /\ p <= off[i]

\* The flattened sequence is all of them, one after the other.
LEMMA FlattenLays ==
    ASSUME NEW T, NEW seqs, Len(seqs) \in Nat,
           \A i \in 1 .. Len(seqs) : seqs[i] \in Seq(T)
    PROVE  /\ Flatten(seqs) \in Seq(T)
           /\ \E off \in [0 .. Len(seqs) -> Nat] : Laid(seqs, Len(seqs), Flatten(seqs), off)
  <1>1. PICK n \in Nat : n = Len(seqs)
    OBVIOUS
  <1>2. PICK f : Flattening(seqs, n, f) /\ Flatten(seqs) = f[n]
    BY Zenon, <1>1, FlattenDef, FlatteningExists
  <1>3. f[0] = <<>> /\ \A k \in 1 .. n : f[k] = Then(f[k - 1], seqs[k])
    BY SMT, <1>2 DEF Flattening
  <1>4. \A k \in 1 .. n : seqs[k] \in Seq(T) /\ Len(seqs[k]) \in Nat
    BY SMT, <1>1
  <1> DEFINE off == [k \in 0 .. n |-> Len(f[k])]
             S == {k \in 0 .. n : f[k] \in Seq(T) /\ Laid(seqs, k, f[k], off)}
  <1>5. 0 \in S
    <2>1. off[0] = 0 /\ Len(<<>>) = 0 /\ <<>> \in Seq(T)
      BY SMT, <1>3
    <2>2. 0 \in 0 .. n
      BY SMT
    <2> HIDE DEF off
    <2>3. Laid(seqs, 0, <<>>, off)
      BY SMT, <2>1 DEF Laid
    <2> QED
      BY Zenon, <1>3, <2>1, <2>2, <2>3
  <1>6. ASSUME NEW k \in 0 .. n - 1, k \in S PROVE k + 1 \in S
    <2>1. PICK s \in Seq(T) : s = f[k] /\ Laid(seqs, k, s, off)
      BY Zenon, <1>6
    <2>0. k + 1 \in 1 .. n /\ k \in 0 .. n /\ k + 1 \in 0 .. n /\ (k + 1) - 1 = k /\ k \in Nat
      BY SMT
    <2>2. PICK t \in Seq(T) : t = seqs[k + 1]
      BY Zenon, <1>4, <2>0
    <2>3. f[k + 1] = Then(s, t)
      BY Zenon, <1>3, <2>0, <2>1, <2>2
    <2>4. PICK r \in Seq(T) : r = Then(s, t)
      BY Zenon, ThenType
    <2>5. /\ Len(r) = Len(s) + Len(t) /\ Len(s) \in Nat /\ Len(t) \in Nat
          /\ \A i \in 1 .. Len(s) : r[i] = s[i]
          /\ \A i \in 1 .. Len(t) : r[Len(s) + i] = t[i]
      <3> HIDE DEF off, S
      <3>1. Len(s) \in Nat /\ Len(t) \in Nat
        BY SMT
      <3>2. Len(Then(s, t)) = Len(s) + Len(t)
        BY Zenon, ThenType
      <3>3. /\ \A i \in 1 .. Len(s) : Then(s, t)[i] = s[i]
            /\ \A i \in 1 .. Len(t) : Then(s, t)[Len(s) + i] = t[i]
        BY SMT DEF Then
      <3> QED
        BY Zenon, <2>4, <3>1, <3>2, <3>3
    <2>6. off[k] = Len(s) /\ off[k + 1] = Len(r)
      BY Zenon, <2>0, <2>1, <2>3, <2>4
    <2> HIDE DEF off
    <2>7. \A i \in 0 .. k : off[i] \in Nat /\ off[i] <= Len(s)
      <3>1. \A i \in 0 .. k : off[i] <= off[k] /\ off[0] <= off[i] /\ off[0] = 0
        BY SMT, <2>1 DEF Laid
      <3>2. ASSUME NEW i \in 0 .. k PROVE off[i] \in Nat
        <4> DEFINE U == {j \in 0 .. k : off[j] \in Nat}
        <4>1. 0 \in U
          BY SMT, <3>1
        <4>2. ASSUME NEW j \in 0 .. k - 1, j \in U PROVE j + 1 \in U
          <5>1. off[j + 1] = off[j] + Len(seqs[j + 1]) /\ j + 1 \in 0 .. k /\ j + 1 \in 1 .. n
            BY SMT, <2>1 DEF Laid
          <5>2. Len(seqs[j + 1]) \in Nat
            BY SMT, <1>4, <5>1
          <5> QED
            BY SMTT(30), <4>2, <5>1, <5>2
        <4>3. \A j \in 0 .. k : j \in U
          <5>1. k \in Nat
            BY SMT
          <5> HIDE DEF U
          <5> QED
            BY Zenon, <4>1, <4>2, <5>1, InductionTo
        <4> QED
          BY Zenon, <4>3
      <3> QED
        BY Zenon, <2>6, <3>1, <3>2
    <2>8. Laid(seqs, k + 1, r, off)
      <3>1. off[0] = 0 /\ off[k + 1] = Len(r)
        BY Zenon, <2>1, <2>6 DEF Laid
      <3>2. \A i \in 1 .. k + 1 : off[i] = off[i - 1] + Len(seqs[i])
        <4> SUFFICES ASSUME NEW i \in 1 .. k + 1 PROVE off[i] = off[i - 1] + Len(seqs[i])
          OBVIOUS
        <4>1. CASE i = k + 1
          <5>1. off[k + 1] = off[k] + Len(t)
            BY Zenon, <2>5, <2>6
          <5> QED
            BY Zenon, <2>0, <2>2, <4>1, <5>1
        <4>2. CASE i \in 1 .. k
          BY Zenon, <2>1, <4>2 DEF Laid
        <4>3. i = k + 1 \/ i \in 1 .. k
          BY SMT
        <4> QED
          BY Zenon, <4>1, <4>2, <4>3
      <3>3. \A i, j \in 0 .. k + 1 : i <= j => off[i] <= off[j]
        <4> SUFFICES ASSUME NEW i \in 0 .. k + 1, NEW j \in 0 .. k + 1, i <= j
                     PROVE  off[i] <= off[j]
          BY Zenon
        <4>1. CASE j \in 0 .. k
          <5>1. i \in 0 .. k
            BY SMT, <4>1
          <5> QED
            BY Zenon, <2>1, <4>1, <5>1 DEF Laid
        <4>2. CASE i \in 0 .. k /\ j = k + 1
          <5>1. off[i] \in Nat /\ off[i] <= Len(s) /\ off[j] = Len(r)
            BY Zenon, <2>6, <2>7, <4>2
          <5> QED
            BY SMT, <2>5, <5>1
        <4>3. CASE i = k + 1 /\ j = k + 1
          <5>1. off[i] = Len(r) /\ off[j] = Len(r)
            BY Zenon, <2>6, <4>3
          <5> QED
            BY SMT, <2>5, <5>1
        <4> QED
          BY SMT, <4>1, <4>2, <4>3
      <3>4. ASSUME NEW i \in 1 .. k + 1, NEW x \in 1 .. Len(seqs[i])
            PROVE  r[off[i - 1] + x] = seqs[i][x]
        <4>1. CASE i = k + 1
          <5>1. off[i - 1] = Len(s) /\ seqs[i] = t
            BY Zenon, <2>0, <2>2, <2>6, <4>1
          <5>2. x \in 1 .. Len(t)
            BY Zenon, <3>4, <5>1
          <5> QED
            BY Zenon, <2>5, <5>1, <5>2
        <4>2. CASE i \in 1 .. k
          <5>1. s[off[i - 1] + x] = seqs[i][x]
            BY Zenon, <2>1, <3>4, <4>2 DEF Laid
          <5>2. off[i] = off[i - 1] + Len(seqs[i]) /\ off[i] <= Len(s) /\ off[i - 1] \in Nat
            <6>1. i - 1 \in 0 .. k /\ i \in 0 .. k
              BY SMT, <4>2
            <6> QED
              BY Zenon, <2>1, <2>7, <4>2, <6>1 DEF Laid
          <5>3. Len(seqs[i]) \in Nat
            BY SMT, <1>4, <4>2
          <5>4. off[i - 1] + x \in 1 .. Len(s)
            BY SMTT(60), <2>5, <3>4, <5>2, <5>3
          <5> QED
            BY Zenon, <2>5, <5>1, <5>4
        <4> QED
          BY SMT, <4>1, <4>2
      <3>5. ASSUME NEW p \in 1 .. Len(r) PROVE \E i \in 1 .. k + 1 : off[i - 1] < p /\ p <= off[i]
        <4>1. CASE p <= Len(s)
          <5>0. p \in 1 .. Len(s)
            BY SMT, <2>5, <4>1
          <5>1. PICK i \in 1 .. k : off[i - 1] < p /\ p <= off[i]
            BY Zenon, <2>1, <5>0 DEF Laid
          <5> QED
            BY SMT, <5>1
        <4>2. CASE ~(p <= Len(s))
          BY SMTT(30), <2>5, <2>6, <4>2
        <4> QED
          BY <4>1, <4>2
      <3> QED
        BY Zenon, <3>1, <3>2, <3>3, <3>4, <3>5 DEF Laid
    <2>9. k + 1 \in 0 .. n
      BY SMT
    <2> QED
      BY Zenon, <2>3, <2>4, <2>8, <2>9
  <1>7. \A k \in 0 .. n : k \in S
    <2> HIDE DEF S
    <2> QED
      BY Zenon, <1>5, <1>6, InductionTo
  <1>8. n \in 0 .. n
    BY SMT
  <1>9. off \in [0 .. n -> Nat]
    <2>1. \A k \in 0 .. n : Len(f[k]) \in Nat
      BY SMT, <1>7
    <2> QED
      BY Zenon, <2>1
  <1> QED
    <2> HIDE DEF off
    <2> QED
      BY Zenon, <1>1, <1>2, <1>7, <1>8, <1>9

\* s is a sequence, of whatever elements.
IsSeq(s) == Len(s) \in Nat /\ s = [i \in 1 .. Len(s) |-> s[i]]

\* So is every element of Seq(T).
LEMMA SeqIsSeq == ASSUME NEW T, NEW s \in Seq(T) PROVE IsSeq(s)
  BY SMT DEF IsSeq

\* Where the elements of the sequences are in the flattened one.
Places(seqs, n, s, off) ==
    /\ \A i \in 1 .. n : \A k \in 1 .. Len(seqs[i]) :
          off[i - 1] + k \in 1 .. Len(s) /\ s[off[i - 1] + k] = seqs[i][k]
    /\ \A p \in 1 .. Len(s) : \E i \in 1 .. n : \E k \in 1 .. Len(seqs[i]) : p = off[i - 1] + k

\* Every element of the sequences is in the flattened one, and nothing else.
LEMMA FlattenPlaces ==
    ASSUME NEW seqs, Len(seqs) \in Nat, \A i \in 1 .. Len(seqs) : IsSeq(seqs[i])
    PROVE  /\ IsSeq(Flatten(seqs))
           /\ \E off \in [0 .. Len(seqs) -> Nat] : Places(seqs, Len(seqs), Flatten(seqs), off)
  <1> DEFINE T == UNION {{seqs[i][k] : k \in 1 .. Len(seqs[i])} : i \in 1 .. Len(seqs)}
  <1>1. ASSUME NEW i \in 1 .. Len(seqs) PROVE seqs[i] \in Seq(T)
    <2>1. PICK s : s = seqs[i] /\ IsSeq(s)
      BY Zenon
    <2>2. \A k \in 1 .. Len(s) : s[k] \in T
      <3> SUFFICES ASSUME NEW k \in 1 .. Len(s) PROVE s[k] \in T
        BY SMTT(30)
      <3>1. s[k] \in {seqs[i][j] : j \in 1 .. Len(seqs[i])}
        BY Zenon, <2>1
      <3> QED
        BY Zenon, <3>1
    <2> HIDE DEF T
    <2>3. s \in [1 .. Len(s) -> T] /\ Len(s) \in Nat
      BY Zenon, <2>1, <2>2 DEF IsSeq
    <2>4. s \in Seq(T)
      BY SMT, <2>3
    <2> QED
      BY Zenon, <2>1, <2>4
  <1> HIDE DEF T
  <1>2. PICK s \in Seq(T), off \in [0 .. Len(seqs) -> Nat] :
            s = Flatten(seqs) /\ Laid(seqs, Len(seqs), s, off)
    BY Zenon, <1>1, FlattenLays
  <1>3. PICK n \in Nat : n = Len(seqs)
    OBVIOUS
  <1>4. /\ off[n] = Len(s)
        /\ \A i \in 1 .. n : off[i] = off[i - 1] + Len(seqs[i])
        /\ \A i, j \in 0 .. n : i <= j => off[i] <= off[j]
        /\ \A i \in 1 .. n : \A k \in 1 .. Len(seqs[i]) : s[off[i - 1] + k] = seqs[i][k]
        /\ \A p \in 1 .. Len(s) : \E i \in 1 .. n : off[i - 1] < p /\ p <= off[i]
    BY Zenon, <1>2, <1>3 DEF Laid
  <1>5. \A i \in 1 .. n : Len(seqs[i]) \in Nat
    BY Zenon, <1>3 DEF IsSeq
  <1>6. \A i \in 0 .. n : off[i] \in Nat
    BY SMT, <1>2, <1>3
  <1>7. Len(s) \in Nat
    BY SMT
  <1>8. ASSUME NEW i \in 1 .. n, NEW k \in 1 .. Len(seqs[i])
        PROVE  off[i - 1] + k \in 1 .. Len(s) /\ s[off[i - 1] + k] = seqs[i][k]
    <2>1. i \in 0 .. n /\ n \in 0 .. n /\ i <= n /\ i - 1 \in 0 .. n
      BY SMT
    <2>2. off[i] <= Len(s) /\ off[i] = off[i - 1] + Len(seqs[i]) /\ off[i - 1] \in Nat
      BY Zenon, <1>4, <1>6, <2>1
    <2>3. off[i - 1] + k \in 1 .. Len(s)
      BY SMTT(30), <1>5, <1>7, <2>2
    <2> QED
      BY Zenon, <1>4, <2>3
  <1>9. ASSUME NEW p \in 1 .. Len(s)
        PROVE  \E i \in 1 .. n : \E k \in 1 .. Len(seqs[i]) : p = off[i - 1] + k
    <2>1. PICK i \in 1 .. n : off[i - 1] < p /\ p <= off[i]
      BY Zenon, <1>4
    <2>2. PICK o \in Nat, m \in Nat : o = off[i - 1] /\ m = Len(seqs[i]) /\ off[i] = o + m
      <3>1. i - 1 \in 0 .. n
        BY SMT
      <3> QED
        BY Zenon, <1>4, <1>5, <1>6, <3>1
    <2>3. p - o \in 1 .. m /\ p = o + (p - o)
      BY SMTT(30), <2>1, <2>2
    <2> QED
      BY Zenon, <2>2, <2>3
  <1> QED
    <2>1. IsSeq(s)
      BY Zenon, SeqIsSeq
    <2> QED
      BY ZenonT(60), <1>2, <1>3, <1>8, <1>9, <2>1 DEF Places

-----------------------------------------------------------------------------
(* Requests and outputs.                                                   *)

\* A coin's address: its frame and its position there.
Address == Nat \X Nat

\* The requests that are ever made.
Asked == UNION {
    [kind : {"transfer"}, signer : Account, coin : Address, to : Account],
    [kind : {"split"}, signer : Account, coin : Address, amounts : Seq(Nat)],
    [kind : {"merge"}, signer : Account, coins : Seq(Address)],
    [kind : {"grant"}, signer : Account, to : Account, amount : Nat],
    [kind : {"mint"}, signer : Account, frame : Nat, parallelism : Nat, proofs : Quality],
    [kind : {"announce"}, keys : Seq(Account)],
    [kind : {"join"}, signer : Account, frame : Nat, announce : Seq(Account)],
    [kind : {"leave", "pause", "resume"}, signer : Account, frame : Nat]}

\* The fields of a request, kind by kind.
LEMMA AskedFields ==
    ASSUME NEW t \in Asked
    PROVE  /\ t.kind \in {"transfer", "split", "merge", "grant", "mint", "announce", "join",
                          "leave", "pause", "resume"}
           /\ t.kind # "announce" => t.signer \in Account
           /\ t.kind = "split" => t.amounts \in Seq(Nat)
           /\ t.kind = "merge" => t.coins \in Seq(Address)
           /\ t.kind = "mint" => t.frame \in Nat /\ t.parallelism \in Nat
           /\ t.kind = "grant" => t.amount \in Nat /\ t.to \in Account
           /\ t.kind = "announce" => t.keys \in Seq(Account)
           /\ t.kind = "join" => t.announce \in Seq(Account)
  BY SMT DEF Asked

\* The kinds of outputs.
OutputKind == {"coin", "deletedCoin", "proof", "grant", "deletedProof", "announce", "join",
               "leave", "pause", "resume", "penalty"}

\* What ProcessFrame relies on in an output.
IsOutput(o) ==
    /\ o.out \in OutputKind
    /\ o.out = "join" => o.prover \in Account /\ RingsOf(o.prover) = {}
    /\ o.out = "leave" => o.prover \in Account
    /\ o.out \in {"penalty", "deletedProof"} => o.owner \in Account
    /\ o.out = "proof" =>
          /\ o.owner \in Account /\ o.frame \in Nat
          /\ o.owner \in DOMAIN proofs => o.frame > proofs[o.owner].frame

\* What holds of the result r of a request t other than a mint.
Handled(lock, t, r) ==
    /\ lock \subseteq r.lock
    /\ IsSeq(r.outs)
    /\ \A k \in 1 .. Len(r.outs) : IsOutput(r.outs[k]) /\ r.outs[k].out # "deletedProof"
    /\ \A k \in 1 .. Len(r.outs) : r.outs[k].out = "join" =>
          /\ k = Len(r.outs) /\ t.signer = r.outs[k].prover
          /\ t.signer \notin lock /\ t.signer \in r.lock

\* The empty sequence.
LEMMA NoOutputs == IsSeq(<<>>) /\ Len(<<>>) = 0 /\ \A k \in 1 .. Len(<<>>) : FALSE
  BY SMT DEF IsSeq

\* A refused request has no outputs; it may leave its key locked.
LEMMA RefusedHandled ==
    ASSUME NEW lock, NEW locked, NEW t, lock \subseteq locked
    PROVE  Handled(lock, t, Refused(locked))
  BY Zenon, NoOutputs DEF Handled, Refused

\* A sequence of one.
LEMMA OneOutput ==
    ASSUME NEW o PROVE IsSeq(<<o>>) /\ Len(<<o>>) = 1 /\ <<o>>[1] = o
  BY SMT DEF IsSeq

\* Outputs of which ProcessFrame relies on nothing.
Plain == {"coin", "deletedCoin", "grant", "announce", "pause", "resume"}

\* Of such an output nothing is to be shown.
LEMMA PlainOutput ==
    ASSUME NEW o, o.out \in Plain
    PROVE  IsOutput(o) /\ o.out # "deletedProof" /\ o.out # "join"
  BY SMT DEF Plain, IsOutput, OutputKind

\* Nor of a request that gives only such outputs.
LEMMA PlainHandled ==
    ASSUME NEW lock, NEW locked, NEW t, lock \subseteq locked,
           NEW outs, IsSeq(outs), \A k \in 1 .. Len(outs) : outs[k].out \in Plain
    PROVE  Handled(lock, t, Accepted(locked, outs))
  <1>1. \A k \in 1 .. Len(outs) :
           IsOutput(outs[k]) /\ outs[k].out # "deletedProof" /\ outs[k].out # "join"
    BY Zenon, PlainOutput
  <1>2. Accepted(locked, outs).lock = locked /\ Accepted(locked, outs).outs = outs
    BY Zenon DEF Accepted
  <1> QED
    BY Zenon, <1>1, <1>2 DEF Handled

\* The kinds of the outputs about coins.
LEMMA CoinOutputs ==
    /\ \A amount, owner : CoinOutput(amount, owner).out = "coin"
    /\ \A c : DeletedCoin(c).out = "deletedCoin"
  BY Zenon DEF CoinOutput, DeletedCoin

\* A sequence of two.
LEMMA TwoOutputs ==
    ASSUME NEW o, NEW d
    PROVE  /\ IsSeq(<<o, d>>) /\ Len(<<o, d>>) = 2
           /\ <<o, d>>[1] = o /\ <<o, d>>[2] = d
           /\ \A k \in 1 .. Len(<<o, d>>) : <<o, d>>[k] \in {o, d}
  BY SMT DEF IsSeq

\* The elements of one sequence after another.
LEMMA ThenIsSeq ==
    ASSUME NEW s, IsSeq(s), NEW t, IsSeq(t)
    PROVE  /\ IsSeq(Then(s, t)) /\ Len(Then(s, t)) = Len(s) + Len(t)
           /\ \A k \in 1 .. Len(s) + Len(t) :
                 Then(s, t)[k] = IF k <= Len(s) THEN s[k] ELSE t[k - Len(s)]
  <1> DEFINE T == {s[k] : k \in 1 .. Len(s)} \cup {t[k] : k \in 1 .. Len(t)}
  <1>1. (\A k \in 1 .. Len(s) : s[k] \in T) /\ (\A k \in 1 .. Len(t) : t[k] \in T)
    BY Zenon
  <1> HIDE DEF T
  <1>2. s \in [1 .. Len(s) -> T] /\ Len(s) \in Nat /\ t \in [1 .. Len(t) -> T] /\ Len(t) \in Nat
    BY Zenon, <1>1 DEF IsSeq
  <1>3. s \in Seq(T) /\ t \in Seq(T)
    BY SMT, <1>2
  <1>4. Then(s, t) \in Seq(T) /\ Len(Then(s, t)) = Len(s) + Len(t)
    BY Zenon, <1>3, ThenType
  <1>5. \A k \in 1 .. Len(s) + Len(t) :
            Then(s, t)[k] = IF k <= Len(s) THEN s[k] ELSE t[k - Len(s)]
    BY SMT, <1>3 DEF Then
  <1> QED
    BY Zenon, <1>4, <1>5, SeqIsSeq

\* The elements of a sequence with one more.
LEMMA AppendIsSeq ==
    ASSUME NEW s, IsSeq(s), NEW e
    PROVE  /\ IsSeq(Append(s, e)) /\ Len(Append(s, e)) = Len(s) + 1
           /\ Len(s) \in Nat
           /\ \A k \in 1 .. Len(s) + 1 : Append(s, e)[k] = IF k <= Len(s) THEN s[k] ELSE e
  <1> DEFINE T == {s[k] : k \in 1 .. Len(s)} \cup {e}
  <1>1. (\A k \in 1 .. Len(s) : s[k] \in T) /\ e \in T
    BY Zenon
  <1> HIDE DEF T
  <1>2. s \in [1 .. Len(s) -> T] /\ Len(s) \in Nat
    BY Zenon, <1>1 DEF IsSeq
  <1>3. s \in Seq(T)
    BY SMT, <1>2
  <1>4. Append(s, e) \in Seq(T)
    BY Zenon, <1>1, <1>3, AppendType
  <1>5. Len(Append(s, e)) = Len(s) + 1 /\ Len(s) \in Nat
    BY SMT, <1>1, <1>3
  <1>6. \A k \in 1 .. Len(s) + 1 : Append(s, e)[k] = IF k <= Len(s) THEN s[k] ELSE e
    BY SMT, <1>1, <1>3
  <1> QED
    BY Zenon, <1>4, <1>5, <1>6, SeqIsSeq

\* A function with the domain of a sequence is one of the same length.
LEMMA MapIsSeq ==
    ASSUME NEW s, IsSeq(s), NEW f, f = [i \in DOMAIN s |-> f[i]]
    PROVE  IsSeq(f) /\ Len(f) = Len(s) /\ DOMAIN f = 1 .. Len(s)
  <1>1. DOMAIN s = 1 .. Len(s) /\ Len(s) \in Nat
    BY Zenon DEF IsSeq
  <1>2. f = [i \in 1 .. Len(s) |-> f[i]]
    BY Zenon, <1>1
  <1>3. DOMAIN f = 1 .. Len(s)
    BY Zenon, <1>2
  <1>4. Len(f) = Len(s)
    BY SMT, <1>1, <1>3
  <1> QED
    BY Zenon, <1>1, <1>2, <1>3, <1>4 DEF IsSeq

\* A transfer gives outputs about coins.
LEMMA TransferHandled ==
    ASSUME NEW lock, NEW t PROVE Handled(lock, t, handleTransfer(lock, t))
  <1>1. CASE t.coin \in lock \/ ~OwnedBy(t.coin, t.signer)
    BY Zenon, <1>1, RefusedHandled DEF handleTransfer
  <1>2. CASE ~(t.coin \in lock \/ ~OwnedBy(t.coin, t.signer))
    <2>1. PICK o : o = CoinOutput(coins[t.coin].amount, t.to)
      BY Zenon
    <2>2. PICK d : d = DeletedCoin(t.coin)
      BY Zenon
    <2>3. handleTransfer(lock, t) = Accepted(lock \cup {t.coin}, <<o, d>>)
      BY Zenon, <1>2, <2>1, <2>2 DEF handleTransfer
    <2>4. o.out \in Plain /\ d.out \in Plain
      BY Zenon, <2>1, <2>2, CoinOutputs DEF Plain
    <2>5. PICK outs : outs = <<o, d>>
      BY Zenon
    <2>6. IsSeq(outs) /\ \A k \in 1 .. Len(outs) : outs[k] \in {o, d}
      BY Zenon, <2>5, TwoOutputs
    <2>7. \A k \in 1 .. Len(outs) : outs[k].out \in Plain
      BY Zenon, <2>4, <2>6
    <2>8. lock \subseteq lock \cup {t.coin}
      BY Zenon
    <2>9. Handled(lock, t, Accepted(lock \cup {t.coin}, outs))
      BY Zenon, <2>6, <2>7, <2>8, PlainHandled
    <2> QED
      BY Zenon, <2>3, <2>5, <2>9
  <1> QED
    BY Zenon, <1>1, <1>2

\* So does a split.
LEMMA SplitHandled ==
    ASSUME NEW lock, NEW t, IsSeq(t.amounts) PROVE Handled(lock, t, handleSplit(lock, t))
  <1> DEFINE made == [i \in DOMAIN t.amounts |-> CoinOutput(t.amounts[i], t.signer)]
             outs == Append(made, DeletedCoin(t.coin))
  <1>1. handleSplit(lock, t) = Refused(lock) \/ handleSplit(lock, t) = Accepted(lock \cup {t.coin}, outs)
    BY Zenon DEF handleSplit
  <1>2. IsSeq(made) /\ Len(made) = Len(t.amounts) /\ DOMAIN made = 1 .. Len(t.amounts)
    <2>1. made = [i \in DOMAIN t.amounts |-> made[i]]
      BY Zenon
    <2> HIDE DEF made
    <2> QED
      BY Zenon, <2>1, MapIsSeq
  <1>3. \A k \in 1 .. Len(made) : made[k].out = "coin"
    BY Zenon, <1>2, CoinOutputs
  <1> HIDE DEF made
  <1>4. PICK d : d = DeletedCoin(t.coin) /\ d.out = "deletedCoin"
    BY Zenon, CoinOutputs
  <1>5. /\ IsSeq(Append(made, d)) /\ Len(Append(made, d)) = Len(made) + 1 /\ Len(made) \in Nat
        /\ \A k \in 1 .. Len(made) + 1 : Append(made, d)[k] = IF k <= Len(made) THEN made[k] ELSE d
    BY Zenon, <1>2, AppendIsSeq
  <1>6. IsSeq(outs) /\ \A k \in 1 .. Len(outs) : outs[k].out \in {"coin", "deletedCoin"}
    <2>1. PICK r : r = Append(made, d)
      BY Zenon
    <2>2. ASSUME NEW k \in 1 .. Len(r) PROVE r[k].out \in {"coin", "deletedCoin"}
      <3>1. k \in 1 .. Len(made) + 1
        BY Zenon, <1>5, <2>1
      <3>2. CASE k <= Len(made)
        <4>1. r[k] = made[k] /\ k \in 1 .. Len(made)
          BY SMT, <1>5, <2>1, <3>1, <3>2
        <4> QED
          BY Zenon, <1>3, <4>1
      <3>3. CASE ~(k <= Len(made))
        BY Zenon, <1>4, <1>5, <2>1, <3>1, <3>3
      <3> QED
        BY Zenon, <3>2, <3>3
    <2> QED
      BY Zenon, <1>4, <1>5, <2>1, <2>2
  <1> HIDE DEF outs
  <1>7. \A k \in 1 .. Len(outs) : outs[k].out \in Plain
    BY Zenon, <1>6 DEF Plain
  <1>8. lock \subseteq lock \cup {t.coin} /\ lock \subseteq lock
    BY Zenon
  <1>9. Handled(lock, t, Accepted(lock \cup {t.coin}, outs)) /\ Handled(lock, t, Refused(lock))
    BY Zenon, <1>6, <1>7, <1>8, PlainHandled, RefusedHandled
  <1> QED
    BY Zenon, <1>1, <1>9

\* So does a merge.
LEMMA MergeHandled ==
    ASSUME NEW lock, NEW t, IsSeq(t.coins) PROVE Handled(lock, t, handleMerge(lock, t))
  <1>1. PICK o : /\ o = CoinOutput(SumFunction([i \in DOMAIN t.coins |-> coins[t.coins[i]].amount]), t.signer)
                 /\ o.out = "coin"
    BY Zenon, CoinOutputs
  <1> DEFINE gone == [i \in DOMAIN t.coins |-> DeletedCoin(t.coins[i])]
             outs == Then(<<o>>, gone)
  <1>2. \/ handleMerge(lock, t) = Refused(lock)
        \/ handleMerge(lock, t) = Accepted(lock \cup Range(t.coins), outs)
    BY Zenon, <1>1 DEF handleMerge, Then
  <1>3. IsSeq(gone) /\ Len(gone) = Len(t.coins) /\ DOMAIN gone = 1 .. Len(t.coins)
    <2>1. gone = [i \in DOMAIN t.coins |-> gone[i]]
      BY Zenon
    <2> HIDE DEF gone
    <2> QED
      BY Zenon, <2>1, MapIsSeq
  <1>4. \A k \in 1 .. Len(gone) : gone[k].out = "deletedCoin"
    BY Zenon, <1>3, CoinOutputs
  <1> HIDE DEF gone
  <1>5. PICK s : s = <<o>> /\ IsSeq(s) /\ Len(s) = 1 /\ s[1] = o
    BY Zenon, OneOutput
  <1>6. /\ IsSeq(Then(s, gone)) /\ Len(Then(s, gone)) = Len(s) + Len(gone)
        /\ \A k \in 1 .. Len(s) + Len(gone) :
              Then(s, gone)[k] = IF k <= Len(s) THEN s[k] ELSE gone[k - Len(s)]
    BY ZenonT(60), <1>3, <1>5, ThenIsSeq
  <1>7. IsSeq(outs) /\ \A k \in 1 .. Len(outs) : outs[k].out \in {"coin", "deletedCoin"}
    <2>1. PICK r : r = Then(s, gone) /\ Len(r) = 1 + Len(gone) /\ IsSeq(r)
      BY Zenon, <1>5, <1>6
    <2>2. ASSUME NEW k \in 1 .. Len(r) PROVE r[k].out \in {"coin", "deletedCoin"}
      <3>1. k \in 1 .. 1 + Len(gone) /\ Len(gone) \in Nat
        BY Zenon, <1>3, <2>1 DEF IsSeq
      <3>2. r[k] = IF k <= 1 THEN s[k] ELSE gone[k - 1]
        BY Zenon, <1>5, <1>6, <2>1, <3>1
      <3>3. CASE k = 1
        <4>1. r[k] = o
          BY SMT, <1>5, <3>2, <3>3
        <4> QED
          BY Zenon, <1>1, <4>1
      <3>4. CASE k # 1
        <4>1. r[k] = gone[k - 1] /\ k - 1 \in 1 .. Len(gone)
          BY SMT, <3>1, <3>2, <3>4
        <4> QED
          BY Zenon, <1>4, <4>1
      <3> QED
        BY Zenon, <3>3, <3>4
    <2> QED
      BY Zenon, <1>5, <2>1, <2>2
  <1> HIDE DEF outs
  <1>8. \A k \in 1 .. Len(outs) : outs[k].out \in Plain
    BY Zenon, <1>7 DEF Plain
  <1>9. lock \subseteq lock \cup Range(t.coins) /\ lock \subseteq lock
    BY Zenon
  <1>10. Handled(lock, t, Accepted(lock \cup Range(t.coins), outs)) /\ Handled(lock, t, Refused(lock))
    BY Zenon, <1>7, <1>8, <1>9, PlainHandled, RefusedHandled
  <1> QED
    BY Zenon, <1>2, <1>10

\* An announce gives an announce.
LEMMA AnnounceHandled ==
    ASSUME NEW lock, NEW t, NEW keys
    PROVE  /\ Handled(lock, t, handleAnnounce(lock, keys))
           /\ \A k \in 1 .. Len(handleAnnounce(lock, keys).outs) :
                 handleAnnounce(lock, keys).outs[k].out = "announce"
  <1>0. PICK o : o = [out |-> "announce", keys |-> keys]
    BY Zenon
  <1>1. o = [out |-> "announce", keys |-> keys] /\ o.out = "announce"
    BY SMT, <1>0
  <1>2. PICK outs : outs = <<o>> /\ IsSeq(outs) /\ \A k \in 1 .. Len(outs) : outs[k] = o
    <2>1. IsSeq(<<o>>) /\ \A k \in 1 .. Len(<<o>>) : <<o>>[k] = o
      BY SMT DEF IsSeq
    <2> QED
      BY Zenon, <2>1
  <1>3. \/ handleAnnounce(lock, keys) = Refused(lock)
        \/ handleAnnounce(lock, keys) = Accepted(lock \cup Range(Tail(keys)), outs)
    BY Zenon, <1>1, <1>2 DEF handleAnnounce
  <1>4. \A k \in 1 .. Len(outs) : outs[k].out \in Plain
    BY Zenon, <1>1, <1>2 DEF Plain
  <1>5. lock \subseteq lock \cup Range(Tail(keys)) /\ lock \subseteq lock
    BY Zenon
  <1>6. Handled(lock, t, Accepted(lock \cup Range(Tail(keys)), outs)) /\ Handled(lock, t, Refused(lock))
    BY Zenon, <1>2, <1>4, <1>5, PlainHandled, RefusedHandled
  <1>7. /\ Refused(lock).outs = <<>>
        /\ Accepted(lock \cup Range(Tail(keys)), outs).outs = outs
    BY Zenon DEF Refused, Accepted
  <1> QED
    BY Zenon, <1>1, <1>2, <1>3, <1>6, <1>7, NoOutputs

\* A join locks its key, which was not locked, and is of a prover in no ring.
LEMMA JoinHandled ==
    ASSUME NEW lock, NEW t, t.signer \in Account, t.kind = "join"
    PROVE  Handled(lock, t, handleDataAnnounceProverJoin(lock, t))
  <1> DEFINE announce == IF t.announce = <<>> THEN Accepted(lock, <<>>)
                         ELSE handleAnnounce(lock, t.announce)
  <1>1. PICK a : a = announce
    BY Zenon
  <1>2. /\ lock \subseteq a.lock /\ IsSeq(a.outs)
        /\ Handled(lock, t, a)
        /\ \A k \in 1 .. Len(a.outs) : a.outs[k].out = "announce"
    <2>1. CASE t.announce = <<>>
      <3>1. a = Accepted(lock, <<>>) /\ Accepted(lock, <<>>).outs = <<>> /\ Accepted(lock, <<>>).lock = lock
        BY Zenon, <1>1, <2>1 DEF Accepted
      <3> QED
        BY Zenon, <3>1, NoOutputs DEF Handled
    <2>2. CASE t.announce # <<>>
      <3>1. a = handleAnnounce(lock, t.announce)
        BY Zenon, <1>1, <2>2
      <3>2. Handled(lock, t, a)
        BY Zenon, <3>1, AnnounceHandled
      <3>3. \A k \in 1 .. Len(a.outs) : a.outs[k].out = "announce"
        BY ZenonT(60), <3>1, AnnounceHandled
      <3> QED
        BY Zenon, <3>2, <3>3 DEF Handled
    <2> QED
      BY Zenon, <2>1, <2>2
  <1>3. PICK locked : locked = a.lock \cup {t.signer}
    BY Zenon
  <1>4. PICK j : j = [out |-> "join", prover |-> t.signer]
    BY Zenon
  <1>5. j.out = "join" /\ j.prover = t.signer
    BY SMT, <1>4
  <1>6. PICK r : r = handleDataAnnounceProverJoin(lock, t)
    BY Zenon
  <1>7. \/ r = Refused(lock) \/ r = a \/ r = Refused(locked)
        \/ t.signer \notin lock /\ RingsOf(t.signer) = {} /\ r = Accepted(locked, Append(a.outs, j))
    BY Zenon, <1>1, <1>3, <1>4, <1>6 DEF handleDataAnnounceProverJoin
  <1>8. CASE r = Refused(lock) \/ r = Refused(locked) \/ r = a
    <2>1. lock \subseteq lock /\ lock \subseteq locked
      BY Zenon, <1>2, <1>3
    <2> QED
      BY Zenon, <1>2, <1>6, <1>8, <2>1, RefusedHandled
  <1>9. CASE t.signer \notin lock /\ RingsOf(t.signer) = {} /\ r = Accepted(locked, Append(a.outs, j))
    <2>1. PICK outs : outs = Append(a.outs, j)
      BY Zenon
    <2>2. PICK n \in Nat : n = Len(a.outs)
      BY Zenon, <1>2 DEF IsSeq
    <2>3. /\ IsSeq(outs) /\ Len(outs) = n + 1
          /\ \A k \in 1 .. n + 1 : outs[k] = IF k <= n THEN a.outs[k] ELSE j
      <3>1. PICK s : s = a.outs /\ IsSeq(s)
        BY Zenon, <1>2
      <3>2. /\ IsSeq(Append(s, j)) /\ Len(Append(s, j)) = Len(s) + 1
            /\ \A k \in 1 .. Len(s) + 1 : Append(s, j)[k] = IF k <= Len(s) THEN s[k] ELSE j
        BY Zenon, <3>1, AppendIsSeq
      <3> QED
        BY Zenon, <2>1, <2>2, <3>1, <3>2
    <2>4. r.lock = locked /\ r.outs = outs
      BY Zenon, <1>9, <2>1 DEF Accepted
    <2>5. ASSUME NEW k \in 1 .. n + 1
          PROVE  /\ IsOutput(outs[k]) /\ outs[k].out # "deletedProof"
                 /\ outs[k].out = "join" => k = n + 1 /\ t.signer = outs[k].prover
      <3>1. CASE k <= n
        <4>1. outs[k] = a.outs[k] /\ k \in 1 .. n
          BY SMT, <2>3, <3>1
        <4>2. outs[k].out = "announce"
          BY Zenon, <1>2, <2>2, <4>1
        <4> QED
          BY SMT, <4>2 DEF IsOutput, OutputKind
      <3>2. CASE ~(k <= n)
        <4>1. outs[k] = j /\ k = n + 1
          BY SMT, <2>3, <3>2
        <4>2. IsOutput(j)
          BY SMT, <1>5, <1>9 DEF IsOutput, OutputKind
        <4> QED
          BY Zenon, <1>5, <4>1, <4>2
      <3> QED
        BY Zenon, <3>1, <3>2
    <2>6. lock \subseteq locked /\ t.signer \in locked
      BY Zenon, <1>2, <1>3
    <2> QED
      BY Zenon, <1>6, <1>9, <2>3, <2>4, <2>5, <2>6 DEF Handled
  <1> QED
    BY Zenon, <1>7, <1>8, <1>9

\* A leave, pause or resume gives one output of its kind.
LEMMA MemberHandled ==
    ASSUME NEW lock, NEW t, t.signer \in Account, t.kind \in {"leave", "pause", "resume"}
    PROVE  Handled(lock, t, MemberRequest(lock, t))
  <1>1. PICK locked : locked = lock \cup {t.signer}
    BY Zenon
  <1>2. PICK o : o = [out |-> t.kind, prover |-> t.signer]
    BY Zenon
  <1>3. o.out = t.kind /\ o.prover = t.signer
    BY SMT, <1>2
  <1>4. PICK outs : outs = <<o>>
    BY Zenon
  <1>5. IsSeq(outs) /\ \A k \in 1 .. Len(outs) : outs[k] = o
    BY SMT, <1>4 DEF IsSeq
  <1>6. \/ MemberRequest(lock, t) = Refused(lock) \/ MemberRequest(lock, t) = Refused(locked)
        \/ MemberRequest(lock, t) = Accepted(locked, outs)
    BY Zenon, <1>1, <1>2, <1>4 DEF MemberRequest
  <1>7. IsOutput(o) /\ o.out # "deletedProof" /\ o.out # "join"
    BY SMT, <1>3 DEF IsOutput, OutputKind
  <1>8. lock \subseteq lock /\ lock \subseteq locked
    BY Zenon, <1>1
  <1>9. Accepted(locked, outs).lock = locked /\ Accepted(locked, outs).outs = outs
    BY Zenon DEF Accepted
  <1>10. Handled(lock, t, Accepted(locked, outs))
    BY Zenon, <1>5, <1>7, <1>8, <1>9 DEF Handled
  <1> QED
    BY Zenon, <1>6, <1>8, <1>10, RefusedHandled

\* Every request is handled as Handled says.
LEMMA HandleHandled ==
    ASSUME NEW lock, NEW t \in Asked PROVE Handled(lock, t, Handle(lock, t))
  <1>1. /\ t.kind \in {"transfer", "split", "merge", "grant", "mint", "announce", "join",
                       "leave", "pause", "resume"}
        /\ t.kind # "announce" => t.signer \in Account
        /\ t.kind = "split" => t.amounts \in Seq(Nat)
        /\ t.kind = "merge" => t.coins \in Seq(Address)
    BY Zenon, AskedFields
  <1>2. CASE t.kind = "transfer"
    <2>1. Handle(lock, t) = handleTransfer(lock, t)
      BY SMT, <1>2 DEF Handle, IsMint
    <2> QED
      BY Zenon, <2>1, TransferHandled
  <1>3. CASE t.kind = "split"
    <2>1. Handle(lock, t) = handleSplit(lock, t)
      BY SMT, <1>3 DEF Handle, IsMint
    <2> QED
      BY Zenon, <1>1, <1>3, <2>1, SplitHandled, SeqIsSeq
  <1>4. CASE t.kind = "merge"
    <2>1. Handle(lock, t) = handleMerge(lock, t)
      BY SMT, <1>4 DEF Handle, IsMint
    <2> QED
      BY Zenon, <1>1, <1>4, <2>1, MergeHandled, SeqIsSeq
  <1>5. CASE t.kind = "announce"
    <2>1. Handle(lock, t) = handleAnnounce(lock, t.keys)
      BY SMT, <1>5 DEF Handle, IsMint
    <2> QED
      BY Zenon, <2>1, AnnounceHandled
  <1>6. CASE t.kind = "join"
    <2>1. Handle(lock, t) = handleDataAnnounceProverJoin(lock, t)
      BY SMT, <1>6 DEF Handle, IsMint
    <2>2. t.signer \in Account
      BY SMT, <1>1, <1>6
    <2> QED
      BY Zenon, <1>6, <2>1, <2>2, JoinHandled
  <1>7. CASE t.kind \in {"leave", "pause", "resume"}
    <2>1. Handle(lock, t) = MemberRequest(lock, t)
      BY SMT, <1>7 DEF Handle, IsMint, handleDataAnnounceProverLeave,
           handleDataAnnounceProverPause, handleDataAnnounceProverResume
    <2>2. t.signer \in Account
      BY SMT, <1>1, <1>7
    <2> QED
      BY Zenon, <1>7, <2>1, <2>2, MemberHandled
  <1>8. CASE t.kind \in {"grant", "mint"}
    <2>1. Handle(lock, t) = Refused(lock)
      BY SMT, <1>8 DEF Handle, IsMint
    <2>2. lock \subseteq lock
      BY Zenon
    <2> QED
      BY Zenon, <2>1, <2>2, RefusedHandled
  <1> QED
    BY SMTT(30), <1>1, <1>2, <1>3, <1>4, <1>5, <1>6, <1>7, <1>8

\* f is the recursive function of HandleAll, cut off at n.
Handling(requests, n, f) ==
    f = [i \in 0 .. n |-> IF i = 0 THEN Accepted({}, <<>>)
                          ELSE Handle(f[i - 1].lock, requests[i])]

\* HandleAll is its values.
LEMMA HandleAllDef ==
    ASSUME NEW requests
    PROVE  HandleAll(requests)
             = [i \in DOMAIN requests |-> (CHOOSE f : Handling(requests, Len(requests), f))[i]]
  BY DEF HandleAll, Handling

\* There is such a function.
LEMMA HandlingExists ==
    ASSUME NEW requests, NEW n \in Nat
    PROVE  \E f : Handling(requests, n, f)
  <1> DEFINE S == {m \in Nat : \E f : Handling(requests, m, f)}
  <1>1. 0 \in S
    <2>1. Handling(requests, 0, [k \in 0 .. 0 |-> Accepted({}, <<>>)])
      BY SMT DEF Handling
    <2> QED
      BY <2>1
  <1>2. ASSUME NEW m \in Nat, m \in S PROVE m + 1 \in S
    <2>1. PICK f : Handling(requests, m, f)
      BY SMTT(30), <1>2
    <2> DEFINE g == [k \in 0 .. m + 1 |-> IF k = m + 1 THEN Handle(f[m].lock, requests[k]) ELSE f[k]]
    <2>2. Handling(requests, m + 1, g)
      BY SMT, <2>1 DEF Handling
    <2>3. m + 1 \in Nat
      OBVIOUS
    <2> HIDE DEF g
    <2> QED
      BY Zenon, <2>2, <2>3
  <1>3. \A k \in Nat : k \in S
    <2> HIDE DEF S
    <2> QED
      BY Zenon, <1>1, <1>2, Induction
  <1> QED
    BY Zenon, <1>3

\* Of two joins in a frame the later one finds the key of the other one locked.
LEMMA HandleAllHandled ==
    ASSUME NEW requests \in Seq(Asked), NEW n \in Nat, n = Len(requests)
    PROVE  \E f : /\ \A i \in 1 .. n : /\ HandleAll(requests)[i] = f[i]
                                       /\ Handled(f[i - 1].lock, requests[i], f[i])
                  /\ \A i, j \in 0 .. n : i <= j => f[i].lock \subseteq f[j].lock
  <1>0. DOMAIN requests = 1 .. n /\ \A i \in 1 .. n : requests[i] \in Asked
    BY SMT
  <1>1. PICK f : Handling(requests, n, f) /\ HandleAll(requests) = [i \in 1 .. n |-> f[i]]
    BY Zenon, <1>0, HandleAllDef, HandlingExists
  <1>2. \A i \in 1 .. n : f[i] = Handle(f[i - 1].lock, requests[i])
    BY SMT, <1>1 DEF Handling
  <1>3. \A i \in 1 .. n : Handled(f[i - 1].lock, requests[i], f[i])
    BY Zenon, <1>0, <1>2, HandleHandled
  <1>4. \A i \in 1 .. n : f[i - 1].lock \subseteq f[i].lock
    BY Zenon, <1>3 DEF Handled
  <1>5. ASSUME NEW i \in 0 .. n PROVE \A j \in 0 .. n : i <= j => f[i].lock \subseteq f[j].lock
    <2> DEFINE S == {j \in 0 .. n : i <= j => f[i].lock \subseteq f[j].lock}
    <2>1. 0 \in S
      BY SMT
    <2>2. ASSUME NEW j \in 0 .. n - 1, j \in S PROVE j + 1 \in S
      <3>1. f[j].lock \subseteq f[j + 1].lock
        <4>1. j + 1 \in 1 .. n /\ (j + 1) - 1 = j
          BY SMT
        <4> QED
          BY Zenon, <1>4, <4>1
      <3>2. j + 1 \in 0 .. n
        BY SMT
      <3>3. CASE i <= j
        BY Zenon, <2>2, <3>1, <3>2, <3>3
      <3>4. CASE ~(i <= j)
        <4>1. i <= j + 1 => i = j + 1
          BY SMT, <3>4
        <4> QED
          BY Zenon, <3>2, <4>1
      <3> QED
        BY Zenon, <3>3, <3>4
    <2>3. \A j \in 0 .. n : j \in S
      <3> HIDE DEF S
      <3> QED
        BY Zenon, <2>1, <2>2, InductionTo
    <2> QED
      BY Zenon, <2>3
  <1>6. \A i \in 1 .. n : HandleAll(requests)[i] = f[i]
    BY Zenon, <1>1
  <1> QED
    BY Zenon, <1>3, <1>5, <1>6

-----------------------------------------------------------------------------
(* Mints.                                                                  *)

\* The stored proofs are about frames.
ProofFrames == \A a \in DOMAIN proofs : proofs[a].frame \in Nat

\* What holds of the outputs of every request.
Made(outs) ==
    /\ IsSeq(outs)
    /\ \A k \in 1 .. Len(outs) : IsOutput(outs[k])
    /\ \A k \in 1 .. Len(outs) : outs[k].out = "deletedProof" =>
          /\ k + 1 \in 1 .. Len(outs)
          /\ outs[k + 1].out = "proof" /\ outs[k + 1].owner = outs[k].owner

\* The outputs of a request other than a mint.
LEMMA HandledMade ==
    ASSUME NEW lock, NEW t, NEW r, Handled(lock, t, r) PROVE Made(r.outs)
  BY Zenon DEF Handled, Made

\* No outputs.
LEMMA NothingMade == Made(<<>>)
  BY Zenon, NoOutputs DEF Made

\* The outputs of a grant.
LEMMA GrantMade ==
    ASSUME NEW t
    PROVE  /\ Made(handleGrant(t).outs)
           /\ \A k \in 1 .. Len(handleGrant(t).outs) : handleGrant(t).outs[k].out # "join"
  <1>1. PICK g : g = [out |-> "grant", owner |-> t.to, amount |-> t.amount]
    BY Zenon
  <1>2. PICK c : c = CoinOutput(t.amount, t.to)
    BY Zenon
  <1>3. g.out = "grant" /\ c.out = "coin"
    BY SMTT(30), <1>1, <1>2 DEF CoinOutput
  <1>4. PICK outs : outs = <<g, c>>
    BY Zenon
  <1>5. IsSeq(outs) /\ \A k \in 1 .. Len(outs) : outs[k] \in {g, c}
    BY Zenon, <1>4, TwoOutputs
  <1>6. \A k \in 1 .. Len(outs) : outs[k].out \in Plain
    <2>1. g.out \in Plain /\ c.out \in Plain
      BY Zenon, <1>3 DEF Plain
    <2> QED
      BY Zenon, <1>5, <2>1
  <1>7. \A k \in 1 .. Len(outs) :
           IsOutput(outs[k]) /\ outs[k].out # "deletedProof" /\ outs[k].out # "join"
    BY Zenon, <1>6, PlainOutput
  <1>8. handleGrant(t) = Refused({}) \/ handleGrant(t) = Accepted({}, outs)
    BY SMTT(30), <1>1, <1>2, <1>4 DEF handleGrant
  <1>9. Refused({}).outs = <<>> /\ Accepted({}, outs).outs = outs
    BY Zenon DEF Refused, Accepted
  <1>10. Made(outs)
    BY Zenon, <1>5, <1>7 DEF Made
  <1> QED
    BY Zenon, <1>7, <1>8, <1>9, <1>10, NothingMade, NoOutputs

\* A mint that leads to a proof is not late.
LEMMA PreProcessed ==
    ASSUME NEW t
    PROVE  /\ preProcessMint(t).what \in {"penalty", "error", "proof"}
           /\ preProcessMint(t).what = "proof" => ~Late(t)
  <1>1. CASE Late(t)
    BY SMTT(30), <1>1 DEF preProcessMint
  <1>2. CASE ~Late(t)
    BY SMT, <1>2 DEF preProcessMint
  <1> QED
    BY SMTT(30), <1>1, <1>2

\* The outputs of a mint: the proof it deletes is followed by the one that replaces it,
\* which is about a later frame.
LEMMA MintMade ==
    ASSUME NEW t \in Asked, t.kind = "mint", ProofFrames, NEW parallelismMap
    PROVE  LET outs == handleMint(t, preProcessMint(t), parallelismMap).outs
           IN Made(outs) /\ \A k \in 1 .. Len(outs) : outs[k].out # "join"
  <1>1. t.signer \in Account /\ t.frame \in Nat
    BY SMT, AskedFields
  <1>2. PICK x : x = preProcessMint(t)
    BY Zenon
  <1>3. PICK amount : amount = Reward(t, Max(RingsOf(t.signer)), parallelismMap[Max(RingsOf(t.signer))])
    BY Zenon
  <1>4. PICK d : d = [out |-> "deletedProof", owner |-> t.signer]
    BY Zenon
  <1>5. PICK c : c = CoinOutput(amount, t.signer)
    BY Zenon
  <1>6. PICK u : u = Penalty(t.signer)
    BY Zenon
  <1>7. PICK p : p = ProofOutput(t, amount)
    BY Zenon
  <1>8. PICK z : z = ProofOutput(t, 0)
    BY Zenon
  <1>9. /\ d.out = "deletedProof" /\ d.owner = t.signer /\ c.out = "coin"
        /\ u.out = "penalty" /\ u.owner = t.signer
        /\ p.out = "proof" /\ p.owner = t.signer /\ p.frame = t.frame
        /\ z.out = "proof" /\ z.owner = t.signer /\ z.frame = t.frame
    BY SMTT(30), <1>4, <1>5, <1>6, <1>7, <1>8 DEF CoinOutput, Penalty, ProofOutput
  <1>10. PICK D : D = IF x.deletes THEN <<d>> ELSE <<>>
    BY Zenon
  <1>11. PICK I : I = IF x.valid THEN <<p, c>> ELSE <<z>>
    BY Zenon
  <1>12. PICK U : U = IF x.weso THEN <<>> ELSE <<u>>
    BY Zenon
  <1>13. PICK r : r = handleMint(t, x, parallelismMap)
    BY Zenon
  <1>14. x.what \in {"penalty", "error", "proof"} /\ (x.what = "proof" => ~Late(t))
    BY Zenon, <1>2, PreProcessed
  <1>15. /\ x.what = "error" => r = Refused({})
         /\ x.what = "penalty" => r = Accepted({}, <<u>>)
         /\ x.what = "proof" => r = Accepted({}, Then(Then(D, I), U))
    BY SMTT(30), <1>3, <1>4, <1>5, <1>6, <1>7, <1>8, <1>10, <1>11, <1>12, <1>13, <1>14 DEF handleMint, Then
  <1>16. /\ Refused({}).outs = <<>> /\ Accepted({}, <<u>>).outs = <<u>>
         /\ Accepted({}, Then(Then(D, I), U)).outs = Then(Then(D, I), U)
    BY Zenon DEF Refused, Accepted
  <1>17. IsOutput(u) /\ u.out # "join" /\ u.out # "deletedProof"
    BY SMT, <1>1, <1>9 DEF IsOutput, OutputKind
  <1>18. CASE x.what = "error"
    BY Zenon, <1>2, <1>13, <1>15, <1>16, <1>18, NothingMade, NoOutputs
  <1>19. CASE x.what = "penalty"
    <2>1. PICK s : s = <<u>> /\ r.outs = s
      BY Zenon, <1>15, <1>16, <1>19
    <2>2. IsSeq(s) /\ \A k \in 1 .. Len(s) : s[k] = u
      BY SMT, <2>1 DEF IsSeq
    <2>3. Made(s) /\ \A k \in 1 .. Len(s) : s[k].out # "join"
      BY Zenon, <1>17, <2>2 DEF Made
    <2> QED
      BY Zenon, <1>2, <1>13, <2>1, <2>3
  <1>20. CASE x.what = "proof"
    <2>1. PICK s : s = Then(Then(D, I), U) /\ r.outs = s
      BY Zenon, <1>15, <1>16, <1>20
    <2>2. IsOutput(d) /\ IsOutput(c) /\ IsOutput(p) /\ IsOutput(z)
      <3>1. t.signer \in DOMAIN proofs => t.frame > proofs[t.signer].frame
        BY SMTT(30), <1>1, <1>14, <1>20 DEF Late, ProofFrames
      <3>2. IsOutput(d) /\ IsOutput(c)
        BY SMTT(30), <1>1, <1>9 DEF IsOutput, OutputKind
      <3>3. IsOutput(p)
        BY SMTT(30), <1>1, <1>9, <3>1 DEF IsOutput, OutputKind
      <3>4. IsOutput(z)
        BY SMTT(30), <1>1, <1>9, <3>1 DEF IsOutput, OutputKind
      <3> QED
        BY Zenon, <3>2, <3>3, <3>4
    <2>3. IsSeq(D) /\ Len(D) \in {0, 1} /\ \A k \in 1 .. Len(D) : D[k] = d
      BY SMT, <1>10 DEF IsSeq
    <2>4. IsSeq(I) /\ Len(I) \in {1, 2} /\ I[1] \in {p, z} /\ \A k \in 2 .. Len(I) : I[k] = c
      BY SMT, <1>11 DEF IsSeq
    <2>5. IsSeq(U) /\ Len(U) \in {0, 1} /\ \A k \in 1 .. Len(U) : U[k] = u
      BY SMT, <1>12 DEF IsSeq
    <2>6. PICK e : e = Then(D, I)
      BY Zenon
    <2>7. /\ IsSeq(e) /\ Len(e) = Len(D) + Len(I)
          /\ \A k \in 1 .. Len(D) + Len(I) : e[k] = IF k <= Len(D) THEN D[k] ELSE I[k - Len(D)]
      BY Zenon, <2>3, <2>4, <2>6, ThenIsSeq
    <2>8. /\ IsSeq(s) /\ Len(s) = Len(e) + Len(U)
          /\ \A k \in 1 .. Len(e) + Len(U) : s[k] = IF k <= Len(e) THEN e[k] ELSE U[k - Len(e)]
      <3>1. /\ IsSeq(Then(e, U)) /\ Len(Then(e, U)) = Len(e) + Len(U)
            /\ \A k \in 1 .. Len(e) + Len(U) :
                  Then(e, U)[k] = IF k <= Len(e) THEN e[k] ELSE U[k - Len(e)]
        BY Zenon, <2>5, <2>7, ThenIsSeq
      <3> QED
        BY Zenon, <2>1, <2>6, <3>1
    <2>9. PICK i \in {p, z} : i = I[1]
      BY Zenon, <2>4
    <2>10. /\ \A k \in 1 .. Len(s) : k <= Len(D) => s[k] = d
           /\ Len(D) + 1 \in 1 .. Len(s) /\ s[Len(D) + 1] = i
           /\ \A k \in 1 .. Len(s) : k > Len(D) + 1 => s[k] \in {c, u}
      BY SMTT(30), <2>3, <2>4, <2>5, <2>7, <2>8, <2>9
    <2>11. \A k \in 1 .. Len(s) : s[k] \in {d, i, c, u}
      BY SMT, <2>3, <2>10
    <2>12. \A k \in 1 .. Len(s) : IsOutput(s[k]) /\ s[k].out # "join"
      <3>1. \A o \in {d, i, c, u} : IsOutput(o) /\ o.out # "join"
        BY Zenon, <1>9, <1>17, <2>2, <2>9
      <3> QED
        BY Zenon, <2>11, <3>1
    <2>13. \A k \in 1 .. Len(s) : s[k].out = "deletedProof" => k <= Len(D)
      BY SMTT(30), <1>9, <2>3, <2>9, <2>10
    <2>14. ASSUME NEW k \in 1 .. Len(s), s[k].out = "deletedProof"
           PROVE  /\ k + 1 \in 1 .. Len(s)
                  /\ s[k + 1].out = "proof" /\ s[k + 1].owner = s[k].owner
      <3>1. k + 1 = Len(D) + 1 /\ s[k] = d
        BY SMTT(30), <2>3, <2>10, <2>13, <2>14
      <3>2. i.out = "proof" /\ i.owner = d.owner
        BY Zenon, <1>9, <2>9
      <3> QED
        BY Zenon, <2>10, <3>1, <3>2
    <2>15. Made(s)
      BY Zenon, <2>8, <2>12, <2>14 DEF Made
    <2> QED
      BY Zenon, <1>2, <1>13, <2>1, <2>12, <2>15
  <1> QED
    BY Zenon, <1>14, <1>18, <1>19, <1>20

\* What holds of the outputs of a frame.
WellMade(outs) ==
    /\ Made(outs)
    /\ \A p, q \in 1 .. Len(outs) :
          p # q /\ outs[p].out = "join" /\ outs[q].out = "join" => outs[p].prover # outs[q].prover

\* Such outputs, with a join only if they are those of h.
MadeOf(outs, h) ==
    Made(outs) /\ \A k \in 1 .. Len(outs) : outs[k].out = "join" => outs = h

\* The outputs of each request of a frame.
LEMMA ResultsMade ==
    ASSUME NEW requests \in Seq(Asked), NEW verdicts, ProofFrames, NEW n \in Nat, n = Len(requests),
           NEW f,
           \A i \in 1 .. n : /\ HandleAll(requests)[i] = f[i]
                             /\ Handled(f[i - 1].lock, requests[i], f[i])
    PROVE  \A i \in 1 .. n : MadeOf(Results(requests, verdicts)[i].outs, f[i].outs)
  <1> DEFINE mints == {i \in DOMAIN requests : requests[i].kind = "mint" /\ verdicts[i] = "set"}
             processed == [i \in mints |-> preProcessMint(requests[i])]
             parallelismMap ==
                 [r \in DOMAIN rings |->
                    SumFunction([i \in Working(requests, processed, r) |-> requests[i].parallelism])]
  <1>1. PICK map : map = parallelismMap
    BY Zenon
  <1>2. DOMAIN requests = 1 .. n /\ \A i \in 1 .. n : requests[i] \in Asked
    BY SMT
  <1> SUFFICES ASSUME NEW i \in 1 .. n
               PROVE  MadeOf(Results(requests, verdicts)[i].outs, f[i].outs)
    OBVIOUS
  <1>3. PICK t \in Asked : t = requests[i]
    BY Zenon, <1>2
  <1>4. PICK r : r = Results(requests, verdicts)[i]
    BY Zenon
  <1>5. r = IF i \in mints THEN handleMint(requests[i], processed[i], map)
            ELSE IF verdicts[i] # "set" THEN Refused({})
            ELSE IF requests[i].kind = "grant" THEN handleGrant(requests[i])
            ELSE HandleAll(requests)[i]
    BY Zenon, <1>1, <1>2, <1>4 DEF Results
  <1>6. i \in mints => t.kind = "mint" /\ processed[i] = preProcessMint(t)
    BY Zenon, <1>3
  <1> HIDE DEF mints, processed, parallelismMap
  <1>7. CASE i \in mints
    <2>1. r = handleMint(t, preProcessMint(t), map) /\ t.kind = "mint"
      BY Zenon, <1>3, <1>5, <1>6, <1>7
    <2> QED
      BY Zenon, <1>4, <2>1, MintMade DEF MadeOf
  <1>8. CASE i \notin mints /\ r = Refused({})
    <2>1. r.outs = <<>>
      BY Zenon, <1>8 DEF Refused
    <2> QED
      BY Zenon, <1>4, <2>1, NothingMade, NoOutputs DEF MadeOf
  <1>9. CASE i \notin mints /\ r = handleGrant(t)
    BY ZenonT(60), <1>4, <1>9, GrantMade DEF MadeOf
  <1>10. CASE i \notin mints /\ r = f[i]
    BY Zenon, <1>4, <1>10, HandledMade DEF MadeOf
  <1> QED
    BY Zenon, <1>3, <1>5, <1>7, <1>8, <1>9, <1>10

\* The outputs of all of them: no prover joins twice.
LEMMA ResultsWellMade ==
    ASSUME NEW requests \in Seq(Asked), NEW verdicts, ProofFrames
    PROVE  WellMade(Flatten([i \in DOMAIN requests |-> Results(requests, verdicts)[i].outs]))
  <1>1. PICK n \in Nat : n = Len(requests) /\ DOMAIN requests = 1 .. n
    BY SMT
  <1>2. PICK f : /\ \A i \in 1 .. n : /\ HandleAll(requests)[i] = f[i]
                                      /\ Handled(f[i - 1].lock, requests[i], f[i])
                 /\ \A i, j \in 0 .. n : i <= j => f[i].lock \subseteq f[j].lock
    BY ZenonT(60), <1>1, HandleAllHandled
  <1> DEFINE seqs == [i \in DOMAIN requests |-> Results(requests, verdicts)[i].outs]
  <1>3. Len(seqs) = n
    BY SMT, <1>1
  <1>4. \A i \in 1 .. n : /\ Made(seqs[i])
                          /\ \A k \in 1 .. Len(seqs[i]) : seqs[i][k].out = "join" => seqs[i] = f[i].outs
    <2>1. \A i \in 1 .. n : seqs[i] = Results(requests, verdicts)[i].outs
      BY Zenon, <1>1
    <2> HIDE DEF seqs
    <2>2. \A i \in 1 .. n : MadeOf(Results(requests, verdicts)[i].outs, f[i].outs)
      BY Zenon, <1>1, <1>2, ResultsMade
    <2>3. \A i \in 1 .. n : MadeOf(seqs[i], f[i].outs)
      BY Zenon, <2>1, <2>2
    <2> QED
      BY Zenon, <2>3 DEF MadeOf
  <1>5. PICK outs : outs = Flatten(seqs)
    BY Zenon
  <1> HIDE DEF seqs
  <1>6. \A i \in 1 .. n : IsSeq(seqs[i])
    BY Zenon, <1>4 DEF Made
  <1>7. IsSeq(outs) /\ \E off \in [0 .. n -> Nat] : Places(seqs, n, outs, off)
    BY Zenon, <1>3, <1>5, <1>6, FlattenPlaces
  <1>8. PICK off \in [0 .. n -> Nat] : Places(seqs, n, outs, off)
    BY Zenon, <1>7
  <1>9. /\ \A i \in 1 .. n : \A k \in 1 .. Len(seqs[i]) :
              off[i - 1] + k \in 1 .. Len(outs) /\ outs[off[i - 1] + k] = seqs[i][k]
        /\ \A p \in 1 .. Len(outs) : \E i \in 1 .. n : \E k \in 1 .. Len(seqs[i]) : p = off[i - 1] + k
    BY Zenon, <1>8 DEF Places
  <1>10. ASSUME NEW p \in 1 .. Len(outs)
         PROVE  /\ IsOutput(outs[p])
                /\ outs[p].out = "deletedProof" =>
                      /\ p + 1 \in 1 .. Len(outs)
                      /\ outs[p + 1].out = "proof" /\ outs[p + 1].owner = outs[p].owner
    <2>1. PICK i \in 1 .. n : \E k \in 1 .. Len(seqs[i]) : p = off[i - 1] + k
      BY Zenon, <1>9
    <2>2. PICK k \in 1 .. Len(seqs[i]) : p = off[i - 1] + k
      BY Zenon, <2>1
    <2>3. PICK s : s = seqs[i] /\ Made(s)
      BY Zenon, <1>4
    <2>4. outs[p] = s[k]
      BY Zenon, <1>9, <2>2, <2>3
    <2>5. IsOutput(s[k])
      BY Zenon, <2>2, <2>3 DEF Made
    <2>6. ASSUME s[k].out = "deletedProof"
          PROVE  /\ p + 1 \in 1 .. Len(outs)
                 /\ outs[p + 1].out = "proof" /\ outs[p + 1].owner = s[k].owner
      <3>1. k + 1 \in 1 .. Len(s) /\ s[k + 1].out = "proof" /\ s[k + 1].owner = s[k].owner
        BY Zenon, <2>2, <2>3, <2>6 DEF Made
      <3>2. off[i - 1] + (k + 1) \in 1 .. Len(outs) /\ outs[off[i - 1] + (k + 1)] = s[k + 1]
        BY Zenon, <1>9, <2>3, <3>1
      <3>3. off[i - 1] + (k + 1) = p + 1
        <4>1. i - 1 \in 0 .. n
          BY SMT
        <4>2. off[i - 1] \in Nat
          BY Zenon, <4>1
        <4> QED
          BY SMTT(30), <2>2, <4>2
      <3> QED
        BY Zenon, <3>1, <3>2, <3>3
    <2> QED
      BY Zenon, <2>4, <2>5, <2>6
  <1>11. ASSUME NEW i \in 1 .. n, NEW k \in 1 .. Len(seqs[i]), seqs[i][k].out = "join"
         PROVE  /\ k = Len(seqs[i]) /\ seqs[i][k].prover = requests[i].signer
                /\ requests[i].signer \notin f[i - 1].lock /\ requests[i].signer \in f[i].lock
    <2>1. seqs[i] = f[i].outs
      BY Zenon, <1>4, <1>11
    <2>2. Handled(f[i - 1].lock, requests[i], f[i])
      BY Zenon, <1>2
    <2>3. \A x \in 1 .. Len(f[i].outs) : f[i].outs[x].out = "join" =>
             /\ x = Len(f[i].outs) /\ requests[i].signer = f[i].outs[x].prover
             /\ requests[i].signer \notin f[i - 1].lock /\ requests[i].signer \in f[i].lock
      BY Zenon, <2>2 DEF Handled
    <2> QED
      BY Zenon, <1>11, <2>1, <2>3
  <1>12. ASSUME NEW i \in 1 .. n, NEW j \in 1 .. n, i < j,
                NEW k \in 1 .. Len(seqs[i]), NEW l \in 1 .. Len(seqs[j]),
                seqs[i][k].out = "join", seqs[j][l].out = "join"
         PROVE  seqs[i][k].prover # seqs[j][l].prover
    <2>1. i \in 0 .. n /\ j - 1 \in 0 .. n /\ i <= j - 1
      BY SMT, <1>12
    <2>2. f[i].lock \subseteq f[j - 1].lock
      BY Zenon, <1>2, <2>1
    <2>3. seqs[i][k].prover = requests[i].signer /\ requests[i].signer \in f[i].lock
      BY Zenon, <1>11, <1>12
    <2>4. seqs[j][l].prover = requests[j].signer /\ requests[j].signer \notin f[j - 1].lock
      BY Zenon, <1>11, <1>12
    <2> QED
      BY Zenon, <2>2, <2>3, <2>4
  <1>13. ASSUME NEW p \in 1 .. Len(outs), NEW q \in 1 .. Len(outs), p # q,
                outs[p].out = "join", outs[q].out = "join"
         PROVE  outs[p].prover # outs[q].prover
    <2>1. PICK i \in 1 .. n : \E k \in 1 .. Len(seqs[i]) : p = off[i - 1] + k
      BY Zenon, <1>9
    <2>2. PICK k \in 1 .. Len(seqs[i]) : p = off[i - 1] + k
      BY Zenon, <2>1
    <2>3. PICK j \in 1 .. n : \E l \in 1 .. Len(seqs[j]) : q = off[j - 1] + l
      BY Zenon, <1>9
    <2>4. PICK l \in 1 .. Len(seqs[j]) : q = off[j - 1] + l
      BY Zenon, <2>3
    <2>5. outs[p] = seqs[i][k] /\ outs[q] = seqs[j][l]
      BY Zenon, <1>9, <2>2, <2>4
    <2>6. i # j
      <3> SUFFICES ASSUME i = j PROVE FALSE
        OBVIOUS
      <3>0. seqs[i][k].out = "join" /\ seqs[j][l].out = "join"
        BY Zenon, <1>13, <2>5
      <3>1. k = Len(seqs[i]) /\ l = Len(seqs[j])
        BY Zenon, <1>11, <3>0
      <3> QED
        BY Zenon, <1>13, <2>2, <2>4, <3>1
    <2>7. i < j \/ j < i
      BY SMT, <2>6
    <2>8. seqs[i][k].out = "join" /\ seqs[j][l].out = "join"
      BY Zenon, <1>13, <2>5
    <2>9. CASE i < j
      <3>1. seqs[i][k].prover # seqs[j][l].prover
        BY Zenon, <1>12, <2>8, <2>9
      <3> QED
        BY Zenon, <2>5, <3>1
    <2>10. CASE j < i
      <3>1. seqs[j][l].prover # seqs[i][k].prover
        BY Zenon, <1>12, <2>8, <2>10
      <3> QED
        BY Zenon, <2>5, <3>1
    <2> QED
      BY Zenon, <2>7, <2>9, <2>10
  <1>14. Made(outs)
    BY Zenon, <1>7, <1>10 DEF Made
  <1> QED
    BY Zenon, <1>5, <1>13, <1>14 DEF WellMade, seqs

\* The outputs that VerifyExecution compares those of a frame with.
LEMMA AppliedWellMade ==
    ASSUME NEW requests \in Seq(Asked), ProofFrames
    PROVE  WellMade(ApplyTransitions(requests, FALSE).outputs)
  <1>1. ApplyTransitions(requests, FALSE).outputs
          = Flatten([i \in DOMAIN requests |-> Results(requests, Admit(requests))[i].outs])
    BY Zenon DEF ApplyTransitions
  <1> QED
    BY Zenon, <1>1, ResultsWellMade

\* The fields of what ProcessFrame works on.
Fields == {"ok", "coins", "proofs", "grants", "rings", "active", "joins", "leaves"}

\* What an output o at position i may change in s.
Effect(s, r, i, o, number) ==
    /\ DOMAIN r = Fields
    /\ \/ r.coins = s.coins
       \/ \E v : r.coins = With(s.coins, CoinAddress(number, i), v)
       \/ \E c : r.coins = Without(s.coins, {c})
    /\ o.out = "proof" => \E v : v.frame = o.frame /\ r.proofs = With(s.proofs, o.owner, v)
    /\ o.out = "deletedProof" => r.proofs = Without(s.proofs, {o.owner})
    /\ o.out \notin {"proof", "deletedProof"} => r.proofs = s.proofs
    /\ \/ r.rings = s.rings
       \/ /\ o.out = "proof" /\ RingsOf(o.owner) # {}
          /\ r.rings = [s.rings EXCEPT ![Min(RingsOf(o.owner))] =
                           Add(s.rings[Min(RingsOf(o.owner))], {o.owner}, number)]
    /\ r.joins = IF o.out = "join" THEN Append(s.joins, o.prover) ELSE s.joins
    /\ \/ r.leaves = s.leaves
       \/ o.out = "leave" /\ r.leaves = Append(s.leaves, o.prover)
       \/ o.out = "penalty" /\ r.leaves = Append(s.leaves, o.owner)

\* Every output changes what Effect says and nothing else.
LEMMA OutputEffect ==
    ASSUME NEW s, DOMAIN s = Fields, NEW i, NEW outs, NEW number, IsOutput(outs[i])
    PROVE  Effect(s, ApplyOutput(s, i, outs, number), i, outs[i], number)
  <1>1. PICK o : o = outs[i]
    BY Zenon
  <1>2. PICK r : r = ApplyOutput(s, i, outs, number)
    BY Zenon
  <1>3. CASE o.out = "coin"
    <2>1. PICK v : v = [amount |-> o.amount, owner |-> o.owner]
      BY Zenon
    <2>2. PICK cs : cs = With(s.coins, CoinAddress(number, i), v)
      BY Zenon
    <2>3. r = [s EXCEPT !.coins = cs]
      BY SMTT(30), <1>1, <1>2, <1>3, <2>1, <2>2 DEF ApplyOutput
    <2>4. /\ DOMAIN r = Fields /\ r.coins = cs /\ r.proofs = s.proofs /\ r.rings = s.rings
          /\ r.joins = s.joins /\ r.leaves = s.leaves
      BY SMT, <2>3 DEF Fields
    <2> QED
      BY Zenon, <1>1, <1>2, <1>3, <2>2, <2>4 DEF Effect
  <1>4. CASE o.out = "deletedCoin"
    <2>1. PICK cs : cs = Without(s.coins, {o.coin})
      BY Zenon
    <2>2. r = [s EXCEPT !.coins = cs] \/ r = [s EXCEPT !.ok = FALSE]
      BY SMT, <1>1, <1>2, <1>4, <2>1 DEF ApplyOutput
    <2>3. /\ DOMAIN r = Fields /\ r.coins \in {s.coins, cs} /\ r.proofs = s.proofs /\ r.rings = s.rings
          /\ r.joins = s.joins /\ r.leaves = s.leaves
      BY SMT, <2>2 DEF Fields
    <2> QED
      BY Zenon, <1>1, <1>2, <1>4, <2>1, <2>3 DEF Effect
  <1>5. CASE o.out \in {"grant", "announce", "pause", "resume"}
    <2>1. PICK gs, act : gs = s.grants \cup {<<o.owner, o.amount>>} /\ act = Announced(s.active, o.keys)
      BY Zenon
    <2>2. r = [s EXCEPT !.grants = gs] \/ r = [s EXCEPT !.active = act] \/ r = s
      <3>1. CASE o.out = "grant"
        <4>1. r = [s EXCEPT !.grants = gs]
          BY SMTT(30), <1>1, <1>2, <2>1, <3>1 DEF ApplyOutput
        <4> QED
          BY Zenon, <4>1
      <3>2. CASE o.out = "announce"
        <4>1. r = [s EXCEPT !.active = act]
          BY SMTT(30), <1>1, <1>2, <2>1, <3>2 DEF ApplyOutput
        <4> QED
          BY Zenon, <4>1
      <3>3. CASE o.out \in {"pause", "resume"}
        BY SMT, <1>1, <1>2, <3>3 DEF ApplyOutput
      <3> QED
        BY Zenon, <1>5, <3>1, <3>2, <3>3
    <2>3. /\ DOMAIN r = Fields /\ r.coins = s.coins /\ r.proofs = s.proofs /\ r.rings = s.rings
          /\ r.joins = s.joins /\ r.leaves = s.leaves
      BY SMT, <2>2 DEF Fields
    <2> QED
      BY Zenon, <1>1, <1>2, <1>5, <2>3 DEF Effect
  <1>6. CASE o.out = "deletedProof"
    <2>1. PICK ps : ps = Without(s.proofs, {o.owner})
      BY Zenon
    <2>2. r = [s EXCEPT !.proofs = ps]
      BY SMT, <1>1, <1>2, <1>6, <2>1 DEF ApplyOutput
    <2>3. /\ DOMAIN r = Fields /\ r.coins = s.coins /\ r.proofs = ps /\ r.rings = s.rings
          /\ r.joins = s.joins /\ r.leaves = s.leaves
      BY SMT, <2>2 DEF Fields
    <2> QED
      BY Zenon, <1>1, <1>2, <1>6, <2>1, <2>3 DEF Effect
  <1>7. CASE o.out = "join"
    <2>1. PICK act : act = With(s.active, o.prover, SeniorityOf(s.active, o.prover) + 20)
      BY Zenon
    <2>2. PICK js : js = Append(s.joins, o.prover)
      BY Zenon
    <2>3. r = [s EXCEPT !.active = act, !.joins = js]
      BY SMTT(30), <1>1, <1>2, <1>7, <2>1, <2>2 DEF ApplyOutput
    <2>4. /\ DOMAIN r = Fields /\ r.coins = s.coins /\ r.proofs = s.proofs /\ r.rings = s.rings
          /\ r.joins = js /\ r.leaves = s.leaves
      BY SMT, <2>3 DEF Fields
    <2> QED
      BY Zenon, <1>1, <1>2, <1>7, <2>2, <2>4 DEF Effect
  <1>8. CASE o.out = "leave"
    <2>1. PICK ls : ls = Append(s.leaves, o.prover)
      BY Zenon
    <2>2. r = [s EXCEPT !.leaves = ls]
      BY SMTT(30), <1>1, <1>2, <1>8, <2>1 DEF ApplyOutput
    <2>3. /\ DOMAIN r = Fields /\ r.coins = s.coins /\ r.proofs = s.proofs /\ r.rings = s.rings
          /\ r.joins = s.joins /\ r.leaves = ls
      BY SMT, <2>2 DEF Fields
    <2> QED
      BY Zenon, <1>1, <1>2, <1>8, <2>1, <2>3 DEF Effect
  <1>9. CASE o.out = "penalty"
    <2>1. PICK ls : ls = Append(s.leaves, o.owner)
      BY Zenon
    <2>2. PICK act : act = With(s.active, o.owner, Max({SeniorityOf(s.active, o.owner) - 10, 0}))
      BY Zenon
    <2>3. r = Penalised(s, o.owner, number)
      BY SMT, <1>1, <1>2, <1>9 DEF ApplyOutput
    <2>4. \/ r = [s EXCEPT !.active = act, !.leaves = ls]
          \/ r = [s EXCEPT !.active = act, !.leaves = s.leaves]
      BY Zenon, <2>1, <2>2, <2>3 DEF Penalised
    <2>5. /\ DOMAIN r = Fields /\ r.coins = s.coins /\ r.proofs = s.proofs /\ r.rings = s.rings
          /\ r.joins = s.joins /\ r.leaves \in {s.leaves, ls}
      <3>1. ASSUME NEW l, r = [s EXCEPT !.active = act, !.leaves = l]
            PROVE  /\ DOMAIN r = Fields /\ r.coins = s.coins /\ r.proofs = s.proofs
                   /\ r.rings = s.rings /\ r.joins = s.joins /\ r.leaves = l
        BY SMT, <3>1 DEF Fields
      <3> QED
        BY Zenon, <2>4, <3>1
    <2> QED
      BY Zenon, <1>1, <1>2, <1>9, <2>1, <2>5 DEF Effect
  <1>10. CASE o.out = "proof"
    <2>1. PICK v : v = [frame |-> o.frame, parallelism |-> o.parallelism, amount |-> o.amount]
      BY Zenon
    <2>2. v.frame = o.frame
      BY SMT, <2>1
    <2>3. PICK ps : ps = With(s.proofs, o.owner, v)
      BY Zenon
    <2>4. PICK q : q = [s EXCEPT !.proofs = ps]
      BY Zenon
    <2>5. r = Rewarded(q, o, number)
      BY SMTT(30), <1>1, <1>2, <1>10, <2>1, <2>3, <2>4 DEF ApplyOutput
    <2>6. /\ DOMAIN q = Fields /\ q.coins = s.coins /\ q.proofs = ps /\ q.rings = s.rings
          /\ q.joins = s.joins /\ q.leaves = s.leaves
      BY SMT, <2>4 DEF Fields
    <2>7. PICK act : act = With(q.active, o.owner, SeniorityOf(q.active, o.owner) + 10)
      BY Zenon
    <2>8. PICK rs : rs = IF RingsOf(o.owner) = {} THEN q.rings
                         ELSE [q.rings EXCEPT ![Min(RingsOf(o.owner))] =
                                  Add(q.rings[Min(RingsOf(o.owner))], {o.owner}, number)]
      BY Zenon
    <2>9. r = q \/ r = [q EXCEPT !.active = act, !.rings = rs]
      <3>1. CASE o.amount = 0
        BY Zenon, <2>5, <3>1 DEF Rewarded
      <3>2. CASE o.amount # 0
        BY Zenon, <2>5, <2>7, <2>8, <3>2 DEF Rewarded
      <3> QED
        BY Zenon, <3>1, <3>2
    <2>10. /\ DOMAIN r = Fields /\ r.coins = s.coins /\ r.proofs = ps /\ r.rings \in {s.rings, rs}
           /\ r.joins = s.joins /\ r.leaves = s.leaves
      <3>1. CASE r = q
        BY Zenon, <2>6, <3>1
      <3>2. CASE r = [q EXCEPT !.active = act, !.rings = rs]
        <4>1. /\ DOMAIN r = DOMAIN q /\ r.coins = q.coins /\ r.proofs = q.proofs /\ r.rings = rs
              /\ r.joins = q.joins /\ r.leaves = q.leaves
          BY SMT, <2>6, <3>2 DEF Fields
        <4> QED
          BY Zenon, <2>6, <4>1
      <3> QED
        BY Zenon, <2>9, <3>1, <3>2
    <2> QED
      BY Zenon, <1>1, <1>2, <1>10, <2>2, <2>3, <2>6, <2>8, <2>10 DEF Effect
  <1>11. o.out \in {"coin", "deletedCoin", "proof", "grant", "deletedProof", "announce", "join",
               "leave", "pause", "resume", "penalty"}
    BY Zenon, <1>1 DEF IsOutput, OutputKind
  <1> QED
    BY Zenon, <1>3, <1>4, <1>5, <1>6, <1>7, <1>8, <1>9, <1>10, <1>11

\* Min of a set of numbers is its least.
LEMMA MinIsLeast ==
    ASSUME NEW S \in SUBSET Nat, S # {}
    PROVE  Min(S) \in S /\ \A y \in S : Min(S) <= y
  <1>1. PICK k \in S : \A j \in S : ~(<<j, k>> \in OpToRel(<, Nat))
    BY Zenon, NatLessThanWellFounded, WFMin
  <1>2. ASSUME NEW j \in S PROVE k <= j
    <2>1. j \in Nat /\ k \in Nat
      BY Zenon
    <2>2. j < k => <<j, k>> \in OpToRel(<, Nat)
      BY SMT, <2>1 DEF OpToRel
    <2>3. ~(j < k)
      BY Zenon, <1>1, <2>2
    <2> QED
      BY SMT, <2>1, <2>3
  <1>3. \E x \in S : \A y \in S : x <= y
    BY Zenon, <1>2
  <1> QED
    BY Zenon, <1>3 DEF Min

\* The first ring of a prover is one that holds it.
LEMMA FirstRing ==
    ASSUME IsSeq(rings), NEW a, RingsOf(a) # {}
    PROVE  Min(RingsOf(a)) \in 1 .. Len(rings) /\ a \in DOMAIN rings[Min(RingsOf(a))]
  <1>1. RingsOf(a) \in SUBSET Nat
    BY SMT DEF IsSeq, RingsOf
  <1>2. Min(RingsOf(a)) \in RingsOf(a)
    BY Zenon, <1>1, MinIsLeast
  <1>3. DOMAIN rings = 1 .. Len(rings)
    BY Zenon DEF IsSeq
  <1> QED
    BY Zenon, <1>2, <1>3 DEF RingsOf

\* A function with some keys removed.
LEMMA WithoutFacts ==
    ASSUME NEW f, NEW S
    PROVE  /\ DOMAIN Without(f, S) = DOMAIN f \ S
           /\ \A y \in DOMAIN f \ S : Without(f, S)[y] = f[y]
  BY Zenon DEF Without, Restrict

-----------------------------------------------------------------------------
(* The outputs of a frame one after the other.                             *)

\* A coin is as it was, or new in this frame.
CoinsKept(cs, i, number) ==
    \A c \in DOMAIN cs : \/ c \in DOMAIN coins /\ cs[c] = coins[c]
                         \/ \E j \in 1 .. i : c = <<number, j>>

\* A proof is as it was or about a later frame, and none is missing but one that
\* has just been deleted.
ProofsKept(ps, i, outs) ==
    /\ \A a \in DOMAIN ps :
          \/ a \in DOMAIN proofs /\ ps[a] = proofs[a]
          \/ ps[a].frame \in Nat /\ (a \in DOMAIN proofs => ps[a].frame > proofs[a].frame)
    /\ \A a \in DOMAIN proofs :
          a \in DOMAIN ps \/ (i > 0 /\ outs[i].out = "deletedProof" /\ outs[i].owner = a)

\* The rings hold who they held; a reward notes the number of the frame.
RingsKept(rs, number) ==
    /\ IsSeq(rs) /\ Len(rs) = Len(rings)
    /\ \A r \in 1 .. Len(rings) :
          /\ DOMAIN rs[r] = DOMAIN rings[r]
          /\ \A a \in DOMAIN rings[r] : rs[r][a] \in {rings[r][a], number}

\* The provers that join are those of the outputs, each once.
Joining(joins, i, outs) ==
    /\ IsSeq(joins)
    /\ \A k \in 1 .. Len(joins) :
          \E p \in 1 .. i : outs[p].out = "join" /\ joins[k] = outs[p].prover
    /\ \A k, l \in 1 .. Len(joins) : joins[k] = joins[l] => k = l

\* Who asked to leave or was penalised.
Gone(outs, i) ==
    {a \in Account : \E p \in 1 .. i : \/ outs[p].out = "leave" /\ outs[p].prover = a
                                       \/ outs[p].out = "penalty" /\ outs[p].owner = a}

\* Those that leave asked to or were penalised.
Leaving(leaves, i, outs) ==
    IsSeq(leaves) /\ \A k \in 1 .. Len(leaves) : leaves[k] \in Gone(outs, i)

\* What holds after i outputs.
Applied(s, i, outs, number) ==
    /\ DOMAIN s = Fields
    /\ CoinsKept(s.coins, i, number)
    /\ ProofsKept(s.proofs, i, outs)
    /\ RingsKept(s.rings, number)
    /\ Joining(s.joins, i, outs)
    /\ Leaving(s.leaves, i, outs)

\* An output keeps the coins as CoinsKept says.
LEMMA CoinsStep ==
    ASSUME NEW s, NEW r, NEW outs, NEW number, NEW i \in Nat,
           Effect(s, r, i + 1, outs[i + 1], number), CoinsKept(s.coins, i, number)
    PROVE  CoinsKept(r.coins, i + 1, number)
  <1>1. \/ r.coins = s.coins
        \/ \E v : r.coins = With(s.coins, <<number, i + 1>>, v)
        \/ \E c : r.coins = Without(s.coins, {c})
    BY Zenon DEF Effect, CoinAddress
  <1>2. PICK cs : cs = s.coins
    BY Zenon
  <1>3. \A c \in DOMAIN cs : \/ c \in DOMAIN coins /\ cs[c] = coins[c]
                             \/ \E j \in 1 .. i + 1 : c = <<number, j>>
    <2>1. \A j \in 1 .. i : j \in 1 .. i + 1
      BY SMT
    <2> QED
      BY Zenon, <1>2, <2>1 DEF CoinsKept
  <1>4. CASE r.coins = cs
    BY Zenon, <1>3, <1>4 DEF CoinsKept
  <1>5. ASSUME NEW v, r.coins = With(cs, <<number, i + 1>>, v) PROVE CoinsKept(r.coins, i + 1, number)
    <2>1. PICK x : x = <<number, i + 1>>
      BY Zenon
    <2>2. i + 1 \in 1 .. i + 1
      BY SMT
    <2>3. DOMAIN r.coins = DOMAIN cs \cup {x} /\ \A y \in DOMAIN cs : y # x => r.coins[y] = cs[y]
      <3>1. /\ DOMAIN With(cs, x, v) = DOMAIN cs \cup {x}
            /\ \A y \in DOMAIN cs : y # x => With(cs, x, v)[y] = cs[y]
        BY Zenon DEF With
      <3>2. r.coins = With(cs, x, v)
        BY Zenon, <1>5, <2>1
      <3> QED
        BY Zenon, <3>1, <3>2
    <2>4. ASSUME NEW c \in DOMAIN r.coins
          PROVE  \/ c \in DOMAIN coins /\ r.coins[c] = coins[c]
                 \/ \E j \in 1 .. i + 1 : c = <<number, j>>
      <3>1. CASE c = x
        BY Zenon, <2>1, <2>2, <3>1
      <3>2. CASE c # x
        <4>1. c \in DOMAIN cs /\ r.coins[c] = cs[c]
          BY Zenon, <2>3, <3>2
        <4> QED
          BY Zenon, <1>3, <4>1
      <3> QED
        BY Zenon, <3>1, <3>2
    <2> QED
      BY Zenon, <2>4 DEF CoinsKept
  <1>6. ASSUME NEW c, r.coins = Without(cs, {c}) PROVE CoinsKept(r.coins, i + 1, number)
    <2>1. DOMAIN r.coins = DOMAIN cs \ {c} /\ \A y \in DOMAIN cs \ {c} : r.coins[y] = cs[y]
      <3>1. /\ DOMAIN Without(cs, {c}) = DOMAIN cs \ {c}
            /\ \A y \in DOMAIN cs \ {c} : Without(cs, {c})[y] = cs[y]
        BY Zenon, WithoutFacts
      <3> QED
        BY Zenon, <1>6, <3>1
    <2>2. ASSUME NEW d \in DOMAIN r.coins
          PROVE  \/ d \in DOMAIN coins /\ r.coins[d] = coins[d]
                 \/ \E j \in 1 .. i + 1 : d = <<number, j>>
      <3>1. d \in DOMAIN cs /\ r.coins[d] = cs[d]
        BY Zenon, <2>1
      <3> QED
        BY Zenon, <1>3, <3>1
    <2> QED
      BY Zenon, <2>2 DEF CoinsKept
  <1> QED
    BY Zenon, <1>1, <1>2, <1>4, <1>5, <1>6

\* An output keeps the proofs as ProofsKept says.
LEMMA ProofsStep ==
    ASSUME NEW s, NEW r, NEW outs, NEW number, NEW i \in Nat, i + 1 \in 1 .. Len(outs), Made(outs),
           Effect(s, r, i + 1, outs[i + 1], number), ProofsKept(s.proofs, i, outs)
    PROVE  ProofsKept(r.proofs, i + 1, outs)
  <1>1. PICK o : o = outs[i + 1]
    BY Zenon
  <1>2. IsOutput(o)
    BY Zenon, <1>1 DEF Made
  <1>3. PICK ps : ps = s.proofs
    BY Zenon
  <1>4. /\ o.out = "proof" => \E v : v.frame = o.frame /\ r.proofs = With(ps, o.owner, v)
        /\ o.out = "deletedProof" => r.proofs = Without(ps, {o.owner})
        /\ o.out \notin {"proof", "deletedProof"} => r.proofs = ps
    BY Zenon, <1>1, <1>3 DEF Effect
  <1>5. /\ \A a \in DOMAIN ps :
              \/ a \in DOMAIN proofs /\ ps[a] = proofs[a]
              \/ ps[a].frame \in Nat /\ (a \in DOMAIN proofs => ps[a].frame > proofs[a].frame)
        /\ \A a \in DOMAIN proofs :
              a \in DOMAIN ps \/ (i > 0 /\ outs[i].out = "deletedProof" /\ outs[i].owner = a)
    BY Zenon, <1>3 DEF ProofsKept
  <1>6. ASSUME i > 0, outs[i].out = "deletedProof" PROVE o.out = "proof" /\ o.owner = outs[i].owner
    <2>1. i \in 1 .. Len(outs)
      <3>1. Len(outs) \in Nat
        BY Zenon DEF Made, IsSeq
      <3> QED
        BY SMT, <1>6, <3>1
    <2> QED
      BY Zenon, <1>1, <1>6, <2>1 DEF Made
  <1>7. i + 1 > 0
    BY SMT
  <1>8. CASE o.out = "proof"
    <2>1. PICK v : v.frame = o.frame /\ r.proofs = With(ps, o.owner, v)
      BY Zenon, <1>4, <1>8
    <2>2. PICK a : a = o.owner
      BY Zenon
    <2>3. /\ DOMAIN r.proofs = DOMAIN ps \cup {a} /\ r.proofs[a] = v
          /\ \A y \in DOMAIN ps : y # a => r.proofs[y] = ps[y]
      <3>1. /\ DOMAIN With(ps, a, v) = DOMAIN ps \cup {a} /\ With(ps, a, v)[a] = v
            /\ \A y \in DOMAIN ps : y # a => With(ps, a, v)[y] = ps[y]
        BY Zenon DEF With
      <3>2. r.proofs = With(ps, a, v)
        BY Zenon, <2>1, <2>2
      <3> QED
        BY Zenon, <3>1, <3>2
    <2>4. v.frame \in Nat /\ (a \in DOMAIN proofs => v.frame > proofs[a].frame)
      BY Zenon, <1>2, <1>8, <2>1, <2>2 DEF IsOutput
    <2>5. ASSUME NEW y \in DOMAIN r.proofs
          PROVE  \/ y \in DOMAIN proofs /\ r.proofs[y] = proofs[y]
                 \/ r.proofs[y].frame \in Nat /\ (y \in DOMAIN proofs => r.proofs[y].frame > proofs[y].frame)
      <3>1. CASE y = a
        BY Zenon, <2>3, <2>4, <3>1
      <3>2. CASE y # a
        <4>1. y \in DOMAIN ps /\ r.proofs[y] = ps[y]
          BY Zenon, <2>3, <3>2
        <4> QED
          BY Zenon, <1>5, <4>1
      <3> QED
        BY Zenon, <3>1, <3>2
    <2>6. \A y \in DOMAIN proofs : y \in DOMAIN r.proofs
      BY Zenon, <1>5, <1>6, <2>2, <2>3
    <2> QED
      BY Zenon, <2>5, <2>6 DEF ProofsKept
  <1>9. CASE o.out = "deletedProof"
    <2>1. /\ DOMAIN r.proofs = DOMAIN ps \ {o.owner}
          /\ \A y \in DOMAIN ps \ {o.owner} : r.proofs[y] = ps[y]
      <3>1. /\ DOMAIN Without(ps, {o.owner}) = DOMAIN ps \ {o.owner}
            /\ \A y \in DOMAIN ps \ {o.owner} : Without(ps, {o.owner})[y] = ps[y]
        BY Zenon, WithoutFacts
      <3>2. r.proofs = Without(ps, {o.owner})
        BY Zenon, <1>4, <1>9
      <3> QED
        BY Zenon, <3>1, <3>2
    <2>2. \A y \in DOMAIN proofs : y \in DOMAIN ps
      <3>1. o.out # "proof"
        BY SMTT(30), <1>9
      <3> QED
        BY Zenon, <1>5, <1>6, <3>1
    <2>3. ASSUME NEW y \in DOMAIN r.proofs
          PROVE  \/ y \in DOMAIN proofs /\ r.proofs[y] = proofs[y]
                 \/ r.proofs[y].frame \in Nat /\ (y \in DOMAIN proofs => r.proofs[y].frame > proofs[y].frame)
      <3>1. y \in DOMAIN ps /\ r.proofs[y] = ps[y]
        BY Zenon, <2>1
      <3> QED
        BY Zenon, <1>5, <3>1
    <2>4. \A y \in DOMAIN proofs : y \in DOMAIN r.proofs \/ y = o.owner
      BY Zenon, <2>1, <2>2
    <2> QED
      BY Zenon, <1>1, <1>7, <1>9, <2>3, <2>4 DEF ProofsKept
  <1>10. CASE o.out \notin {"proof", "deletedProof"}
    <2>1. r.proofs = ps /\ \A y \in DOMAIN proofs : y \in DOMAIN ps
      <3>1. o.out # "proof"
        BY SMT, <1>10
      <3> QED
        BY Zenon, <1>4, <1>5, <1>6, <1>10, <3>1
    <2> QED
      BY Zenon, <1>5, <2>1 DEF ProofsKept
  <1> QED
    BY Zenon, <1>8, <1>9, <1>10

\* An output keeps the rings as RingsKept says.
LEMMA RingsStep ==
    ASSUME NEW s, NEW r, NEW i, NEW o, NEW number, IsSeq(rings),
           Effect(s, r, i, o, number), RingsKept(s.rings, number)
    PROVE  RingsKept(r.rings, number)
  <1>1. PICK rs : rs = s.rings
    BY Zenon
  <1>2. PICK m : m = Min(RingsOf(o.owner))
    BY Zenon
  <1>3. PICK a : a = o.owner
    BY Zenon
  <1>4. \/ r.rings = rs
        \/ RingsOf(a) # {} /\ r.rings = [rs EXCEPT ![m] = Add(rs[m], {a}, number)]
    BY Zenon, <1>1, <1>2, <1>3 DEF Effect
  <1>5. CASE r.rings = rs
    BY Zenon, <1>1, <1>5
  <1>6. CASE RingsOf(a) # {} /\ r.rings = [rs EXCEPT ![m] = Add(rs[m], {a}, number)]
    <2>1. m \in 1 .. Len(rings) /\ a \in DOMAIN rings[m]
      BY Zenon, <1>2, <1>3, <1>6, FirstRing
    <2>2. /\ Len(rs) = Len(rings) /\ Len(rs) \in Nat /\ rs = [x \in 1 .. Len(rs) |-> rs[x]]
          /\ \A x \in 1 .. Len(rings) :
                /\ DOMAIN rs[x] = DOMAIN rings[x]
                /\ \A y \in DOMAIN rings[x] : rs[x][y] \in {rings[x][y], number}
      BY Zenon, <1>1 DEF RingsKept, IsSeq
    <2>3. PICK ring : ring = Add(rs[m], {a}, number)
      BY Zenon
    <2>4. /\ DOMAIN ring = DOMAIN rs[m] \cup {a} /\ ring[a] = number
          /\ \A y \in DOMAIN rs[m] \ {a} : ring[y] = rs[m][y]
      BY Zenon, <2>3 DEF Add
    <2>5. /\ DOMAIN ring = DOMAIN rings[m]
          /\ \A y \in DOMAIN rings[m] : ring[y] \in {rings[m][y], number}
      BY Zenon, <2>1, <2>2, <2>4
    <2>6. PICK q : q = [rs EXCEPT ![m] = ring] /\ q = r.rings
      BY Zenon, <1>6, <2>3
    <2>7. DOMAIN q = 1 .. Len(rs) /\ q[m] = ring /\ \A x \in 1 .. Len(rs) : x # m => q[x] = rs[x]
      <3>1. DOMAIN rs = 1 .. Len(rs)
        BY Zenon, <2>2
      <3> QED
        BY Zenon, <2>1, <2>2, <2>6, <3>1
    <2>8. IsSeq(q) /\ Len(q) = Len(rs)
      <3>1. Len(q) = Len(rs)
        BY SMTT(30), <2>2, <2>7
      <3>2. q = [x \in 1 .. Len(rs) |-> q[x]]
        BY Zenon, <2>2, <2>6, <2>7
      <3> QED
        BY Zenon, <2>2, <3>1, <3>2 DEF IsSeq
    <2>9. \A x \in 1 .. Len(rings) :
              /\ DOMAIN q[x] = DOMAIN rings[x]
              /\ \A y \in DOMAIN rings[x] : q[x][y] \in {rings[x][y], number}
      BY Zenon, <2>2, <2>5, <2>7
    <2> QED
      BY Zenon, <2>2, <2>6, <2>8, <2>9 DEF RingsKept
  <1> QED
    BY Zenon, <1>4, <1>5, <1>6

\* An output adds at most one prover that joins, and no prover a second time.
LEMMA JoinsStep ==
    ASSUME NEW s, NEW r, NEW outs, NEW number, NEW i \in Nat, i + 1 \in 1 .. Len(outs), WellMade(outs),
           Effect(s, r, i + 1, outs[i + 1], number), Joining(s.joins, i, outs)
    PROVE  Joining(r.joins, i + 1, outs)
  <1>1. PICK o : o = outs[i + 1]
    BY Zenon
  <1>2. PICK js : js = s.joins
    BY Zenon
  <1>3. r.joins = IF o.out = "join" THEN Append(js, o.prover) ELSE js
    BY Zenon, <1>1, <1>2 DEF Effect
  <1>4. /\ IsSeq(js)
        /\ \A k \in 1 .. Len(js) :
              \E p \in 1 .. i : outs[p].out = "join" /\ js[k] = outs[p].prover
        /\ \A k, l \in 1 .. Len(js) : js[k] = js[l] => k = l
    BY Zenon, <1>2 DEF Joining
  <1>5. \A p \in 1 .. i : p \in 1 .. i + 1 /\ p # i + 1 /\ p \in 1 .. Len(outs)
    <2>1. Len(outs) \in Nat
      BY Zenon DEF WellMade, Made, IsSeq
    <2> QED
      BY SMT, <2>1
  <1>6. CASE o.out # "join"
    <2>1. ASSUME NEW k \in 1 .. Len(js)
          PROVE  \E p \in 1 .. i + 1 : outs[p].out = "join" /\ js[k] = outs[p].prover
      <3>1. PICK p \in 1 .. i : outs[p].out = "join" /\ js[k] = outs[p].prover
        BY Zenon, <1>4
      <3> QED
        BY Zenon, <1>5, <3>1
    <2>2. Joining(js, i + 1, outs)
      BY Zenon, <1>4, <2>1 DEF Joining
    <2> QED
      BY Zenon, <1>3, <1>6, <2>2
  <1>7. CASE o.out = "join"
    <2>1. PICK t : t = Append(js, o.prover) /\ t = r.joins
      BY Zenon, <1>3, <1>7
    <2>2. PICK n \in Nat : n = Len(js)
      BY Zenon, <1>4 DEF IsSeq
    <2>3. /\ IsSeq(t) /\ Len(t) = n + 1
          /\ \A k \in 1 .. n + 1 : t[k] = IF k <= n THEN js[k] ELSE o.prover
      <3>0. PICK e : e = o.prover
        BY Zenon
      <3>1. /\ IsSeq(Append(js, e)) /\ Len(Append(js, e)) = Len(js) + 1
            /\ \A k \in 1 .. Len(js) + 1 : Append(js, e)[k] = IF k <= Len(js) THEN js[k] ELSE e
        BY ZenonT(60), <1>4, AppendIsSeq
      <3> QED
        BY Zenon, <2>1, <2>2, <3>0, <3>1
    <2>4. /\ \A k \in 1 .. n : t[k] = js[k] /\ k \in 1 .. n + 1
          /\ t[n + 1] = o.prover
          /\ \A k \in 1 .. n + 1 : k \in 1 .. n \/ k = n + 1
          /\ i + 1 \in 1 .. i + 1
      BY SMT, <2>3
    <2>5. ASSUME NEW k \in 1 .. n PROVE t[k] # o.prover
      <3>1. PICK p \in 1 .. i : outs[p].out = "join" /\ js[k] = outs[p].prover
        BY Zenon, <1>4, <2>2
      <3>2. outs[p].prover # outs[i + 1].prover
        BY Zenon, <1>1, <1>5, <1>7, <3>1 DEF WellMade
      <3> QED
        BY Zenon, <1>1, <2>4, <3>1, <3>2
    <2>6. \A k \in 1 .. n + 1 : \E p \in 1 .. i + 1 : outs[p].out = "join" /\ t[k] = outs[p].prover
      <3>1. \A k \in 1 .. n : \E p \in 1 .. i + 1 : outs[p].out = "join" /\ t[k] = outs[p].prover
        <4> SUFFICES ASSUME NEW k \in 1 .. n
                     PROVE  \E p \in 1 .. i + 1 : outs[p].out = "join" /\ t[k] = outs[p].prover
          BY SMTT(30)
        <4>1. PICK p \in 1 .. i : outs[p].out = "join" /\ js[k] = outs[p].prover
          BY Zenon, <1>4, <2>2
        <4> QED
          BY Zenon, <1>5, <2>4, <4>1
      <3>2. \E p \in 1 .. i + 1 : outs[p].out = "join" /\ t[n + 1] = outs[p].prover
        BY Zenon, <1>1, <1>7, <2>4
      <3> QED
        BY Zenon, <2>4, <3>1, <3>2
    <2>7. \A k, l \in 1 .. n + 1 : t[k] = t[l] => k = l
      <3> SUFFICES ASSUME NEW k \in 1 .. n + 1, NEW l \in 1 .. n + 1, t[k] = t[l] PROVE k = l
        OBVIOUS
      <3>1. CASE k \in 1 .. n /\ l \in 1 .. n
        BY Zenon, <1>4, <2>2, <2>4, <3>1
      <3>2. CASE k \notin 1 .. n \/ l \notin 1 .. n
        BY Zenon, <2>4, <2>5, <3>2
      <3> QED
        BY Zenon, <3>1, <3>2
    <2>8. Joining(t, i + 1, outs)
      BY Zenon, <2>3, <2>6, <2>7 DEF Joining
    <2> QED
      BY Zenon, <2>1, <2>8
  <1> QED
    BY Zenon, <1>6, <1>7

\* An output adds at most one prover that leaves, for a reason.
LEMMA LeavesStep ==
    ASSUME NEW s, NEW r, NEW outs, NEW number, NEW i \in Nat, IsOutput(outs[i + 1]),
           Effect(s, r, i + 1, outs[i + 1], number), Leaving(s.leaves, i, outs)
    PROVE  Leaving(r.leaves, i + 1, outs)
  <1>1. PICK o : o = outs[i + 1]
    BY Zenon
  <1>2. PICK ls : ls = s.leaves
    BY Zenon
  <1>3. PICK G : G = Gone(outs, i + 1)
    BY Zenon
  <1>4. IsSeq(ls) /\ \A k \in 1 .. Len(ls) : ls[k] \in G
    <2>1. Gone(outs, i) \subseteq G
      <3>1. \A p \in 1 .. i : p \in 1 .. i + 1
        BY SMT
      <3> QED
        BY Zenon, <1>3, <3>1 DEF Gone
    <2> QED
      BY Zenon, <1>2, <2>1 DEF Leaving
  <1>5. \/ r.leaves = ls
        \/ o.out = "leave" /\ r.leaves = Append(ls, o.prover)
        \/ o.out = "penalty" /\ r.leaves = Append(ls, o.owner)
    BY Zenon, <1>1, <1>2 DEF Effect
  <1>6. (o.out = "leave" => o.prover \in G) /\ (o.out = "penalty" => o.owner \in G)
    <2>1. i + 1 \in 1 .. i + 1
      BY SMT
    <2>2. (o.out = "leave" => o.prover \in Account) /\ (o.out = "penalty" => o.owner \in Account)
      BY Zenon, <1>1 DEF IsOutput
    <2> QED
      BY Zenon, <1>1, <1>3, <2>1, <2>2 DEF Gone
  <1>7. ASSUME NEW a \in G, r.leaves = Append(ls, a) PROVE Leaving(r.leaves, i + 1, outs)
    <2>1. PICK t : t = Append(ls, a)
      BY Zenon
    <2>2. /\ IsSeq(Append(ls, a)) /\ Len(Append(ls, a)) = Len(ls) + 1 /\ Len(ls) \in Nat
          /\ \A k \in 1 .. Len(ls) + 1 : Append(ls, a)[k] = IF k <= Len(ls) THEN ls[k] ELSE a
      BY Zenon, <1>4, AppendIsSeq
    <2>3. /\ IsSeq(t) /\ Len(t) = Len(ls) + 1 /\ Len(ls) \in Nat
          /\ \A k \in 1 .. Len(ls) + 1 : t[k] = IF k <= Len(ls) THEN ls[k] ELSE a
      BY Zenon, <2>1, <2>2
    <2>4. \A k \in 1 .. Len(t) : t[k] \in G
      BY SMT, <1>4, <2>3
    <2> QED
      BY Zenon, <1>3, <1>7, <2>1, <2>3, <2>4 DEF Leaving
  <1>8. CASE r.leaves = ls
    BY Zenon, <1>3, <1>4, <1>8 DEF Leaving
  <1> QED
    BY Zenon, <1>5, <1>6, <1>7, <1>8

\* What ProcessFrame starts from.
Start == [ok |-> TRUE, coins |-> coins, proofs |-> proofs, grants |-> grants,
          rings |-> rings, active |-> seniority, joins |-> <<>>, leaves |-> <<>>]

\* f is the recursive function of ProcessFrame, cut off at n.
Applying(outs, number, n, f) ==
    f = [i \in 0 .. n |-> IF i = 0 THEN Start ELSE ApplyOutput(f[i - 1], i, outs, number)]

\* ProcessFrame after the outputs have been applied.
Finished(s, number) ==
    [s EXCEPT !.rings = ProcessJoinsAndLeaves(s.rings, Sorted(s.active, s.joins),
                                              Sorted(s.active, s.leaves), number)]

\* ProcessFrame is its last value, with the rings changed by joins and leaves.
LEMMA ProcessFrameDef ==
    ASSUME NEW f
    PROVE  ProcessFrame(f)
             = Finished((CHOOSE g : Applying(f.outputs, f.number, Len(f.outputs), g))[Len(f.outputs)],
                        f.number)
  BY DEF ProcessFrame, Applying, Start, Finished

\* There is such a function.
LEMMA ApplyingExists ==
    ASSUME NEW outs, NEW number, NEW n \in Nat
    PROVE  \E f : Applying(outs, number, n, f)
  <1> DEFINE S == {m \in Nat : \E f : Applying(outs, number, m, f)}
  <1>1. 0 \in S
    <2>1. Applying(outs, number, 0, [k \in 0 .. 0 |-> Start])
      BY SMT DEF Applying
    <2> QED
      BY <2>1
  <1>2. ASSUME NEW m \in Nat, m \in S PROVE m + 1 \in S
    <2>1. PICK f : Applying(outs, number, m, f)
      BY <1>2
    <2> DEFINE g == [k \in 0 .. m + 1 |-> IF k = m + 1 THEN ApplyOutput(f[m], k, outs, number) ELSE f[k]]
    <2>2. Applying(outs, number, m + 1, g)
      BY SMTT(30), <2>1 DEF Applying
    <2>3. m + 1 \in Nat
      OBVIOUS
    <2> HIDE DEF g
    <2> QED
      BY Zenon, <2>2, <2>3
  <1>3. \A k \in Nat : k \in S
    <2> HIDE DEF S
    <2> QED
      BY Zenon, <1>1, <1>2, Induction
  <1> QED
    BY Zenon, <1>3

\* The outputs applied one after the other.
LEMMA OutputsApplied ==
    ASSUME NEW f, WellMade(f.outputs), IsSeq(rings)
    PROVE  \E s : Applied(s, Len(f.outputs), f.outputs, f.number) /\ ProcessFrame(f) = Finished(s, f.number)
  <1>1. PICK outs : outs = f.outputs
    BY Zenon
  <1>2. PICK number : number = f.number
    BY Zenon
  <1>3. PICK n \in Nat : n = Len(outs)
    BY Zenon, <1>1 DEF WellMade, Made, IsSeq
  <1>4. PICK g : Applying(outs, number, n, g) /\ ProcessFrame(f) = Finished(g[n], number)
    BY Zenon, <1>1, <1>2, <1>3, ProcessFrameDef, ApplyingExists
  <1>5. g[0] = Start /\ \A i \in 1 .. n : g[i] = ApplyOutput(g[i - 1], i, outs, number)
    BY SMT, <1>4 DEF Applying
  <1>6. Applied(Start, 0, outs, number)
    <2>1. PICK s : s = Start
      BY Zenon
    <2>2. /\ DOMAIN s = Fields /\ s.coins = coins /\ s.proofs = proofs /\ s.rings = rings
          /\ s.joins = <<>> /\ s.leaves = <<>>
      BY SMT, <2>1 DEF Start, Fields
    <2>3. Joining(<<>>, 0, outs) /\ Leaving(<<>>, 0, outs)
      BY Zenon, NoOutputs DEF Joining, Leaving
    <2>4. CoinsKept(coins, 0, number) /\ ProofsKept(proofs, 0, outs) /\ RingsKept(rings, number)
      BY Zenon DEF CoinsKept, ProofsKept, RingsKept
    <2> QED
      BY Zenon, <2>1, <2>2, <2>3, <2>4 DEF Applied
  <1> DEFINE S == {i \in 0 .. n : Applied(g[i], i, outs, number)}
  <1>7. 0 \in S
    <2>1. 0 \in 0 .. n
      BY SMT
    <2> QED
      BY Zenon, <1>5, <1>6, <2>1
  <1>8. ASSUME NEW i \in 0 .. n - 1, i \in S PROVE i + 1 \in S
    <2>1. i \in Nat /\ i + 1 \in 1 .. n /\ (i + 1) - 1 = i /\ i + 1 \in 0 .. n
      BY SMT
    <2>2. PICK s, r : s = g[i] /\ r = g[i + 1]
      BY Zenon
    <2>3. Applied(s, i, outs, number)
      BY Zenon, <1>8, <2>2
    <2>4. r = ApplyOutput(s, i + 1, outs, number)
      BY Zenon, <1>5, <2>1, <2>2
    <2>5. WellMade(outs) /\ Made(outs) /\ IsOutput(outs[i + 1]) /\ i + 1 \in 1 .. Len(outs)
      BY ZenonT(60), <1>1, <1>3, <2>1 DEF WellMade, Made
    <2>6. Effect(s, r, i + 1, outs[i + 1], number)
      BY Zenon, <2>3, <2>4, <2>5, OutputEffect DEF Applied
    <2>7. /\ CoinsKept(s.coins, i, number) /\ ProofsKept(s.proofs, i, outs)
          /\ RingsKept(s.rings, number)
          /\ Joining(s.joins, i, outs) /\ Leaving(s.leaves, i, outs)
      BY Zenon, <2>3 DEF Applied
    <2>8. CoinsKept(r.coins, i + 1, number)
      BY Zenon, <2>1, <2>6, <2>7, CoinsStep
    <2>9. ProofsKept(r.proofs, i + 1, outs)
      BY Zenon, <2>1, <2>5, <2>6, <2>7, ProofsStep
    <2>10. RingsKept(r.rings, number)
      BY Zenon, <2>6, <2>7, RingsStep
    <2>11. Joining(r.joins, i + 1, outs)
      BY Zenon, <2>1, <2>5, <2>6, <2>7, JoinsStep
    <2>12. Leaving(r.leaves, i + 1, outs)
      BY Zenon, <2>1, <2>5, <2>6, <2>7, LeavesStep
    <2>13. DOMAIN r = Fields
      BY Zenon, <2>6 DEF Effect
    <2>14. Applied(r, i + 1, outs, number)
      BY ZenonT(60), <2>8, <2>9, <2>10, <2>11, <2>12, <2>13 DEF Applied
    <2> QED
      BY Zenon, <2>1, <2>2, <2>14
  <1>9. \A i \in 0 .. n : i \in S
    <2> HIDE DEF S
    <2> QED
      BY Zenon, <1>7, <1>8, InductionTo
  <1>10. n \in 0 .. n
    BY SMT
  <1> QED
    BY Zenon, <1>1, <1>2, <1>3, <1>4, <1>9, <1>10

\* At picks elements at the positions.
Picked(seq, positions, s) ==
    /\ IsSeq(s)
    /\ \A p \in 1 .. Len(s) : \E i \in 1 .. Len(seq) : i \in positions /\ s[p] = seq[i]

\* At picks elements at the positions and nothing else.
LEMMA AtPicks ==
    ASSUME NEW seq, IsSeq(seq), NEW positions PROVE Picked(seq, positions, At(seq, positions))
  <1>1. PICK n \in Nat : n = Len(seq) /\ DOMAIN seq = 1 .. n
    BY Zenon DEF IsSeq
  <1> DEFINE seqs == [i \in DOMAIN seq |-> IF i \in positions THEN <<seq[i]>> ELSE <<>>]
  <1>2. PICK ss : ss = seqs
    BY Zenon
  <1>3. ss = [i \in 1 .. n |-> IF i \in positions THEN <<seq[i]>> ELSE <<>>]
    BY Zenon, <1>1, <1>2
  <1>4. Len(ss) = n
    BY SMT, <1>3
  <1>5. ASSUME NEW i \in 1 .. n
        PROVE  /\ IsSeq(ss[i])
               /\ \A k \in 1 .. Len(ss[i]) : i \in positions /\ ss[i][k] = seq[i]
    <2>1. CASE i \in positions
      <3>1. ss[i] = <<seq[i]>>
        BY Zenon, <1>3, <2>1
      <3>2. PICK x : x = seq[i]
        BY Zenon
      <3>3. Len(<<x>>) = 1 /\ <<x>> = [k \in 1 .. 1 |-> <<x>>[k]] /\ \A k \in 1 .. 1 : <<x>>[k] = x
        BY SMT
      <3>4. 1 \in Nat
        OBVIOUS
      <3> QED
        BY Zenon, <2>1, <3>1, <3>2, <3>3, <3>4 DEF IsSeq
    <2>2. CASE i \notin positions
      <3>1. ss[i] = <<>>
        BY Zenon, <1>3, <2>2
      <3>2. Len(<<>>) = 0 /\ <<>> = [k \in 1 .. 0 |-> <<>>[k]] /\ ~\E k : k \in 1 .. 0
        BY SMT
      <3>3. 0 \in Nat
        OBVIOUS
      <3> QED
        BY Zenon, <3>1, <3>2, <3>3 DEF IsSeq
    <2> QED
      BY Zenon, <2>1, <2>2
  <1>6. PICK s : s = Flatten(ss)
    BY Zenon
  <1>7. s = At(seq, positions)
    BY Zenon, <1>2, <1>6 DEF At
  <1>8. /\ IsSeq(Flatten(ss))
        /\ \E off \in [0 .. Len(ss) -> Nat] : Places(ss, Len(ss), Flatten(ss), off)
    <2>1. \A i \in 1 .. Len(ss) : IsSeq(ss[i])
      BY Zenon, <1>4, <1>5
    <2>2. Len(ss) \in Nat
      BY Zenon, <1>4
    <2> QED
      BY Zenon, <2>1, <2>2, FlattenPlaces
  <1>9. PICK off \in [0 .. n -> Nat] : Places(ss, n, s, off)
    BY Zenon, <1>4, <1>6, <1>8
  <1>10. ASSUME NEW p \in 1 .. Len(s) PROVE \E i \in 1 .. n : i \in positions /\ s[p] = seq[i]
    <2>1. PICK i \in 1 .. n : \E k \in 1 .. Len(ss[i]) : p = off[i - 1] + k
      BY Zenon, <1>9 DEF Places
    <2>2. PICK k \in 1 .. Len(ss[i]) : p = off[i - 1] + k
      BY Zenon, <2>1
    <2>3. s[p] = ss[i][k]
      BY Zenon, <1>9, <2>2 DEF Places
    <2> QED
      BY Zenon, <1>5, <2>3
  <1> QED
    BY Zenon, <1>1, <1>6, <1>7, <1>8, <1>10 DEF Picked

-----------------------------------------------------------------------------
(* The requests of a frame.                                                *)

\* A function on 1 .. n is a sequence.
LEMMA SeqFromFunction ==
    ASSUME NEW n \in Nat, NEW S, NEW T, S \subseteq T, NEW f \in [1 .. n -> S] PROVE f \in Seq(T)
  <1>1. f \in [1 .. n -> T]
    BY Zenon
  <1> QED
    BY SMTT(30), <1>1

\* What accounts ask for is among the requests that are ever made.
LEMMA RequestAsked ==
    ASSUME workload \in Workloads, height \in Nat, DOMAIN coins \subseteq Address, NEW t \in Request
    PROVE  t \in Asked
  <1> DEFINE by == workload.accounts
             amount == workload.amounts
             quality == workload.qualities
             parallelism == workload.parallelism
             address == DOMAIN coins \cup DOMAIN GenesisCoins
             around == {n \in {height - 1, height, height + 1} : n >= 0}
             due == {height, height + 2}
  <1>1. /\ by \subseteq Account /\ amount \subseteq Nat /\ quality \subseteq Quality
        /\ parallelism \subseteq Nat
    BY Zenon, WindowAssumption DEF IsWorkload
  <1>2. address \subseteq Address
    <2>1. DOMAIN GenesisCoins \subseteq Address
      BY SMT, GenesisAssumption DEF Address
    <2> QED
      BY Zenon, <2>1
  <1>3. around \subseteq Nat /\ due \subseteq Nat
    BY SMTT(60)
  <1>4. Request = UNION {
            Ofs("transfer", [kind : {"transfer"}, signer : by, coin : address, to : by]),
            Ofs("split", [kind : {"split"}, signer : by, coin : address,
                  amounts : [1 .. 2 -> amount] \cup [1 .. 1 -> amount]]),
            Ofs("merge", [kind : {"merge"}, signer : by, coins : [1 .. 2 -> address]]),
            Ofs("grant", [kind : {"grant"}, signer : by, to : by, amount : amount]),
            Ofs("mint", [kind : {"mint"}, signer : by, frame : around,
                  parallelism : parallelism, proofs : quality]),
            Ofs("announce", [kind : {"announce"}, keys : [1 .. 1 -> by] \cup [1 .. 2 -> by]]),
            Ofs("join", [kind : {"join"}, signer : by, frame : {height}, announce : {<<>>}]),
            Ofs("joinAs", {q \in [kind : {"join"}, signer : by, frame : due, announce : [1 .. 2 -> by]] :
                 q.signer = q.announce[1]}),
            Ofs("leave", [kind : {"leave"}, signer : by, frame : {height}]),
            Ofs("pause", [kind : {"pause"}, signer : by, frame : due]),
            Ofs("resume", [kind : {"resume"}, signer : by, frame : {height}])}
    BY DEF Request
  <1>5. \A kind, set : Ofs(kind, set) \subseteq set
    BY Zenon DEF Ofs
  <1> HIDE DEF by, amount, quality, parallelism, address, around, due
  <1>6. \/ t \in Ofs("transfer", [kind : {"transfer"}, signer : by, coin : address, to : by])
         \/ t \in Ofs("split", [kind : {"split"}, signer : by, coin : address,
                  amounts : [1 .. 2 -> amount] \cup [1 .. 1 -> amount]])
         \/ t \in Ofs("merge", [kind : {"merge"}, signer : by, coins : [1 .. 2 -> address]])
         \/ t \in Ofs("grant", [kind : {"grant"}, signer : by, to : by, amount : amount])
         \/ t \in Ofs("mint", [kind : {"mint"}, signer : by, frame : around,
                  parallelism : parallelism, proofs : quality])
         \/ t \in Ofs("announce", [kind : {"announce"}, keys : [1 .. 1 -> by] \cup [1 .. 2 -> by]])
         \/ t \in Ofs("join", [kind : {"join"}, signer : by, frame : {height}, announce : {<<>>}])
         \/ t \in Ofs("joinAs", {q \in [kind : {"join"}, signer : by, frame : due, announce : [1 .. 2 -> by]] :
                 q.signer = q.announce[1]})
         \/ t \in Ofs("leave", [kind : {"leave"}, signer : by, frame : {height}])
         \/ t \in Ofs("pause", [kind : {"pause"}, signer : by, frame : due])
         \/ t \in Ofs("resume", [kind : {"resume"}, signer : by, frame : {height}])
    BY ZenonT(60), <1>4
  <1>7. \/ t \in [kind : {"transfer"}, signer : by, coin : address, to : by]
         \/ t \in [kind : {"split"}, signer : by, coin : address,
                  amounts : [1 .. 2 -> amount] \cup [1 .. 1 -> amount]]
         \/ t \in [kind : {"merge"}, signer : by, coins : [1 .. 2 -> address]]
         \/ t \in [kind : {"grant"}, signer : by, to : by, amount : amount]
         \/ t \in [kind : {"mint"}, signer : by, frame : around,
                  parallelism : parallelism, proofs : quality]
         \/ t \in [kind : {"announce"}, keys : [1 .. 1 -> by] \cup [1 .. 2 -> by]]
         \/ t \in [kind : {"join"}, signer : by, frame : {height}, announce : {<<>>}]
         \/ t \in [kind : {"join"}, signer : by, frame : due, announce : [1 .. 2 -> by]]
         \/ t \in [kind : {"leave"}, signer : by, frame : {height}]
         \/ t \in [kind : {"pause"}, signer : by, frame : due]
         \/ t \in [kind : {"resume"}, signer : by, frame : {height}]
    BY Zenon, <1>5, <1>6
  <1>8. \A f \in [1 .. 1 -> by] \cup [1 .. 2 -> by] \cup {<<>>} : f \in Seq(Account)
    <2>1. 1 \in Nat /\ 2 \in Nat /\ <<>> \in Seq(Account)
      BY SMT
    <2> QED
      BY Zenon, <1>1, <2>1, SeqFromFunction
  <1>9. \A f \in [1 .. 2 -> amount] \cup [1 .. 1 -> amount] : f \in Seq(Nat)
    <2>1. 1 \in Nat /\ 2 \in Nat
      BY SMT
    <2> QED
      BY Zenon, <1>1, <2>1, SeqFromFunction
  <1>10. \A f \in [1 .. 2 -> address] : f \in Seq(Address)
    <2>1. 2 \in Nat
      BY SMT
    <2> QED
      BY Zenon, <1>2, <2>1, SeqFromFunction
  <1>11. CASE t \in [kind : {"transfer"}, signer : by, coin : address, to : by]
    <2>1. t \in [kind : {"transfer"}, signer : Account, coin : Address, to : Account]
      BY Zenon, <1>1, <1>2, <1>11
    <2> QED
      BY Zenon, <2>1 DEF Asked
  <1>12. CASE t \in [kind : {"split"}, signer : by, coin : address,
                     amounts : [1 .. 2 -> amount] \cup [1 .. 1 -> amount]]
    <2>1. t \in [kind : {"split"}, signer : Account, coin : Address, amounts : Seq(Nat)]
      BY Zenon, <1>1, <1>2, <1>9, <1>12
    <2> QED
      BY Zenon, <2>1 DEF Asked
  <1>13. CASE t \in [kind : {"merge"}, signer : by, coins : [1 .. 2 -> address]]
    <2>1. t \in [kind : {"merge"}, signer : Account, coins : Seq(Address)]
      BY Zenon, <1>1, <1>10, <1>13
    <2> QED
      BY Zenon, <2>1 DEF Asked
  <1>14. CASE t \in [kind : {"grant"}, signer : by, to : by, amount : amount]
    <2>1. t \in [kind : {"grant"}, signer : Account, to : Account, amount : Nat]
      BY Zenon, <1>1, <1>14
    <2> QED
      BY Zenon, <2>1 DEF Asked
  <1>15. CASE t \in [kind : {"mint"}, signer : by, frame : around,
                     parallelism : parallelism, proofs : quality]
    <2>1. t \in [kind : {"mint"}, signer : Account, frame : Nat, parallelism : Nat, proofs : Quality]
      BY Zenon, <1>1, <1>3, <1>15
    <2> QED
      BY Zenon, <2>1 DEF Asked
  <1>16. CASE t \in [kind : {"announce"}, keys : [1 .. 1 -> by] \cup [1 .. 2 -> by]]
    <2>1. t \in [kind : {"announce"}, keys : Seq(Account)]
      BY Zenon, <1>8, <1>16
    <2> QED
      BY Zenon, <2>1 DEF Asked
  <1>17. CASE t \in [kind : {"join"}, signer : by, frame : {height}, announce : {<<>>}]
    <2>1. t \in [kind : {"join"}, signer : Account, frame : Nat, announce : Seq(Account)]
      BY Zenon, <1>1, <1>8, <1>17
    <2> QED
      BY Zenon, <2>1 DEF Asked
  <1>18. CASE t \in [kind : {"join"}, signer : by, frame : due, announce : [1 .. 2 -> by]]
    <2>1. t \in [kind : {"join"}, signer : Account, frame : Nat, announce : Seq(Account)]
      BY Zenon, <1>1, <1>3, <1>8, <1>18
    <2> QED
      BY Zenon, <2>1 DEF Asked
  <1>19. CASE t \in [kind : {"leave"}, signer : by, frame : {height}]
    <2>1. t \in [kind : {"leave", "pause", "resume"}, signer : Account, frame : Nat]
      BY Zenon, <1>1, <1>19
    <2> QED
      BY Zenon, <2>1 DEF Asked
  <1>20. CASE t \in [kind : {"pause"}, signer : by, frame : due]
    <2>1. t \in [kind : {"leave", "pause", "resume"}, signer : Account, frame : Nat]
      BY Zenon, <1>1, <1>3, <1>20
    <2> QED
      BY Zenon, <2>1 DEF Asked
  <1>21. CASE t \in [kind : {"resume"}, signer : by, frame : {height}]
    <2>1. t \in [kind : {"leave", "pause", "resume"}, signer : Account, frame : Nat]
      BY Zenon, <1>1, <1>21
    <2> QED
      BY Zenon, <2>1 DEF Asked
  <1> QED
    BY ZenonT(60), <1>7, <1>11, <1>12, <1>13, <1>14, <1>15, <1>16, <1>17, <1>18, <1>19, <1>20, <1>21

\* A frame has requests that were staged.
LEMMA AppliedAsked ==
    ASSUME NEW requests \in Seq(Asked)
    PROVE  ApplyTransitions(requests, TRUE).requests \in Seq(Asked)
  <1>1. PICK n \in Nat : n = Len(requests) /\ DOMAIN requests = 1 .. n
    BY SMT
  <1>2. \A i \in 1 .. n : requests[i] \in Asked
    BY SMT, <1>1
  <1> DEFINE priority == [i \in DOMAIN requests |-> Priority(requests[i])]
  <1>3. Len(priority) = n
    BY SMT, <1>1
  <1>4. PICK order \in Permutation(n) : order = All(priority)
    <2> HIDE DEF priority
    <2> QED
      BY Zenon, <1>3, AllPermutes
  <1>5. PICK heap : heap = InHeapOrder(requests)
    BY Zenon
  <1>6. heap = [i \in 1 .. n |-> requests[order[i]]]
    BY Zenon, <1>1, <1>4, <1>5 DEF InHeapOrder
  <1> HIDE DEF priority
  <1>7. \A i \in 1 .. n : order[i] \in 1 .. n
    BY Zenon, <1>4 DEF Permutation
  <1>8. \A i \in 1 .. n : heap[i] \in Asked
    BY Zenon, <1>2, <1>6, <1>7
  <1>9. heap = [i \in 1 .. n |-> heap[i]]
    BY Zenon, <1>6
  <1>10. Len(heap) = n
    BY SMTT(30), <1>9
  <1>11. IsSeq(heap)
    BY Zenon, <1>9, <1>10 DEF IsSeq
  <1>12. PICK positions : ApplyTransitions(requests, TRUE).requests = At(heap, positions)
    <2>1. ApplyTransitions(requests, TRUE).requests
            = At(heap, {i \in DOMAIN heap : Results(heap, Admit(heap))[i].ok})
      BY Zenon, <1>5 DEF ApplyTransitions
    <2> QED
      BY Zenon, <2>1
  <1>13. PICK s : s = At(heap, positions) /\ Picked(heap, positions, s)
    BY Zenon, <1>11, AtPicks
  <1>14. IsSeq(s) /\ \A p \in 1 .. Len(s) : s[p] \in Asked
    BY Zenon, <1>8, <1>10, <1>13 DEF Picked
  <1>15. Len(s) \in Nat /\ s \in [1 .. Len(s) -> Asked]
    BY Zenon, <1>14 DEF IsSeq
  <1>16. s \in Seq(Asked)
    <2>1. PICK A : A = Asked
      BY Zenon
    <2>2. s \in Seq(A)
      BY SMT, <1>15, <2>1
    <2> QED
      BY Zenon, <2>1, <2>2
  <1> QED
    BY Zenon, <1>12, <1>13, <1>16

=============================================================================
