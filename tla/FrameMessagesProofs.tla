------------------------ MODULE FrameMessagesProofs ------------------------
(***************************************************************************)
(* The safety properties of the fragment buffers and of the handlers of    *)
(* frames, for any frames, shards, modes of publishing, sizes of the ring  *)
(* and of the cache, and any number of repeated fragments.                 *)
(*                                                                         *)
(* Lists says that the keys of the ring tell its buffers; Contents, what a *)
(* buffer holds of the shards that came: no other shards, and all of them, *)
(* each once and too few, as long as no fragment was repeated.             *)
(***************************************************************************)
EXTENDS FrameMessages, FiniteSetTheorems, TLAPS

Once(q) == \A i, j \in 1..Len(q) : q[i] = q[j] => i = j

BufferTypes ==
    /\ DOMAIN buffers \subseteq Frame
    /\ \A f \in DOMAIN buffers : buffers[f] \in Fragments
    /\ keys \in Seq(Frame) /\ builtKeys \in Seq(Frame)
    /\ since \in [Frame -> SUBSET Shard]
    /\ repeats \in Nat

Lists ==
    /\ Once(keys)
    /\ Range(keys) = DOMAIN buffers
    /\ Len(keys) <= MaxBuffers
    /\ Range(keys) \cap Range(builtKeys) = {}

\* Of a buffer, when the shards c came for it.
Sound(b, c) == b.shards \subseteq c /\ b.first \in b.shards \cup {NoShard}
Exact(b, c) == b.shards = c /\ b.len = Cardinality(c) /\ b.len < DataShards

Contents ==
    \A f \in DOMAIN buffers :
        /\ Sound(buffers[f], since[f])
        /\ DataShards >= 4 /\ repeats = 0 => Exact(buffers[f], since[f])

Ring == BufferTypes /\ Lists /\ Contents

\* A goroutine that is not idle has a frame, and the frame that was built from
\* fragments had enough of them.
Handling ==
    /\ handler \in [Handler -> [at : {"idle", "peek", "add", "verify"},
                                frame : Frame \cup {NoFrame}]]
    /\ \A h \in Handler : handler[h] = Idle \/ handler[h].frame \in Frame
    /\ BuiltFromEnough

Remembering ==
    /\ recent \in Seq(Outputs) /\ noted \in [Outputs -> Frame \cup {NoFrame}]
    /\ trie \subseteq Prover /\ inserted \subseteq Frame
    /\ head \in Nat
    /\ RememberedIsHandled

Inv == Ring /\ Handling /\ Remembering

-----------------------------------------------------------------------------
(* Lists.                                                                  *)

LEMMA InRange ==
    ASSUME NEW S, NEW q \in Seq(S)
    PROVE  /\ \A x : x \in Range(q) <=> \E i \in 1..Len(q) : q[i] = x
           /\ Range(q) \subseteq S
           /\ DOMAIN q = 1..Len(q) /\ Len(q) \in Nat
  <1>1. DOMAIN q = 1..Len(q) /\ Len(q) \in Nat /\ \A i \in 1..Len(q) : q[i] \in S
    OBVIOUS
  <1> QED
    BY Zenon, <1>1 DEF Range

\* The elements that are left, in their order.
LEMMA WithoutIndex ==
    ASSUME NEW S, NEW q \in Seq(S), NEW f \in Range(q)
    PROVE  \E i \in 1..Len(q) :
              /\ q[i] = f
              /\ Without(q, f) = [j \in 1..(Len(q) - 1) |-> IF j < i THEN q[j] ELSE q[j + 1]]
  <1>1. \E i \in DOMAIN q : q[i] = f
    BY Zenon, InRange
  <1>2. PICK i : /\ i = CHOOSE k \in DOMAIN q : q[k] = f
                 /\ i \in DOMAIN q /\ q[i] = f
    BY Zenon, <1>1
  <1>3. Without(q, f) = [j \in 1..(Len(q) - 1) |-> IF j < i THEN q[j] ELSE q[j + 1]]
    BY Zenon, <1>2 DEF Without
  <1> QED
    BY ZenonT(60), <1>2, <1>3, InRange

LEMMA WithoutFacts ==
    ASSUME NEW S, NEW q \in Seq(S), NEW f
    PROVE  /\ Without(q, f) \in Seq(S)
           /\ Len(Without(q, f)) <= Len(q)
           /\ Range(Without(q, f)) \subseteq Range(q)
           /\ Once(q) => /\ Once(Without(q, f))
                         /\ Range(Without(q, f)) = Range(q) \ {f}
  <1>q. \A x : x \in Range(q) <=> \E i \in 1..Len(q) : q[i] = x
    BY Zenon, InRange
  <1>0. CASE f \notin Range(q)
    <2>1. Without(q, f) = q /\ Len(q) <= Len(q)
      <3>1. Without(q, f) = q
        BY Zenon, <1>0 DEF Without
      <3>2. Len(q) <= Len(q)
        OBVIOUS
      <3> QED
        BY Zenon, <3>1, <3>2
    <2> QED
      BY Zenon, <1>0, <2>1
  <1>1. CASE f \in Range(q)
    <2>1. PICK i \in 1..Len(q) :
            /\ q[i] = f
            /\ Without(q, f) = [j \in 1..(Len(q) - 1) |-> IF j < i THEN q[j] ELSE q[j + 1]]
      BY Zenon, <1>1, WithoutIndex
    <2>2. PICK r : r = Without(q, f)
      BY Zenon
    <2>3. Len(q) \in Nat /\ Len(q) - 1 \in Nat /\ \A j \in 1..Len(q) : q[j] \in S
      OBVIOUS
    <2>4. \A j \in 1..(Len(q) - 1) : /\ r[j] = IF j < i THEN q[j] ELSE q[j + 1]
                                     /\ j \in 1..Len(q) /\ j + 1 \in 1..Len(q)
      <3>1. \A j \in 1..(Len(q) - 1) : j \in 1..Len(q) /\ j + 1 \in 1..Len(q)
        BY SMT, <2>3
      <3> QED
        BY Zenon, <2>1, <2>2, <3>1
    <2>5. r \in [1..(Len(q) - 1) -> S]
      BY Zenon, <2>1, <2>2, <2>3, <2>4
    <2>6. r \in Seq(S) /\ Len(r) = Len(q) - 1 /\ Len(r) <= Len(q)
      BY SMT, <2>3, <2>5
    <2>r. \A x : x \in Range(r) <=> \E j \in 1..(Len(q) - 1) : r[j] = x
      <3>1. \A x : x \in Range(r) <=> \E j \in 1..Len(r) : r[j] = x
        BY Zenon, <2>6, InRange
      <3> QED
        BY Zenon, <2>6, <3>1
    <2>7. Range(r) \subseteq Range(q)
      <3> SUFFICES ASSUME NEW x \in Range(r) PROVE x \in Range(q)
        BY Zenon
      <3>1. PICK j \in 1..(Len(q) - 1) : r[j] = x
        BY Zenon, <2>r
      <3> QED
        BY Zenon, <1>q, <2>4, <3>1
    <2>8. ASSUME Once(q) PROVE Once(r) /\ Range(r) = Range(q) \ {f}
      <3>1. ASSUME NEW j \in 1..(Len(q) - 1)
            PROVE  \E k \in 1..Len(q) : k # i /\ r[j] = q[k] /\ k = IF j < i THEN j ELSE j + 1
        <4>1. CASE j < i
          <5>1. j # i
            BY SMT, <4>1
          <5> QED
            BY Zenon, <2>4, <4>1, <5>1
        <4>2. CASE ~(j < i)
          <5>1. j + 1 # i
            BY SMT, <4>2
          <5> QED
            BY Zenon, <2>4, <4>2, <5>1
        <4> QED
          BY Zenon, <4>1, <4>2
      <3>2. Once(r)
        <4> SUFFICES ASSUME NEW j \in 1..(Len(q) - 1), NEW k \in 1..(Len(q) - 1), r[j] = r[k]
                     PROVE  j = k
          BY Zenon, <2>6 DEF Once
        <4>1. PICK a \in 1..Len(q) : r[j] = q[a] /\ a = IF j < i THEN j ELSE j + 1
          BY Zenon, <3>1
        <4>2. PICK b \in 1..Len(q) : r[k] = q[b] /\ b = IF k < i THEN k ELSE k + 1
          BY Zenon, <3>1
        <4>3. a = b
          BY Zenon, <2>8, <4>1, <4>2 DEF Once
        <4> QED
          BY SMT, <4>1, <4>2, <4>3
      <3>3. f \notin Range(r)
        <4> SUFFICES ASSUME NEW j \in 1..(Len(q) - 1), r[j] = f PROVE FALSE
          BY Zenon, <2>r
        <4> QED
          BY Zenon, <2>1, <2>8, <3>1 DEF Once
      <3>4. ASSUME NEW k \in 1..Len(q), q[k] # f PROVE q[k] \in Range(r)
        <4>1. k # i
          BY Zenon, <2>1, <3>4
        <4>2. CASE k < i
          <5>1. k \in 1..(Len(q) - 1)
            BY SMT, <4>2
          <5> QED
            BY Zenon, <2>4, <2>r, <4>2, <5>1
        <4>3. CASE ~(k < i)
          <5>1. PICK j \in 1..(Len(q) - 1) : j + 1 = k /\ ~(j < i)
            <6>1. k - 1 \in 1..(Len(q) - 1) /\ (k - 1) + 1 = k /\ ~(k - 1 < i)
              BY SMT, <4>1, <4>3
            <6> QED
              BY Zenon, <6>1
          <5> QED
            BY Zenon, <2>4, <2>r, <5>1
        <4> QED
          BY Zenon, <4>2, <4>3
      <3>5. \A x \in Range(q) : x # f => x \in Range(r)
        BY Zenon, <1>q, <3>4
      <3> QED
        BY Zenon, <2>7, <3>2, <3>3, <3>5
    <2> QED
      BY Zenon, <2>2, <2>6, <2>7, <2>8
  <1> QED
    BY Zenon, <1>0, <1>1

LEMMA TailFacts ==
    ASSUME NEW S, NEW q \in Seq(S), Len(q) > 0
    PROVE  /\ Tail(q) \in Seq(S) /\ Len(Tail(q)) = Len(q) - 1
           /\ Range(Tail(q)) \subseteq Range(q)
           /\ Once(q) => Once(Tail(q)) /\ Range(Tail(q)) = Range(q) \ {q[1]}
  <1>1. PICK t : t = Tail(q)
    BY Zenon
  <1>2. /\ t \in Seq(S) /\ Len(t) = Len(q) - 1 /\ 1 \in 1..Len(q)
        /\ \A i \in 1..(Len(q) - 1) : t[i] = q[i + 1] /\ i + 1 \in 1..Len(q) /\ i + 1 # 1
        /\ \A i \in 1..Len(q) : i = 1 \/ (i - 1 \in 1..(Len(q) - 1) /\ (i - 1) + 1 = i)
        /\ \A i, j \in 1..(Len(q) - 1) : i + 1 = j + 1 => i = j
    BY SMT, <1>1
  <1>q. \A x : x \in Range(q) <=> \E i \in 1..Len(q) : q[i] = x
    BY Zenon, InRange
  <1>t. \A x : x \in Range(t) <=> \E i \in 1..(Len(q) - 1) : t[i] = x
    <2>1. \A x : x \in Range(t) <=> \E i \in 1..Len(t) : t[i] = x
      BY Zenon, <1>2, InRange
    <2> QED
      BY Zenon, <1>2, <2>1
  <1>3. Range(t) \subseteq Range(q)
    <2> SUFFICES ASSUME NEW x \in Range(t) PROVE x \in Range(q)
      BY Zenon
    <2>1. PICK i \in 1..(Len(q) - 1) : t[i] = x
      BY Zenon, <1>2, <1>q, <1>t
    <2> QED
      BY Zenon, <1>2, <2>1, <1>q, <1>t
  <1>4. ASSUME Once(q) PROVE Once(t) /\ Range(t) = Range(q) \ {q[1]}
    <2>1. Once(t)
      <3> SUFFICES ASSUME NEW i \in 1..(Len(q) - 1), NEW j \in 1..(Len(q) - 1), t[i] = t[j]
                   PROVE  i = j
        BY Zenon, <1>2 DEF Once
      <3>1. i + 1 \in 1..Len(q) /\ j + 1 \in 1..Len(q) /\ q[i + 1] = q[j + 1]
        BY Zenon, <1>2
      <3>2. i + 1 = j + 1
        BY Zenon, <1>4, <3>1 DEF Once
      <3> QED
        BY Zenon, <1>2, <3>2
    <2>2. q[1] \notin Range(t)
      <3> SUFFICES ASSUME NEW i \in 1..(Len(q) - 1), t[i] = q[1] PROVE FALSE
        BY Zenon, <1>2, <1>q, <1>t
      <3>1. i + 1 \in 1..Len(q) /\ q[i + 1] = q[1] /\ i + 1 # 1 /\ 1 \in 1..Len(q)
        BY Zenon, <1>2
      <3> QED
        BY Zenon, <1>4, <3>1 DEF Once
    <2>3. ASSUME NEW i \in 1..Len(q), q[i] # q[1] PROVE q[i] \in Range(t)
      <3>1. PICK j \in 1..(Len(q) - 1) : j + 1 = i
        BY Zenon, <1>2, <2>3
      <3>2. t[j] = q[i]
        BY Zenon, <1>2, <3>1
      <3> QED
        BY Zenon, <1>2, <3>2, <1>q, <1>t
    <2>4. \A x \in Range(q) : x # q[1] => x \in Range(t)
      BY Zenon, <2>3, <1>q, <1>t
    <2> QED
      BY Zenon, <1>3, <2>1, <2>2, <2>4
  <1> QED
    BY Zenon, <1>1, <1>2, <1>3, <1>4

LEMMA AppendFacts ==
    ASSUME NEW S, NEW q \in Seq(S), NEW f \in S
    PROVE  /\ Append(q, f) \in Seq(S) /\ Len(Append(q, f)) = Len(q) + 1
           /\ Range(Append(q, f)) = Range(q) \cup {f}
           /\ Once(q) /\ f \notin Range(q) => Once(Append(q, f))
  <1>1. PICK t : t = Append(q, f)
    BY Zenon
  <1>2. /\ t \in Seq(S) /\ Len(t) = Len(q) + 1 /\ Len(q) + 1 \in 1..(Len(q) + 1)
        /\ \A i \in 1..Len(q) : t[i] = q[i] /\ i \in 1..(Len(q) + 1)
        /\ t[Len(q) + 1] = f
        /\ \A i \in 1..(Len(q) + 1) : i \in 1..Len(q) \/ i = Len(q) + 1
    BY SMT, <1>1
  <1>q. \A x : x \in Range(q) <=> \E i \in 1..Len(q) : q[i] = x
    BY Zenon, InRange
  <1>t. \A x : x \in Range(t) <=> \E i \in 1..(Len(q) + 1) : t[i] = x
    <2>1. \A x : x \in Range(t) <=> \E i \in 1..Len(t) : t[i] = x
      BY Zenon, <1>2, InRange
    <2> QED
      BY Zenon, <1>2, <2>1
  <1>3. Range(t) \subseteq Range(q) \cup {f}
    <2> SUFFICES ASSUME NEW i \in 1..(Len(q) + 1) PROVE t[i] \in Range(q) \cup {f}
      BY Zenon, <1>2, <1>q, <1>t
    <2> QED
      BY Zenon, <1>2, <1>q, <1>t
  <1>4. Range(q) \cup {f} \subseteq Range(t)
    <2>1. ASSUME NEW i \in 1..Len(q) PROVE q[i] \in Range(t)
      BY Zenon, <1>2, <1>q, <1>t
    <2>2. f \in Range(t)
      BY Zenon, <1>2, <1>q, <1>t
    <2> QED
      BY Zenon, <2>1, <2>2, <1>q, <1>t
  <1>5. ASSUME Once(q), f \notin Range(q) PROVE Once(t)
    <2>1. \A i \in 1..Len(q) : q[i] # f
      BY Zenon, <1>5, <1>q, <1>t
    <2> SUFFICES ASSUME NEW i \in 1..(Len(q) + 1), NEW j \in 1..(Len(q) + 1), t[i] = t[j]
                 PROVE  i = j
      BY Zenon, <1>2 DEF Once
    <2>2. CASE i \in 1..Len(q)
      <3>1. j \in 1..Len(q)
        BY Zenon, <1>2, <2>1, <2>2
      <3> QED
        BY Zenon, <1>2, <1>5, <2>2, <3>1 DEF Once
    <2>3. CASE i = Len(q) + 1
      BY Zenon, <1>2, <2>1, <2>3
    <2> QED
      BY Zenon, <1>2, <2>2, <2>3
  <1> QED
    BY Zenon, <1>1, <1>2, <1>3, <1>4, <1>5

LEMMA PushedFacts ==
    ASSUME NEW S, NEW q \in Seq(S), NEW f \in S, NEW n \in Nat \ {0}
    PROVE  /\ Pushed(q, f, n) \in Seq(S)
           /\ Range(Pushed(q, f, n)) \subseteq Range(q) \cup {f}
  <1>1. CASE Len(q) = n
    <2>1. Len(q) > 0
      BY SMT, <1>1
    <2>2. PICK t \in Seq(S) : t = Tail(q) /\ Range(t) \subseteq Range(q)
      BY Zenon, <2>1, TailFacts
    <2>3. Pushed(q, f, n) = Append(t, f)
      BY Zenon, <1>1, <2>2 DEF Pushed
    <2>4. Append(t, f) \in Seq(S) /\ Range(Append(t, f)) = Range(t) \cup {f}
      BY ZenonT(60), AppendFacts
    <2> QED
      BY Zenon, <2>2, <2>3, <2>4
  <1>2. CASE Len(q) # n
    BY Zenon, <1>2, AppendFacts DEF Pushed
  <1> QED
    BY Zenon, <1>1, <1>2

LEMMA OnceCounts ==
    ASSUME NEW S, NEW q \in Seq(S), Once(q)
    PROVE  IsFiniteSet(Range(q)) /\ Cardinality(Range(q)) = Len(q)
  <1>q. \A x : x \in Range(q) <=> \E i \in 1..Len(q) : q[i] = x
    BY Zenon, InRange
  <1>1. Len(q) \in Nat /\ q \in [1..Len(q) -> Range(q)]
    <2>1. q \in [1..Len(q) -> S] /\ Len(q) \in Nat
      OBVIOUS
    <2> QED
      BY Zenon, <2>1, <1>q
  <1>2. q \in Bijection(1..Len(q), Range(q))
    <2>1. q \in Injection(1..Len(q), Range(q))
      BY Zenon, <1>1 DEF Once, Injection, IsInjective
    <2>2. q \in Surjection(1..Len(q), Range(q))
      BY Zenon, <1>1, <1>q DEF Surjection
    <2> QED
      BY Zenon, <2>1, <2>2 DEF Bijection
  <1>3. IsFiniteSet(1..Len(q)) /\ Cardinality(1..Len(q)) = Len(q)
    <2>1. 1 \in Int /\ Len(q) \in Int
      BY SMT, <1>1
    <2>2. /\ IsFiniteSet(1..Len(q))
          /\ Cardinality(1..Len(q)) = IF 1 > Len(q) THEN 0 ELSE Len(q) - 1 + 1
      BY Zenon, <2>1, FS_Interval
    <2> QED
      BY SMT, <1>1, <2>2
  <1> QED
    BY Zenon, <1>2, <1>3, FS_Bijection DEF ExistsBijection

-----------------------------------------------------------------------------
(* The fragment buffers.                                                   *)

\* The keys that stay when room is made for one more buffer.
LEMMA RoomMade ==
    ASSUME Ring
    PROVE  LET full == Cardinality(DOMAIN buffers) = MaxBuffers
               kept == IF full THEN DOMAIN buffers \ {keys[1]} ELSE DOMAIN buffers
               t == IF full THEN Tail(keys) ELSE keys
           IN  /\ t \in Seq(Frame) /\ Once(t) /\ Len(t) + 1 <= MaxBuffers
               /\ Range(t) = kept /\ kept \subseteq DOMAIN buffers
  <1>1. /\ keys \in Seq(Frame) /\ Once(keys) /\ Range(keys) = DOMAIN buffers
        /\ Len(keys) <= MaxBuffers /\ MaxBuffers \in Nat \ {0}
    BY Zenon, FragmentAssumption DEF Ring, BufferTypes, Lists
  <1>2. Cardinality(DOMAIN buffers) = Len(keys)
    BY Zenon, <1>1, OnceCounts
  <1>3. CASE Len(keys) = MaxBuffers
    <2>1. Len(keys) > 0
      BY SMT, <1>1, <1>3
    <2>2. /\ Tail(keys) \in Seq(Frame) /\ Len(Tail(keys)) = Len(keys) - 1
          /\ Once(Tail(keys)) /\ Range(Tail(keys)) = DOMAIN buffers \ {keys[1]}
      BY Zenon, <1>1, <2>1, TailFacts
    <2>3. Len(Tail(keys)) + 1 <= MaxBuffers
      BY SMT, <1>1, <1>3, <2>2
    <2> QED
      BY Zenon, <1>2, <1>3, <2>2, <2>3
  <1>4. CASE Len(keys) # MaxBuffers
    <2>1. Len(keys) + 1 <= MaxBuffers
      BY SMT, <1>1, <1>4
    <2> QED
      BY Zenon, <1>1, <1>2, <1>4, <2>1
  <1> QED
    BY Zenon, <1>3, <1>4

MadeRight(f, m) ==
    /\ DOMAIN m.buffers \subseteq Frame /\ f \in DOMAIN m.buffers
    /\ \A g \in DOMAIN m.buffers :
          g # f => g \in DOMAIN buffers /\ m.buffers[g] = buffers[g]
    /\ m.buffers[f] = IF f \in DOMAIN buffers THEN buffers[f] ELSE NoFragments
    /\ m.keys \in Seq(Frame) /\ Once(m.keys) /\ Len(m.keys) <= MaxBuffers
    /\ Range(m.keys) = DOMAIN m.buffers
    /\ Range(m.keys) \cap Range(builtKeys) = {}

LEMMA MadeFacts ==
    ASSUME Ring, NEW f \in Frame, f \notin Range(builtKeys), NEW m, m = Made(f)
    PROVE  MadeRight(f, m)
  <1>1. /\ keys \in Seq(Frame) /\ Once(keys) /\ Range(keys) = DOMAIN buffers
        /\ DOMAIN buffers \subseteq Frame /\ Len(keys) <= MaxBuffers
        /\ Range(keys) \cap Range(builtKeys) = {}
    BY Zenon DEF Ring, BufferTypes, Lists
  <1>2. CASE f \in DOMAIN buffers
    <2>1. m = [buffers |-> buffers, keys |-> keys]
      BY Zenon, <1>2 DEF Made
    <2>2. m.buffers = buffers /\ m.keys = keys
      BY SMT, <2>1
    <2> QED
      BY Zenon, <1>1, <1>2, <2>2 DEF MadeRight
  <1>3. CASE f \notin DOMAIN buffers
    <2>1. PICK kept, t : /\ t \in Seq(Frame) /\ Once(t) /\ Len(t) + 1 <= MaxBuffers
                         /\ Range(t) = kept /\ kept \subseteq DOMAIN buffers
                         /\ m = [buffers |-> [g \in kept \cup {f} |->
                                                IF g = f THEN NoFragments ELSE buffers[g]],
                                 keys |-> Append(t, f)]
      <3> DEFINE full == Cardinality(DOMAIN buffers) = MaxBuffers
                 kept == IF full THEN DOMAIN buffers \ {keys[1]} ELSE DOMAIN buffers
                 t == IF full THEN Tail(keys) ELSE keys
      <3>1. /\ t \in Seq(Frame) /\ Once(t) /\ Len(t) + 1 <= MaxBuffers
            /\ Range(t) = kept /\ kept \subseteq DOMAIN buffers
        BY Zenon, RoomMade
      <3>2. m = [buffers |-> [g \in kept \cup {f} |->
                                IF g = f THEN NoFragments ELSE buffers[g]],
                 keys |-> Append(t, f)]
        BY Zenon, <1>3 DEF Made
      <3> HIDE DEF kept, t
      <3> QED
        BY Zenon, <3>1, <3>2
    <2>2. /\ m.buffers = [g \in kept \cup {f} |-> IF g = f THEN NoFragments ELSE buffers[g]]
          /\ m.keys = Append(t, f)
      BY SMT, <2>1
    <2>3. /\ DOMAIN m.buffers = kept \cup {f} /\ m.buffers[f] = NoFragments
          /\ \A g \in kept : g # f => m.buffers[g] = buffers[g]
      BY Zenon, <2>2
    <2>4. f \notin Range(t)
      BY Zenon, <1>3, <2>1
    <2>5. /\ m.keys \in Seq(Frame) /\ Len(m.keys) = Len(t) + 1
          /\ Range(m.keys) = Range(t) \cup {f} /\ Once(m.keys)
      <3>1. t \in Seq(Frame) /\ Once(t)
        BY Zenon, <2>1
      <3>2. /\ Append(t, f) \in Seq(Frame) /\ Len(Append(t, f)) = Len(t) + 1
            /\ Range(Append(t, f)) = Range(t) \cup {f} /\ Once(Append(t, f))
        BY ZenonT(60), <2>4, <3>1, AppendFacts
      <3> QED
        BY Zenon, <2>2, <3>2
    <2>6. Range(m.keys) = DOMAIN m.buffers /\ DOMAIN m.buffers \subseteq Frame
      BY Zenon, <1>1, <2>1, <2>3, <2>5
    <2>7. Range(m.keys) \cap Range(builtKeys) = {}
      BY Zenon, <1>1, <2>1, <2>5
    <2>8. Len(m.keys) <= MaxBuffers
      BY Zenon, <2>1, <2>5
    <2> QED
      BY Zenon, <1>3, <2>1, <2>3, <2>5, <2>6, <2>7, <2>8 DEF MadeRight
  <1> QED
    BY Zenon, <1>2, <1>3

LEMMA AccumulateFacts ==
    ASSUME NEW b \in Fragments, NEW c \in SUBSET Shard, NEW s \in Shard, Sound(b, c),
           NEW r, r = Accumulate(b, s)
    PROVE  /\ r.buffer \in Fragments /\ r.built \in BOOLEAN
           /\ Sound(r.buffer, c \cup {s})
           /\ r.built => Cardinality(c \cup {s}) >= DataShards
           /\ DataShards >= 4 /\ Exact(b, c) /\ s \notin c
                => r.built \/ Exact(r.buffer, c \cup {s})
  <1>1. /\ b.len \in Nat /\ b.shards \in SUBSET Shard /\ b.first \in Shard \cup {NoShard}
        /\ IsFiniteSet(Shard) /\ NoShard \notin Shard /\ DataShards \in Nat
    <2>1. DataShards \in Nat
      BY SMT, FragmentAssumption
    <2> QED
      BY Zenon, <2>1, FragmentAssumption DEF Fragments
  <1>2. PICK n \in Nat : n = b.len + 1
    BY SMT, <1>1
  <1>3. PICK e \in Shard \cup {NoShard} : e = IF b.len = 0 THEN s ELSE b.first
    BY Zenon, <1>1
  <1>4. PICK a : a = [first |-> e, shards |-> b.shards \cup {s}, len |-> n]
    BY Zenon
  <1>5. /\ a \in Fragments /\ a.first = e /\ a.shards = b.shards \cup {s} /\ a.len = n
        /\ Sound(a, c \cup {s})
    <2>1. a \in Fragments
      BY Zenon, <1>1, <1>4 DEF Fragments
    <2>2. a.first = e /\ a.shards = b.shards \cup {s} /\ a.len = n
      BY Zenon, <1>4
    <2> QED
      BY Zenon, <1>3, <2>1, <2>2 DEF Sound
  <1>6. r = CASE s = b.first -> [buffer |-> b, built |-> FALSE]
              [] s # b.first /\ a.len < DataShards -> [buffer |-> a, built |-> FALSE]
              [] OTHER -> [buffer |-> NoFragments, built |-> AssembleClockFrame(a)]
    BY Zenon, <1>2, <1>3, <1>4 DEF Accumulate
  <1>7. IsFiniteSet(c) /\ IsFiniteSet(c \cup {s}) /\ Cardinality(c) \in Nat
    BY Zenon, <1>1, FS_Subset, FS_AddElement, FS_CardinalityType
  <1>8. ASSUME Exact(b, c), s \notin c
        PROVE  a.shards = c \cup {s} /\ a.len = Cardinality(c \cup {s}) /\ s # b.first
    <2>1. Cardinality(c \cup {s}) = Cardinality(c) + 1
      BY Zenon, <1>7, <1>8, FS_AddElement
    <2> QED
      BY Zenon, <1>1, <1>2, <1>5, <1>8, <2>1 DEF Exact, Sound
  <1>9. CASE s = b.first
    <2>1. r = [buffer |-> b, built |-> FALSE]
      BY Zenon, <1>6, <1>9
    <2>2. r.buffer = b /\ r.built = FALSE
      BY SMT, <2>1
    <2> QED
      BY Zenon, <1>8, <1>9, <2>2 DEF Sound
  <1>10. CASE s # b.first /\ a.len < DataShards
    <2>1. r = [buffer |-> a, built |-> FALSE]
      BY Zenon, <1>6, <1>10
    <2>2. r.buffer = a /\ r.built = FALSE
      BY SMT, <2>1
    <2> QED
      BY Zenon, <1>5, <1>8, <1>10, <2>2 DEF Exact
  <1>11. CASE s # b.first /\ ~(a.len < DataShards)
    <2>1. r = [buffer |-> NoFragments, built |-> AssembleClockFrame(a)]
      BY Zenon, <1>6, <1>11
    <2>2. r.buffer = NoFragments /\ r.built = AssembleClockFrame(a)
      BY SMT, <2>1
    <2>3. r.buffer \in Fragments /\ Sound(r.buffer, c \cup {s})
      <3>1. /\ NoFragments \in Fragments /\ NoFragments.shards = {}
            /\ NoFragments.first = NoShard
        BY SMT DEF NoFragments, Fragments
      <3> QED
        BY Zenon, <2>2, <3>1 DEF Sound
    <2>4. r.built \in BOOLEAN
      BY Zenon, <2>2 DEF AssembleClockFrame
    <2>5. ASSUME r.built PROVE Cardinality(c \cup {s}) >= DataShards
      <3>1. a.len = Cardinality(a.shards) /\ a.len >= DataShards
        BY Zenon, <2>2, <2>5 DEF AssembleClockFrame
      <3>2. a.shards \subseteq c \cup {s}
        BY Zenon, <1>5 DEF Sound
      <3>3. Cardinality(a.shards) <= Cardinality(c \cup {s}) /\ Cardinality(c \cup {s}) \in Nat
        BY Zenon, <1>7, <3>2, FS_Subset, FS_CardinalityType
      <3> QED
        BY SMT, <1>1, <1>5, <3>1, <3>3
    <2>6. ASSUME DataShards >= 4, Exact(b, c), s \notin c PROVE r.built
      <3>1. a.len >= DataShards /\ a.len >= 4
        BY SMT, <1>1, <1>5, <1>11, <2>6
      <3> QED
        BY Zenon, <1>8, <2>2, <2>6, <3>1 DEF AssembleClockFrame
    <2> QED
      BY Zenon, <2>3, <2>4, <2>5, <2>6
  <1> QED
    BY Zenon, <1>9, <1>10, <1>11

LEMMA RingKept ==
    ASSUME Ring, UNCHANGED bufferVars, repeats' \in Nat, repeats' = 0 => repeats = 0
    PROVE  Ring'
  <1>1. UNCHANGED <<buffers, keys, builtKeys, since>>
    BY Zenon DEF bufferVars
  <1> QED
    BY Zenon, <1>1 DEF Ring, BufferTypes, Lists, Contents, Once, Sound, Exact

\* The buffer that a fragment goes to, and what it holds.
LEMMA CameFacts ==
    ASSUME Ring, NEW f \in Frame, NEW b,
           b = IF f \in DOMAIN buffers THEN buffers[f] ELSE NoFragments
    PROVE  /\ b \in Fragments /\ Came(f) \in SUBSET Shard /\ Sound(b, Came(f))
           /\ DataShards >= 4 /\ repeats = 0 => Exact(b, Came(f))
  <1>1. CASE f \in DOMAIN buffers
    <2>1. b = buffers[f] /\ Came(f) = since[f] /\ since[f] \in SUBSET Shard
      BY Zenon, <1>1 DEF Came, Ring, BufferTypes
    <2> QED
      BY Zenon, <1>1, <2>1 DEF Ring, BufferTypes, Contents
  <1>2. CASE f \notin DOMAIN buffers
    <2>1. b = NoFragments /\ Came(f) = {}
      BY Zenon, <1>2 DEF Came
    <2>2. /\ NoFragments \in Fragments /\ NoFragments.shards = {}
          /\ NoFragments.first = NoShard /\ NoFragments.len = 0
      BY SMT DEF NoFragments, Fragments
    <2>3. Cardinality({}) = 0 /\ 0 < DataShards
      <3>1. Cardinality({}) = 0
        BY Zenon, FS_EmptySet
      <3>2. 0 < DataShards
        BY SMT, FragmentAssumption
      <3> QED
        BY Zenon, <3>1, <3>2
    <2> QED
      BY Zenon, <2>1, <2>2, <2>3 DEF Sound, Exact
  <1> QED
    BY Zenon, <1>1, <1>2

LEMMA RepeatsFacts ==
    ASSUME Ring, NEW f \in Frame, NEW s \in Shard, HandleFragment(f, s)
    PROVE  /\ repeats' \in Nat
           /\ repeats' = 0 => repeats = 0 /\ s \notin Came(f)
  <1>1. repeats \in Nat /\ repeats' = IF Repeated(f, s) THEN repeats + 1 ELSE repeats
    BY Zenon DEF Ring, BufferTypes, HandleFragment
  <1>2. repeats + 1 \in Nat /\ repeats + 1 # 0
    BY SMT, <1>1
  <1> QED
    BY Zenon, <1>1, <1>2 DEF Repeated

\* A fragment for a frame that is not remembered as built.
LEMMA FragmentKeeps ==
    ASSUME Ring, NEW f \in Frame, NEW s \in Shard, HandleFragment(f, s),
           f \notin Range(builtKeys)
    PROVE  /\ Ring'
           /\ \/ handler' = handler
              \/ /\ handler' = [handler EXCEPT !["fragment"] = [at |-> "peek", frame |-> f]]
                 /\ Cardinality(since'[f]) >= DataShards
  <1>1. PICK m : m = Made(f)
    BY Zenon
  <1>2. PICK r : r = Accumulate(m.buffers[f], s)
    BY Zenon
  <1>3. /\ since' = [g \in Frame |-> CASE g = f -> Came(f) \cup {s}
                                       [] g # f /\ g \in DOMAIN m.buffers -> since[g]
                                       [] OTHER -> {}]
        /\ \/ r.built /\ Complete(f, m)
           \/ /\ ~r.built
              /\ buffers' = [m.buffers EXCEPT ![f] = r.buffer]
              /\ keys' = m.keys /\ builtKeys' = builtKeys /\ handler' = handler
    BY Zenon, <1>1, <1>2 DEF HandleFragment, AccumulateClockFrameFragment
  <1>4. /\ DOMAIN m.buffers \subseteq Frame /\ f \in DOMAIN m.buffers
        /\ \A g \in DOMAIN m.buffers :
              g # f => g \in DOMAIN buffers /\ m.buffers[g] = buffers[g]
        /\ m.buffers[f] = IF f \in DOMAIN buffers THEN buffers[f] ELSE NoFragments
        /\ m.keys \in Seq(Frame) /\ Once(m.keys) /\ Len(m.keys) <= MaxBuffers
        /\ Range(m.keys) = DOMAIN m.buffers
        /\ Range(m.keys) \cap Range(builtKeys) = {}
    <2>1. MadeRight(f, m)
      BY Zenon, <1>1, MadeFacts
    <2> QED
      BY Zenon, <2>1 DEF MadeRight
  <1>5. PICK b : b = m.buffers[f]
    BY Zenon
  <1>6. /\ b \in Fragments /\ Came(f) \in SUBSET Shard /\ Sound(b, Came(f))
        /\ DataShards >= 4 /\ repeats = 0 => Exact(b, Came(f))
    BY Zenon, <1>4, <1>5, CameFacts
  <1>7. /\ r.buffer \in Fragments /\ r.built \in BOOLEAN
        /\ Sound(r.buffer, Came(f) \cup {s})
        /\ r.built => Cardinality(Came(f) \cup {s}) >= DataShards
        /\ DataShards >= 4 /\ Exact(b, Came(f)) /\ s \notin Came(f)
             => r.built \/ Exact(r.buffer, Came(f) \cup {s})
    <2>1. r = Accumulate(b, s)
      BY Zenon, <1>2, <1>5
    <2>2. PICK c \in SUBSET Shard : c = Came(f) /\ Sound(b, c)
      BY Zenon, <1>6
    <2> HIDE DEF Came
    <2>3. /\ r.buffer \in Fragments /\ r.built \in BOOLEAN
          /\ Sound(r.buffer, c \cup {s})
          /\ r.built => Cardinality(c \cup {s}) >= DataShards
          /\ DataShards >= 4 /\ Exact(b, c) /\ s \notin c
               => r.built \/ Exact(r.buffer, c \cup {s})
      BY Zenon, <1>6, <2>1, <2>2, AccumulateFacts
    <2> QED
      BY Zenon, <2>2, <2>3
  <1>8. /\ repeats' \in Nat
        /\ repeats' = 0 => repeats = 0 /\ s \notin Came(f)
    BY Zenon, RepeatsFacts
  <1>9. /\ since' \in [Frame -> SUBSET Shard] /\ since'[f] = Came(f) \cup {s}
        /\ \A g \in DOMAIN m.buffers : g # f => since'[g] = since[g]
    <2>1. since \in [Frame -> SUBSET Shard]
      BY Zenon DEF Ring, BufferTypes
    <2>2. \A g \in Frame : since'[g] = CASE g = f -> Came(f) \cup {s}
                                         [] g # f /\ g \in DOMAIN m.buffers -> since[g]
                                         [] OTHER -> {}
      BY Zenon, <1>3
    <2>3. since'[f] = Came(f) \cup {s}
      BY Zenon, <2>2
    <2>4. \A g \in DOMAIN m.buffers : g # f => since'[g] = since[g]
      BY Zenon, <1>4, <2>2
    <2>5. \A g \in Frame : g # f => since'[g] \in SUBSET Shard
      BY Zenon, <2>1, <2>2
    <2>6. Came(f) \cup {s} \in SUBSET Shard
      BY Zenon, <1>6
    <2>7. since' = [g \in Frame |-> since'[g]]
      BY Zenon, <1>3
    <2> QED
      BY Zenon, <2>3, <2>4, <2>5, <2>6, <2>7
  \* A buffer of another frame is what it was.
  <1>10. ASSUME NEW g \in DOMAIN m.buffers, g # f
         PROVE  /\ m.buffers[g] \in Fragments /\ Sound(m.buffers[g], since'[g])
                /\ DataShards >= 4 /\ repeats' = 0 => Exact(m.buffers[g], since'[g])
    <2>1. g \in DOMAIN buffers /\ m.buffers[g] = buffers[g] /\ since'[g] = since[g]
      BY Zenon, <1>4, <1>9, <1>10
    <2> QED
      BY Zenon, <1>8, <2>1 DEF Ring, BufferTypes, Contents
  <1>11. builtKeys \in Seq(Frame) /\ MaxBuffers \in Nat \ {0}
    BY Zenon, FragmentAssumption DEF Ring, BufferTypes
  <1>12. CASE r.built /\ Complete(f, m)
    <2>1. /\ buffers' = [g \in DOMAIN m.buffers \ {f} |-> m.buffers[g]]
          /\ keys' = Without(m.keys, f) /\ builtKeys' = Pushed(builtKeys, f, MaxBuffers)
          /\ handler' = [handler EXCEPT !["fragment"] = [at |-> "peek", frame |-> f]]
      BY Zenon, <1>12 DEF Complete
    <2>2. /\ DOMAIN buffers' = DOMAIN m.buffers \ {f}
          /\ \A g \in DOMAIN buffers' : g # f /\ g \in DOMAIN m.buffers /\ buffers'[g] = m.buffers[g]
      BY Zenon, <2>1
    <2>3. /\ keys' \in Seq(Frame) /\ Len(keys') <= Len(m.keys) /\ Once(keys')
          /\ Range(keys') = DOMAIN m.buffers \ {f}
      BY Zenon, <1>4, <2>1, WithoutFacts
    <2>4. builtKeys' \in Seq(Frame) /\ Range(builtKeys') \subseteq Range(builtKeys) \cup {f}
      BY Zenon, <1>11, <2>1, PushedFacts
    <2>5. Len(keys') <= MaxBuffers
      <3>1. Len(keys') \in Nat /\ Len(m.keys) \in Nat
        BY SMT, <1>4, <2>3
      <3> QED
        BY SMT, <1>4, <1>11, <2>3, <3>1
    <2>6. BufferTypes'
      BY Zenon, <1>4, <1>8, <1>9, <1>10, <2>2, <2>3, <2>4 DEF BufferTypes
    <2>7. Range(keys') \cap Range(builtKeys') = {}
      BY Zenon, <1>4, <2>3, <2>4
    <2>8. Lists'
      BY Zenon, <2>2, <2>3, <2>5, <2>7 DEF Lists, Once
    <2>9. Contents'
      BY Zenon, <1>10, <2>2 DEF Contents, Sound, Exact
    <2> QED
      BY Zenon, <1>7, <1>9, <1>12, <2>1, <2>6, <2>8, <2>9 DEF Ring
  <1>13. CASE /\ ~r.built
              /\ buffers' = [m.buffers EXCEPT ![f] = r.buffer]
              /\ keys' = m.keys /\ builtKeys' = builtKeys /\ handler' = handler
    <2>1. /\ DOMAIN buffers' = DOMAIN m.buffers /\ buffers'[f] = r.buffer
          /\ \A g \in DOMAIN m.buffers : g # f => buffers'[g] = m.buffers[g]
      BY Zenon, <1>4, <1>13
    <2>2. \A g \in DOMAIN buffers' : buffers'[g] \in Fragments
      BY Zenon, <1>7, <1>10, <2>1
    <2>3. BufferTypes'
      BY Zenon, <1>4, <1>8, <1>9, <1>11, <1>13, <2>1, <2>2 DEF BufferTypes
    <2>4. Lists'
      BY Zenon, <1>4, <1>13, <2>1 DEF Lists, Once
    <2>5. ASSUME NEW g \in DOMAIN buffers'
          PROVE  /\ Sound(buffers'[g], since'[g])
                 /\ DataShards >= 4 /\ repeats' = 0 => Exact(buffers'[g], since'[g])
      <3>1. CASE g = f
        BY Zenon, <1>6, <1>7, <1>8, <1>9, <1>13, <2>1, <3>1
      <3>2. CASE g # f
        BY Zenon, <1>10, <2>1, <2>5, <3>2
      <3> QED
        BY Zenon, <3>1, <3>2
    <2>6. Contents'
      BY Zenon, <2>5 DEF Contents, Sound, Exact
    <2> QED
      BY Zenon, <1>13, <2>3, <2>4, <2>6 DEF Ring
  <1> QED
    BY Zenon, <1>3, <1>12, <1>13

-----------------------------------------------------------------------------
(* The handlers.                                                           *)

LEMMA HandlerMoves ==
    ASSUME Handling, NEW h \in Handler, NEW x, UNCHANGED since,
           handler' = [handler EXCEPT ![h] = x],
           x = Idle \/ /\ x.at \in {"peek", "add", "verify"} /\ x.frame \in Frame
                       /\ x = [at |-> x.at, frame |-> x.frame],
           h = "fragment" => x = Idle \/ (handler[h] # Idle /\ x.frame = handler[h].frame)
    PROVE  /\ Handling' /\ handler'[h] = x
           /\ \A k \in Handler : k # h => handler'[k] = handler[k]
  <1>1. /\ handler'[h] = x
        /\ \A k \in Handler : k # h => handler'[k] = handler[k]
        /\ handler' = [k \in Handler |-> handler'[k]]
    BY Zenon DEF Handling
  <1>2. x \in [at : {"idle", "peek", "add", "verify"}, frame : Frame \cup {NoFrame}]
    BY SMT DEF Idle
  <1>3. handler' \in [Handler -> [at : {"idle", "peek", "add", "verify"},
                                  frame : Frame \cup {NoFrame}]]
    BY Zenon, <1>1, <1>2 DEF Handling
  <1>4. \A k \in Handler : handler'[k] = Idle \/ handler'[k].frame \in Frame
    BY Zenon, <1>1 DEF Handling
  <1>5. BuiltFromEnough'
    <2>1. "fragment" \in Handler
      BY Zenon DEF Handler
    <2>2. CASE h = "fragment"
      BY Zenon, <1>1, <2>2 DEF Handling, BuiltFromEnough, Idle
    <2>3. CASE h # "fragment"
      BY Zenon, <1>1, <2>1, <2>3 DEF Handling, BuiltFromEnough, Idle
    <2> QED
      BY Zenon, <2>2, <2>3
  <1> QED
    BY Zenon, <1>1, <1>3, <1>4, <1>5 DEF Handling, Idle

\* The frame g stands for the valid frame f in the cache.
StandsFor(g, f) ==
    /\ g \in Frame /\ g = noted[Output[f]] /\ Output[g] = Output[f]
    /\ g \in Valid => Handled(g)

LEMMA StandIn ==
    ASSUME Remembering, NEW f \in Valid, Output[f] \in Range(recent)
    PROVE  \E g : StandsFor(g, f)
  BY Zenon DEF Remembering, RememberedIsHandled, StandsFor

LEMMA RememberingKept ==
    ASSUME Remembering, UNCHANGED <<recent, noted>>, trie' \subseteq Prover,
           inserted \subseteq inserted', inserted' \subseteq Frame,
           head' \in Nat, head <= head',
           \A h \in Handler : handler[h].at = "verify" => handler'[h] = handler[h]
    PROVE  Remembering'
  <1> SUFFICES RememberedIsHandled'
    BY Zenon DEF Remembering
  <1> SUFFICES ASSUME NEW f \in Valid, Output[f] \in Range(recent)
               PROVE  \E g : StandsFor(g, f)'
    BY Zenon DEF RememberedIsHandled, StandsFor
  <1>1. PICK g : StandsFor(g, f)
    BY Zenon, StandIn
  <1>2. g \in Frame /\ head \in Nat
    BY Zenon, <1>1 DEF Remembering, StandsFor
  <1>3. FrameNumber[g] <= head => FrameNumber[g] <= head'
    BY SMT, <1>2, FragmentAssumption
  <1>4. ASSUME NEW h \in Handler, handler[h] = [at |-> "verify", frame |-> g]
        PROVE  handler'[h] = [at |-> "verify", frame |-> g]
    <2>1. handler[h].at = "verify"
      BY SMT, <1>4
    <2> QED
      BY Zenon, <1>4, <2>1
  <1>5. Handled(g) => Handled(g)'
    BY Zenon, <1>3, <1>4 DEF Handled
  <1> QED
    BY Zenon, <1>1, <1>5 DEF StandsFor

LEMMA HandleFragmentKeeps ==
    ASSUME Inv, NEW f \in Frame, NEW s \in Shard, HandleFragment(f, s)
    PROVE  Inv'
  <1>1. /\ Ring /\ Handling /\ Remembering /\ handler["fragment"] = Idle
        /\ UNCHANGED <<recent, noted, trie, inserted, head>>
    BY Zenon DEF Inv, HandleFragment, reelVars, cacheVars
  <1>2. repeats' \in Nat /\ (repeats' = 0 => repeats = 0)
    BY Zenon, <1>1, RepeatsFacts
  <1>3. ASSUME handler' = handler, Ring' PROVE Inv'
    <2>1. Handling'
      BY Zenon, <1>1, <1>3 DEF Handling, BuiltFromEnough, Handler, Idle
    <2>2. Remembering'
      <3>1. head <= head'
        BY SMT, <1>1 DEF Remembering
      <3> QED
        BY Zenon, <1>1, <1>3, <3>1, RememberingKept DEF Remembering
    <2> QED
      BY Zenon, <1>3, <2>1, <2>2 DEF Inv
  <1>4. CASE f \in Range(builtKeys)
    <2>1. UNCHANGED bufferVars /\ handler' = handler
      BY Zenon, <1>4 DEF HandleFragment, AccumulateClockFrameFragment
    <2> QED
      BY Zenon, <1>1, <1>2, <1>3, <2>1, RingKept
  <1>5. CASE f \notin Range(builtKeys)
    <2>1. /\ Ring'
          /\ \/ handler' = handler
             \/ /\ handler' = [handler EXCEPT !["fragment"] = [at |-> "peek", frame |-> f]]
                /\ Cardinality(since'[f]) >= DataShards
      BY Zenon, <1>1, <1>5, FragmentKeeps
    <2>2. CASE /\ handler' = [handler EXCEPT !["fragment"] = [at |-> "peek", frame |-> f]]
               /\ Cardinality(since'[f]) >= DataShards
      <3>1. PICK x : /\ x = [at |-> "peek", frame |-> f] /\ x.frame = f
                     /\ x \in [at : {"idle", "peek", "add", "verify"},
                               frame : Frame \cup {NoFrame}]
        <4>1. /\ [at |-> "peek", frame |-> f].frame = f
              /\ [at |-> "peek", frame |-> f] \in [at : {"idle", "peek", "add", "verify"},
                                                   frame : Frame \cup {NoFrame}]
          BY SMT
        <4> QED
          BY Zenon, <4>1
      <3>2. /\ "fragment" \in Handler /\ handler'["fragment"] = x
            /\ \A k \in Handler : k # "fragment" => handler'[k] = handler[k]
            /\ handler' = [k \in Handler |-> handler'[k]]
        <4>1. "fragment" \in Handler
          BY Zenon DEF Handler
        <4> QED
          BY Zenon, <1>1, <2>2, <3>1, <4>1 DEF Handling
      <3>3. Handling'
        <4>1. handler' \in [Handler -> [at : {"idle", "peek", "add", "verify"},
                                        frame : Frame \cup {NoFrame}]]
          BY Zenon, <1>1, <3>1, <3>2 DEF Handling
        <4>2. \A k \in Handler : handler'[k] = Idle \/ handler'[k].frame \in Frame
          BY Zenon, <1>1, <3>1, <3>2 DEF Handling
        <4>3. BuiltFromEnough'
          BY Zenon, <2>2, <3>1, <3>2 DEF BuiltFromEnough
        <4> QED
          BY Zenon, <4>1, <4>2, <4>3 DEF Handling, Idle
      <3>4. Remembering'
        <4>1. head <= head' /\ Idle.at # "verify"
          BY SMT, <1>1 DEF Remembering, Idle
        <4>2. \A k \in Handler : handler[k].at = "verify" => handler'[k] = handler[k]
          BY Zenon, <1>1, <3>2, <4>1
        <4> QED
          BY Zenon, <1>1, <4>1, <4>2, RememberingKept DEF Remembering
      <3> QED
        BY Zenon, <2>1, <3>3, <3>4 DEF Inv
    <2> QED
      BY Zenon, <1>3, <2>1, <2>2
  <1> QED
    BY Zenon, <1>4, <1>5

\* Peek, Add and Verify move a goroutine on, with its frame.
LEMMA HandlerSteps ==
    ASSUME Handling, NEW h \in Handler, Peek(h) \/ Add(h) \/ Verify(h)
    PROVE  /\ Handling' /\ handler[h].frame \in Frame
           /\ \A k \in Handler : k # h => handler'[k] = handler[k]
           /\ Add(h) => handler'[h] = [at |-> "verify", frame |-> handler[h].frame]
  <1>1. handler[h].at # "idle" /\ Idle.at = "idle" /\ UNCHANGED since
    BY SMT DEF Peek, Add, Verify, Idle, bufferVars
  <1>2. handler[h] # Idle /\ handler[h].frame \in Frame
    BY Zenon, <1>1 DEF Handling
  <1>3. PICK f \in Frame : f = handler[h].frame
    BY Zenon, <1>2
  <1>4. ASSUME NEW p \in {"add", "verify"}, handler' = [handler EXCEPT ![h].at = p]
        PROVE  /\ Handling' /\ handler'[h] = [at |-> p, frame |-> f]
               /\ \A k \in Handler : k # h => handler'[k] = handler[k]
    <2>1. PICK x : x = [at |-> p, frame |-> f]
      BY Zenon
    <2>2. /\ x.at = p /\ x.frame = f /\ x = [at |-> x.at, frame |-> x.frame]
          /\ x.at \in {"peek", "add", "verify"}
      BY SMT, <1>4, <2>1
    <2>3. [handler[h] EXCEPT !.at = p] = x
      <3>1. handler[h] \in [at : {"idle", "peek", "add", "verify"}, frame : Frame \cup {NoFrame}]
        BY Zenon DEF Handling
      <3> QED
        BY SMT, <1>3, <2>1, <3>1
    <2>4. handler' = [handler EXCEPT ![h] = x]
      <3>1. handler' = [handler EXCEPT ![h] = [handler[h] EXCEPT !.at = p]]
        BY Zenon, <1>4 DEF Handling
      <3> QED
        BY Zenon, <2>3, <3>1
    <2> QED
      BY Zenon, <1>1, <1>2, <1>3, <2>1, <2>2, <2>4, HandlerMoves
  <1>5. ASSUME Leave(h)
        PROVE  /\ Handling'
               /\ \A k \in Handler : k # h => handler'[k] = handler[k]
    BY Zenon, <1>1, <1>5, HandlerMoves DEF Leave
  <1>6. CASE Peek(h)
    <2>1. handler' = [handler EXCEPT ![h].at = "add"] \/ Leave(h)
      BY Zenon, <1>6 DEF Peek
    <2>2. ~Add(h)
      BY SMT, <1>6 DEF Peek, Add
    <2> QED
      BY Zenon, <1>2, <1>4, <1>5, <2>1, <2>2
  <1>7. CASE Add(h)
    <2>1. handler' = [handler EXCEPT ![h].at = "verify"]
      BY Zenon, <1>7 DEF Add
    <2> QED
      BY Zenon, <1>2, <1>3, <1>4, <2>1
  <1>8. CASE Verify(h)
    <2>1. ~Add(h)
      BY SMT, <1>8 DEF Verify, Add
    <2> QED
      BY Zenon, <1>2, <1>5, <1>8, <2>1 DEF Verify
  <1> QED
    BY Zenon, <1>6, <1>7, <1>8

LEMMA AddKeeps ==
    ASSUME Handling, Remembering, NEW h \in Handler, Add(h) PROVE Remembering'
  <1>1. PICK f \in Frame :
          /\ f = handler[h].frame /\ handler[h].at = "add"
          /\ recent' = Pushed(Without(recent, Output[f]), Output[f], MaxRecent)
          /\ noted' = [noted EXCEPT ![Output[f]] = f]
          /\ UNCHANGED <<trie, inserted, head>>
          /\ handler'[h] = [at |-> "verify", frame |-> f]
          /\ \A k \in Handler : k # h => handler'[k] = handler[k]
    BY Zenon, HandlerSteps DEF Add, reelVars
  <1>2. /\ MaxRecent \in Nat \ {0} /\ recent \in Seq(Outputs)
        /\ noted \in [Outputs -> Frame \cup {NoFrame}]
    BY Zenon, FragmentAssumption DEF Remembering
  <1>3. PICK o \in Outputs : o = Output[f]
    BY Zenon DEF Outputs
  <1>4. PICK q \in Seq(Outputs) : q = Without(recent, o) /\ Range(q) \subseteq Range(recent)
    BY Zenon, <1>2, WithoutFacts
  <1>5. recent' \in Seq(Outputs) /\ Range(recent') \subseteq Range(q) \cup {o}
    <2>1. recent' = Pushed(q, o, MaxRecent)
      BY Zenon, <1>1, <1>3, <1>4
    <2>2. /\ Pushed(q, o, MaxRecent) \in Seq(Outputs)
          /\ Range(Pushed(q, o, MaxRecent)) \subseteq Range(q) \cup {o}
      BY Zenon, <1>2, PushedFacts
    <2> QED
      BY Zenon, <2>1, <2>2
  <1>6. /\ noted' \in [Outputs -> Frame \cup {NoFrame}] /\ noted'[o] = f
        /\ \A u \in Outputs : u # o => noted'[u] = noted[u]
    BY Zenon, <1>1, <1>2, <1>3
  <1>7. ASSUME NEW g \in Valid, Output[g] \in Range(recent')
        PROVE  \E k : StandsFor(k, g)'
    <2>1. CASE Output[g] = o
      <3>1. StandsFor(f, g)'
        BY Zenon, <1>1, <1>3, <1>6, <2>1 DEF StandsFor, Handled
      <3> QED
        BY Zenon, <3>1
    <2>2. CASE Output[g] # o
      <3>1. Output[g] \in Range(recent) /\ Output[g] \in Outputs
        BY Zenon, <1>2, <1>4, <1>5, <1>7, <2>2, InRange
      <3>2. PICK k : StandsFor(k, g)
        BY Zenon, <3>1, StandIn
      <3>3. handler[h] # [at |-> "verify", frame |-> k]
        BY SMT, <1>1
      <3>4. Handled(k) => Handled(k)'
        BY Zenon, <1>1, <3>3 DEF Handled
      <3>5. noted'[Output[g]] = noted[Output[g]]
        BY Zenon, <1>6, <2>2, <3>1
      <3>6. StandsFor(k, g)'
        BY Zenon, <3>2, <3>4, <3>5 DEF StandsFor
      <3> QED
        BY Zenon, <3>6
    <2> QED
      BY Zenon, <2>1, <2>2
  <1>8. RememberedIsHandled'
    BY Zenon, <1>7 DEF RememberedIsHandled, StandsFor
  <1> QED
    BY Zenon, <1>1, <1>5, <1>6, <1>8 DEF Remembering

LEMMA VerifyKeeps ==
    ASSUME Handling, Remembering, NEW h \in Handler, Verify(h) PROVE Remembering'
  <1>1. PICK f \in Frame :
          /\ f = handler[h].frame
          /\ inserted' = IF f \in Valid /\ FrameNumber[f] > head
                         THEN inserted \cup {f} ELSE inserted
          /\ UNCHANGED <<recent, noted, trie, head>>
          /\ \A k \in Handler : k # h => handler'[k] = handler[k]
    BY Zenon, HandlerSteps DEF Verify, cacheVars
  <1>2. f \in Valid => f \in inserted' \/ FrameNumber[f] <= head
    <2>1. FrameNumber[f] > head \/ FrameNumber[f] <= head
      BY SMT, FragmentAssumption DEF Remembering
    <2> QED
      BY Zenon, <1>1, <2>1
  <1>3. inserted \subseteq inserted' /\ inserted' \subseteq Frame
    BY Zenon, <1>1 DEF Remembering
  <1>4. ASSUME NEW g \in Valid, Handled(g) PROVE Handled(g)'
    <2>1. CASE g = f
      BY Zenon, <1>1, <1>2, <1>4, <2>1 DEF Handled
    <2>2. CASE g # f
      <3>1. handler[h] # [at |-> "verify", frame |-> g]
        BY SMT, <1>1, <2>2
      <3> QED
        BY Zenon, <1>1, <1>3, <1>4, <3>1 DEF Handled
    <2> QED
      BY Zenon, <2>1, <2>2
  <1>5. ASSUME NEW g \in Valid, Output[g] \in Range(recent')
        PROVE  \E k : StandsFor(k, g)'
    <2>1. PICK k : StandsFor(k, g)
      BY Zenon, <1>1, <1>5, StandIn
    <2>2. StandsFor(k, g)'
      BY Zenon, <1>1, <1>4, <2>1 DEF StandsFor
    <2> QED
      BY Zenon, <2>2
  <1>6. RememberedIsHandled'
    BY Zenon, <1>5 DEF RememberedIsHandled, StandsFor
  <1> QED
    BY Zenon, <1>1, <1>3, <1>6 DEF Remembering

-----------------------------------------------------------------------------
(* The invariant, and what follows.                                        *)

LEMMA InitInv == Init => Inv
  <1> SUFFICES ASSUME Init PROVE Inv
    OBVIOUS
  <1>1. DOMAIN buffers = {} /\ MaxBuffers \in Nat
    BY Zenon, FragmentAssumption DEF Init
  <1>2. /\ <<>> \in Seq(Frame) /\ Len(<<>>) = 0 /\ 0 \in Nat /\ 0 <= MaxBuffers
        /\ Range(<<>>) = {} /\ 1..0 = {}
    <2>1. /\ <<>> \in Seq(Frame) /\ Len(<<>>) = 0 /\ 0 \in Nat /\ 0 <= MaxBuffers
          /\ DOMAIN <<>> = {} /\ 1..0 = {}
      BY SMT, <1>1
    <2> QED
      BY Zenon, <2>1 DEF Range
  <1>3. BufferTypes
    BY Zenon, <1>1, <1>2 DEF Init, BufferTypes
  <1>4. Lists
    <2>1. keys = <<>> /\ builtKeys = <<>>
      BY Zenon DEF Init
    <2>2. Len(keys) = 0 /\ Range(keys) = {}
      BY Zenon, <1>2, <2>1
    <2>3. Once(keys)
      BY Zenon, <1>2, <2>2 DEF Once
    <2> QED
      BY Zenon, <1>1, <1>2, <2>2, <2>3 DEF Lists
  <1>5. Contents
    BY Zenon, <1>1 DEF Contents
  <1>6. Handling
    <2>1. Idle \in [at : {"idle", "peek", "add", "verify"}, frame : Frame \cup {NoFrame}]
      BY SMT DEF Idle
    <2>2. handler = [h \in Handler |-> Idle] /\ "fragment" \in Handler
      BY Zenon DEF Init, Handler
    <2> QED
      BY Zenon, <2>1, <2>2 DEF Handling, BuiltFromEnough
  <1>7. Remembering
    <2>1. recent = <<>> /\ <<>> \in Seq(Outputs)
      BY SMT DEF Init
    <2>2. RememberedIsHandled
      BY Zenon, <1>2, <2>1 DEF RememberedIsHandled
    <2> QED
      BY Zenon, <1>2, <2>1, <2>2 DEF Init, Remembering
  <1> QED
    BY Zenon, <1>3, <1>4, <1>5, <1>6, <1>7 DEF Inv, Ring

LEMMA InvStep == Inv /\ [Next]_vars => Inv'
  <1> SUFFICES ASSUME Inv, [Next]_vars PROVE Inv'
    OBVIOUS
  <1>1. Ring /\ Handling /\ Remembering
    BY Zenon DEF Inv
  <1>2. ASSUME UNCHANGED <<bufferVars, repeats>> PROVE Ring'
    <2>1. repeats \in Nat
      BY Zenon, <1>1 DEF Ring, BufferTypes
    <2> QED
      BY Zenon, <1>1, <1>2, <2>1, RingKept
  <1>3. ASSUME UNCHANGED <<handler, since>> PROVE Handling'
    BY Zenon, <1>1, <1>3 DEF Handling, BuiltFromEnough, Handler, Idle
  <1>4. head \in Nat /\ head <= head
    BY SMT, <1>1 DEF Remembering
  <1>5. ASSUME NEW f \in Frame, NEW s \in Shard, HandleFragment(f, s) PROVE Inv'
    BY Zenon, <1>5, HandleFragmentKeeps
  <1>6. ASSUME NEW f \in Frame, HandleFrame(f) PROVE Inv'
    <2>1. /\ handler["frame"] = Idle /\ UNCHANGED <<bufferVars, repeats, since>>
          /\ UNCHANGED <<recent, noted, trie, inserted, head>>
          /\ handler' = [handler EXCEPT !["frame"] = [at |-> "peek", frame |-> f]]
      BY Zenon, <1>6 DEF HandleFrame, bufferVars, reelVars, cacheVars
    <2>2. PICK x : x = [at |-> "peek", frame |-> f]
      BY Zenon
    <2>3. /\ x.at \in {"peek", "add", "verify"} /\ x.frame \in Frame
          /\ x = [at |-> x.at, frame |-> x.frame]
          /\ "frame" # "fragment" /\ Idle.at # "verify"
      BY SMT, <2>2 DEF Idle
    <2>4. "frame" \in Handler
      BY Zenon DEF Handler
    <2>5. /\ Handling'
          /\ \A k \in Handler : k # "frame" => handler'[k] = handler[k]
      BY Zenon, <1>1, <2>1, <2>2, <2>3, <2>4, HandlerMoves
    <2>6. \A k \in Handler : handler[k].at = "verify" => handler'[k] = handler[k]
      BY Zenon, <2>1, <2>3, <2>5
    <2>7. Remembering'
      BY Zenon, <1>1, <1>4, <2>1, <2>6, RememberingKept DEF Remembering
    <2> QED
      BY Zenon, <1>2, <2>1, <2>5, <2>7 DEF Inv
  <1>7. ASSUME NEW f \in Frame, SetHead(f) PROVE Inv'
    <2>1. /\ UNCHANGED <<bufferVars, repeats, handler, since, recent, noted, trie, inserted>>
          /\ head' = head + 1
      BY Zenon, <1>7 DEF SetHead, bufferVars, cacheVars
    <2>2. head' \in Nat /\ head <= head'
      BY SMT, <1>4, <2>1
    <2>3. Remembering'
      BY Zenon, <1>1, <2>1, <2>2, RememberingKept DEF Remembering
    <2> QED
      BY Zenon, <1>2, <1>3, <2>1, <2>3 DEF Inv
  <1>8. ASSUME NEW p \in Prover, UpdateTries(p) PROVE Inv'
    <2>1. /\ UNCHANGED <<bufferVars, repeats, handler, since, recent, noted, inserted, head>>
          /\ trie' = IF p \in trie THEN trie \ {p} ELSE trie \cup {p}
      BY Zenon, <1>8 DEF UpdateTries, bufferVars, reelVars, cacheVars
    <2>2. trie' \subseteq Prover
      BY Zenon, <1>1, <2>1 DEF Remembering
    <2>3. Remembering'
      BY Zenon, <1>1, <1>4, <2>1, <2>2, RememberingKept DEF Remembering
    <2> QED
      BY Zenon, <1>2, <1>3, <2>1, <2>3 DEF Inv
  <1>9. ASSUME NEW h \in Handler, Peek(h) \/ Add(h) \/ Verify(h) PROVE Inv'
    <2>1. /\ Handling' /\ UNCHANGED <<bufferVars, repeats>>
          /\ \A k \in Handler : k # h => handler'[k] = handler[k]
      BY Zenon, <1>1, <1>9, HandlerSteps DEF Peek, Add, Verify
    <2>2. CASE Peek(h)
      <3>1. UNCHANGED <<recent, noted, trie, inserted, head>>
        BY Zenon, <2>2 DEF Peek, reelVars, cacheVars
      <3>2. handler[h].at # "verify"
        BY SMT, <2>2 DEF Peek
      <3>3. \A k \in Handler : handler[k].at = "verify" => handler'[k] = handler[k]
        BY Zenon, <2>1, <3>2
      <3> QED
        BY Zenon, <1>1, <1>2, <1>4, <2>1, <3>1, <3>3, RememberingKept DEF Inv, Remembering
    <2>3. CASE Add(h) \/ Verify(h)
      BY Zenon, <1>1, <1>2, <2>1, <2>3, AddKeeps, VerifyKeeps DEF Inv
    <2> QED
      BY Zenon, <1>9, <2>2, <2>3
  <1>10. CASE UNCHANGED vars
    <2>1. UNCHANGED <<bufferVars, repeats, handler, since, recent, noted, trie, inserted,
                    head>>
      BY Zenon, <1>10 DEF vars, bufferVars, reelVars, cacheVars
    <2>2. Remembering'
      BY Zenon, <1>1, <1>4, <2>1, RememberingKept DEF Remembering
    <2> QED
      BY Zenon, <1>2, <1>3, <2>1, <2>2 DEF Inv
  <1> QED
    BY Zenon, <1>5, <1>6, <1>7, <1>8, <1>9, <1>10 DEF Next

LEMMA Invariance == Spec => []Inv
  BY InitInv, InvStep, PTL DEF Spec

\* All variables of the fragment buffers and of the handlers keep their types.
THEOREM TypeCorrect == Spec => []TypeOK
  <1>1. Inv => TypeOK
    BY Zenon DEF Inv, Ring, BufferTypes, Handling, Remembering, TypeOK
  <1> QED
    BY <1>1, Invariance, PTL

\* The ring of buffers and its list of keys tell the same, whatever is evicted
\* or built (clockFrameFragmentCircularBuffer.AccumulateClockFrameFragment).
THEOREM RingInOrder == Spec => []BuffersInOrder
  <1>1. Inv => BuffersInOrder
    <2> SUFFICES ASSUME Inv PROVE BuffersInOrder
      OBVIOUS
    <2>1. keys \in Seq(Frame) /\ Lists
      BY Zenon DEF Inv, Ring, BufferTypes
    <2>2. Len(keys) = Cardinality(Range(keys))
      BY Zenon, <2>1, OnceCounts DEF Lists
    <2> QED
      BY Zenon, <2>1, <2>2 DEF Lists, BuffersInOrder
  <1> QED
    BY <1>1, Invariance, PTL

\* A frame that is handed on by handleClockFrameFragment was assembled from at
\* least DataShards different shards.
THEOREM NeverFromTooFew == Spec => []BuiltFromEnough
  <1>1. Inv => BuiltFromEnough
    BY Zenon DEF Inv, Handling
  <1> QED
    BY <1>1, Invariance, PTL

\* handleClockFrame loses a valid frame above the head to the cache of recently
\* processed outputs only to another frame with its output that was noted last
\* and does not verify, although it notes a frame before it verifies it.
THEOREM NothingForgotten == Spec => []RememberedIsHandled
  <1>1. Inv => RememberedIsHandled
    BY Zenon DEF Inv, Remembering
  <1> QED
    BY <1>1, Invariance, PTL

\* Where no two frames have an output in common, handleClockFrame loses no valid
\* frame above the head to the cache.
THEOREM NothingForgottenOfDistinct ==
    ASSUME \A f, g \in Frame : Output[f] = Output[g] => f = g, Valid \subseteq Frame
    PROVE  Spec => [](\A f \in Valid : Output[f] \in Range(recent) => Handled(f))
  <1>1. Inv => \A f \in Valid : Output[f] \in Range(recent) => Handled(f)
    <2> SUFFICES ASSUME Inv, NEW f \in Valid, Output[f] \in Range(recent)
                 PROVE  Handled(f)
      OBVIOUS
    <2>1. PICK g : StandsFor(g, f)
      BY Zenon, StandIn DEF Inv
    <2>2. g = f
      BY Zenon, <2>1 DEF StandsFor
    <2> QED
      BY Zenon, <2>1, <2>2 DEF StandsFor
  <1> QED
    BY <1>1, Invariance, PTL

\* With four data shards or more, and as long as no fragment is repeated, every
\* buffer gives its frame with the fragment that completes it, in whatever
\* order the fragments come. (AssembleClockFrame learns the frame hash from the
\* fourth fragment only.)
THEOREM OrderIndependence ==
    ASSUME DataShards >= 4 PROVE Spec => []OrderIsNoMatter
  <1>1. Inv => OrderIsNoMatter
    BY Zenon DEF Inv, Ring, Contents, Exact, OrderIsNoMatter, SufficientBuilds
  <1> QED
    BY <1>1, Invariance, PTL
=============================================================================
