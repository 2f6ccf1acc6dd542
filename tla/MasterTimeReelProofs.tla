------------------------ MODULE MasterTimeReelProofs ------------------------
(***************************************************************************)
(* The safety properties of the master time reel, for every set of frames, *)
(* every chain and fork they form, and any number of crashes.              *)
(*                                                                         *)
(* The invariant that carries the proof is Inv.  HeadIsLatest and          *)
(* ChainIntegrity are not inductive alone: Start trusts a store whose      *)
(* genesis has the right difficulty (StoreCases), processPending relies on *)
(* the buffer holding frames under their own number and above the head     *)
(* (PendingNumbered, PendingAhead), and a bad frame stays bad because the  *)
(* frame below it can no longer change (ReportsInv).                       *)
(***************************************************************************)
EXTENDS MasterTimeReel, SequenceTheorems, TLAPS

OldGenesisStored == stored[0] # NoFrame /\ Difficulty[stored[0]] # FixedDifficulty

\* What the store holds, by what Start makes of it.
StoreCases ==
    /\ Based \/ stored = EmptyStore \/ OldGenesisStored
    /\ phase = "reset" => OldGenesisStored
    /\ phase \in {"resetEarliest", "resetLatest", "genesis"} =>
          stored = EmptyStore

\* A frame is buffered under its own number.
PendingNumbered ==
    \A n \in Number : \A i \in DOMAIN pending[n] : FrameNumber[pending[n][i]] = n

\* Buffered frames are above the head, also inside processPending.
PendingAhead ==
    Started => \A n \in Number : NonEmpty(pending[n]) => n > FrameNumber[head]

\* Until the reel has started, nothing is buffered or reported.
Quiet == ~Started => pending = NoPending /\ badFrames = {} /\ newFrames = {}

\* A frame reported as bad does not fit the frame committed below its number,
\* and a frame reported as new is committed.
ReportsInv ==
    /\ \A f \in badFrames : /\ FrameNumber[f] \in 1..(latest + 1)
                            /\ ~IsChild(stored[FrameNumber[f] - 1], f)
    /\ \A f \in newFrames : /\ FrameNumber[f] \in 1..latest
                            /\ stored[FrameNumber[f]] = f

Inv ==
    /\ TypeOK
    /\ StoreCases
    /\ ChainIntegrity
    /\ HeadIsLatest
    /\ PendingNumbered
    /\ PendingAhead
    /\ NothingReady
    /\ Quiet
    /\ ReportsInv

\* A list with f appended holds f and what it held before.
LEMMA AppendElements ==
    ASSUME NEW T, NEW q \in Seq(T), NEW f \in T, NEW i \in DOMAIN Append(q, f)
    PROVE  \/ Append(q, f)[i] = f
           \/ i \in DOMAIN q /\ Append(q, f)[i] = q[i]
  BY AppendProperties, LenProperties

\* Appending to a list given by its elements.
LEMMA AppendToList ==
    ASSUME NEW T, NEW m \in Nat, NEW q \in [1..m -> T], NEW f \in T
    PROVE  Append(q, f) = [i \in 1..(m + 1) |-> IF i = m + 1 THEN f ELSE q[i]]
  <1> DEFINE r == [i \in 1..(m + 1) |-> IF i = m + 1 THEN f ELSE q[i]]
  <1>1. q \in Seq(T) /\ Len(q) = m
    OBVIOUS
  <1>2. /\ Append(q, f) \in Seq(T) /\ Len(Append(q, f)) = m + 1
        /\ \A i \in 1..m : Append(q, f)[i] = q[i]
        /\ Append(q, f)[m + 1] = f
    BY <1>1, AppendProperties
  <1>3. r \in Seq(T) /\ Len(r) = m + 1
    OBVIOUS
  <1>4. \A i \in 1..(m + 1) : Append(q, f)[i] = r[i]
    BY <1>2
  <1> HIDE DEF r
  <1>5. Append(q, f) = r
    BY Zenon, <1>2, <1>3, <1>4, SeqEqual
  <1> QED BY Zenon, <1>5 DEF r

LEMMA PriorNumber ==
    \A k \in Nat : \A m \in 0..k : \A n \in 1..(m + 1) : n - 1 \in 0..(k + 1) /\ n - 1 # m + 1
  OBVIOUS

LEMMA WithinNumber == \A k \in Nat : 0..k \subseteq 0..(k + 1)
  OBVIOUS

LEMMA OneMore == \A k \in Nat : \A n \in 0..k : n < k => n + 1 \in 0..k
  OBVIOUS

USE MaxFrameAssumption, FrameAssumption, GenesisAssumption,
    DifficultyAssumption, BoundAssumption

-----------------------------------------------------------------------------
(* Committing a child of the head.                                         *)

\* Advance on a child of the head keeps the chain whole, makes that child
\* the head and the latest frame, and leaves every older frame alone.
LEMMA AdvanceExtends ==
    ASSUME Inv, Started, NEW f \in Frame, Follows(head, f), Advance(f)
    PROVE  /\ stored' \in [Number -> Frame \cup {NoFrame}]
           /\ earliest' \in 0..MaxFrame \cup {NoFrame}
           /\ latest' = latest + 1
           /\ latest' \in 0..MaxFrame
           /\ latest \in 0..MaxFrame
           /\ stored' = [stored EXCEPT ![latest + 1] = f]
           /\ Based'
           /\ ChainIntegrity'
           /\ head' = f
           /\ head' = stored'[latest']
           /\ FrameNumber[head'] = latest'
  <1>1. /\ Based
        /\ latest \in 0..MaxFrame
        /\ FrameNumber[head] = latest
        /\ head = stored[latest]
    BY Zenon DEF Inv, TypeOK, HeadIsLatest, ChainIntegrity
  <1>2. /\ FrameNumber[f] = latest + 1
        /\ FrameNumber[f] \in 0..MaxFrame
    BY Zenon, <1>1 DEF Follows
  <1>3. /\ stored' = [stored EXCEPT ![latest + 1] = f]
        /\ latest' = latest + 1
        /\ head' = f
        /\ earliest' \in 0..MaxFrame \cup {NoFrame}
    BY Zenon, <1>1, <1>2 DEF Advance, PutMasterClockFrame, Inv, TypeOK
  <1>4. latest + 1 \in Number
    BY <1>1, <1>2 DEF Number
  <1>5. stored' \in [Number -> Frame \cup {NoFrame}]
    BY Zenon, <1>3, <1>4 DEF Inv, TypeOK
  <1>6. /\ stored'[latest + 1] = f
        /\ \A n \in Number : n # latest + 1 => stored'[n] = stored[n]
    BY Zenon, <1>3, <1>4 DEF Inv, TypeOK
  <1>7. Based'
    BY <1>1, <1>6 DEF Based, Number
  <1>8. ChainIntegrity'
    <2>1. \A n \in Number : (stored'[n] # NoFrame) <=> (n <= latest')
      BY <1>1, <1>3, <1>6 DEF Inv, ChainIntegrity, Number
    <2>2. ASSUME NEW n \in 1..latest'
          PROVE  /\ FrameNumber[stored'[n]] = n
                 /\ IsChild(stored'[n-1], stored'[n])
      <3>1. n \in Number /\ n - 1 \in Number /\ stored'[n-1] = stored[n-1]
        BY <1>1, <1>2, <1>3, <1>6 DEF Number
      <3>2. CASE n = latest + 1
        BY <1>1, <1>2, <1>6, <3>1, <3>2 DEF Follows
      <3>3. CASE n # latest + 1
        BY <1>1, <1>3, <1>6, <3>1, <3>3 DEF Inv, ChainIntegrity
      <3> QED BY Zenon, <3>2, <3>3
    <2>3. latest' # NoFrame
      BY <1>1, <1>3
    <2> QED BY Zenon, <2>1, <2>2, <2>3 DEF ChainIntegrity
  <1> QED BY Zenon, <1>1, <1>2, <1>3, <1>5, <1>6, <1>7, <1>8

\* The buffer keeps only keys above the new head.
PendingCut ==
    /\ pending' \in [Number -> Seq(Frame)]
    /\ \A n \in Number : NonEmpty(pending'[n]) =>
                          pending'[n] = pending[n] /\ n > latest + 1

\* The frames of B are reported as bad, all of them rivals of the new head.
BadReported(B) ==
    /\ badFrames' = badFrames \cup B
    /\ \A b \in B : /\ b \in Frame
                    /\ FrameNumber[b] = latest + 1
                    /\ ~IsChild(head, b)

\* The variables that committing a frame does not concern.
RestTyped ==
    phase' = "pending" /\ inflight' \in [Frame -> 0..MaxCopies] /\ crashes' = crashes

\* What a step that commits a child of the head does to Inv, whichever of
\* the two places of the code takes it.
LEMMA AdvancePreserves ==
    ASSUME Inv, Started, NEW f \in Frame, Follows(head, f), Advance(f),
           NEW B, BadReported(B), PendingCut, RestTyped
    PROVE  Inv'
  <1>1. /\ stored' \in [Number -> Frame \cup {NoFrame}]
        /\ earliest' \in 0..MaxFrame \cup {NoFrame}
        /\ latest' = latest + 1
        /\ latest' \in 0..MaxFrame
        /\ latest \in 0..MaxFrame
        /\ stored' = [stored EXCEPT ![latest + 1] = f]
        /\ Based'
        /\ ChainIntegrity'
        /\ head' = f
        /\ head' = stored'[latest']
        /\ FrameNumber[head'] = latest'
    BY Zenon, AdvanceExtends
  <1>2. /\ head = stored[latest]
        /\ FrameNumber[head] = latest
        /\ newFrames' = newFrames \cup {f}
    BY Zenon DEF Inv, HeadIsLatest, Advance
  <1>3. /\ stored'[latest + 1] = f
        /\ \A n \in Number : n # latest + 1 => stored'[n] = stored[n]
    BY Zenon, <1>1 DEF Inv, TypeOK, Number
  <1>4. TypeOK'
    <2>1. badFrames' \subseteq Frame /\ newFrames' \subseteq Frame
      BY Zenon, <1>2 DEF Inv, TypeOK, BadReported
    <2>2. phase' \in Phase /\ inflight' \in [Frame -> 0..MaxCopies]
      BY Zenon DEF RestTyped, Phase
    <2>3. pending' \in [Number -> Seq(Frame)]
      BY Zenon DEF PendingCut
    <2>4. crashes' \in 0..MaxCrashes
      BY Zenon DEF RestTyped, Inv, TypeOK
    <2>5. /\ stored' \in [Number -> Frame \cup {NoFrame}]
          /\ earliest' \in 0..MaxFrame \cup {NoFrame}
          /\ latest' \in 0..MaxFrame
          /\ head' \in Frame
      BY Zenon, <1>1
    <2> QED BY Zenon, <2>1, <2>2, <2>3, <2>4, <2>5 DEF TypeOK
  <1>5. StoreCases'
    BY Zenon, <1>1 DEF StoreCases, RestTyped
  <1>6. HeadIsLatest'
    BY Zenon, <1>1 DEF HeadIsLatest
  <1>7. PendingNumbered'
    <2>1. ASSUME NEW n \in Number, NEW i \in DOMAIN pending'[n]
          PROVE  FrameNumber[pending'[n][i]] = n
      <3>1. NonEmpty(pending'[n])
        BY <2>1 DEF NonEmpty
      <3>2. pending'[n] = pending[n]
        BY Zenon, <3>1 DEF PendingCut
      <3> QED BY Zenon, <2>1, <3>2 DEF Inv, PendingNumbered
    <2> QED BY Zenon, <2>1 DEF PendingNumbered
  <1>8. PendingAhead' /\ NothingReady'
    <2>1. \A n \in Number : NonEmpty(pending'[n]) => n > latest + 1
      BY Zenon DEF PendingCut
    <2>2. FrameNumber[head'] = latest + 1
      BY Zenon, <1>1
    <2>3. \A n \in Number : NonEmpty(pending'[n]) => n > FrameNumber[head']
      BY Zenon, <2>1, <2>2
    <2>4. phase' = "pending"
      BY Zenon DEF RestTyped
    <2> QED BY Zenon, <2>3, <2>4 DEF PendingAhead, NothingReady
  <1>9. Quiet'
    BY Zenon DEF Quiet, Started, RestTyped
  <1>10. ReportsInv'
    <2>2. ASSUME NEW b \in badFrames'
          PROVE  /\ FrameNumber[b] \in 1..(latest' + 1)
                 /\ ~IsChild(stored'[FrameNumber[b] - 1], b)
      <3>1. /\ FrameNumber[b] \in 1..(latest + 1)
            /\ ~IsChild(stored[FrameNumber[b] - 1], b)
        <4>1. CASE b \in badFrames
          BY Zenon, <4>1 DEF Inv, ReportsInv
        <4>2. CASE b \in B
          BY <1>1, <1>2, <4>2 DEF BadReported
        <4> QED BY Zenon, <2>2, <4>1, <4>2 DEF BadReported
      <3>2. /\ FrameNumber[b] - 1 \in Number
            /\ FrameNumber[b] - 1 # latest + 1
        <4>1. MaxFrame \in Nat /\ latest \in 0..MaxFrame /\ FrameNumber[b] \in 1..(latest + 1)
          BY Zenon, <1>1, <3>1
        <4> HIDE MaxFrameAssumption, FrameAssumption, GenesisAssumption,
                 DifficultyAssumption, BoundAssumption
        <4>2. FrameNumber[b] - 1 \in 0..(MaxFrame + 1) /\ FrameNumber[b] - 1 # latest + 1
          BY Zenon, <4>1, PriorNumber
        <4> QED
          BY Zenon, <4>2 DEF Number
      <3>3. stored'[FrameNumber[b] - 1] = stored[FrameNumber[b] - 1]
        BY Zenon, <1>3, <3>2
      <3> QED BY <1>1, <3>1, <3>3
    <2>3. ASSUME NEW b \in newFrames'
          PROVE  FrameNumber[b] \in 1..latest' /\ stored'[FrameNumber[b]] = b
      <3>1. CASE b = f
        BY <1>1, <1>3, <3>1
      <3>2. CASE b \in newFrames
        <4>1. FrameNumber[b] \in 1..latest /\ stored[FrameNumber[b]] = b
          BY Zenon, <3>2 DEF Inv, ReportsInv
        <4> QED BY SMTT(30), <1>1, <1>3, <4>1 DEF Number
      <3> QED BY Zenon, <1>2, <2>3, <3>1, <3>2
    <2> QED BY Zenon, <2>2, <2>3 DEF ReportsInv
  <1> QED BY Zenon, <1>1, <1>4, <1>5, <1>6, <1>7, <1>8, <1>9, <1>10 DEF Inv

-----------------------------------------------------------------------------
(* The initial states and the steps, one lemma per action.                 *)

\* The facts that make Inv true of a reel that has not started.
NotStartedInv ==
    /\ TypeOK /\ StoreCases /\ ChainIntegrity
    /\ ~Started
    /\ pending = NoPending /\ badFrames = {} /\ newFrames = {}

\* Before the reel has started Inv only depends on the store.
LEMMA QuietInv == NotStartedInv => Inv
  <1> SUFFICES ASSUME NotStartedInv PROVE Inv
    BY Zenon
  <1>1. ~Started /\ pending = NoPending /\ badFrames = {} /\ newFrames = {}
    BY Zenon DEF NotStartedInv
  <1>2. HeadIsLatest /\ PendingAhead
    BY Zenon, <1>1 DEF HeadIsLatest, PendingAhead
  <1>3. NothingReady
    BY Zenon, <1>1 DEF NothingReady, Started
  <1>4. Quiet /\ ReportsInv
    BY Zenon, <1>1 DEF Quiet, ReportsInv
  <1>5. PendingNumbered
    BY <1>1 DEF PendingNumbered, NoPending
  <1> QED BY Zenon, <1>2, <1>3, <1>4, <1>5 DEF Inv, NotStartedInv

LEMMA InitInv == Init => Inv
  <1> SUFFICES ASSUME Init PROVE Inv
    BY Zenon
  <1>1. /\ phase = "down" /\ head = NoFrame /\ pending = NoPending
        /\ inflight = NoInflight /\ newFrames = {} /\ badFrames = {}
        /\ crashes = 0
    BY Zenon DEF Init
  <1>2. pending \in [Number -> Seq(Frame)]
    BY <1>1 DEF NoPending
  <1>3. inflight \in [Frame -> 0..MaxCopies]
    BY <1>1 DEF NoInflight
  <1>4. /\ stored \in [Number -> Frame \cup {NoFrame}]
        /\ earliest \in 0..MaxFrame \cup {NoFrame}
        /\ latest \in 0..MaxFrame \cup {NoFrame}
    BY DEF Init, NewStore, OldStore, EmptyStore
  <1>5. TypeOK
    BY <1>1, <1>2, <1>3, <1>4 DEF TypeOK, Phase
  <1>6. StoreCases /\ ~Based
    <2>1. CASE NewStore
      BY <1>1, <2>1 DEF NewStore, EmptyStore, StoreCases, Based, Number
    <2>2. CASE OldStore
      BY Zenon, <1>1, <2>2 DEF OldStore, StoreCases, OldGenesisStored, Based
    <2> QED BY Zenon, <2>1, <2>2 DEF Init
  <1>7. ChainIntegrity
    BY Zenon, <1>6 DEF ChainIntegrity
  <1>8. ~Started
    BY Zenon, <1>1 DEF Started
  <1> QED BY Zenon, <1>1, <1>5, <1>6, <1>7, <1>8, QuietInv DEF NotStartedInv

\* The steps of Start: the reads, the three writes of a reset, the genesis.
LEMMA StartPreserves == Inv /\ StartStep => Inv'
  <1> SUFFICES ASSUME Inv, StartStep PROVE Inv'
    BY Zenon
  <1>1. /\ ~Started
        /\ pending = NoPending /\ badFrames = {} /\ newFrames = {}
    BY Zenon DEF Inv, Quiet, StartStep, Start, ResetFrames, ResetEarliest,
           ResetLatest, CreateGenesisFrame, Started
  <1>2. /\ pending' = NoPending /\ badFrames' = {} /\ newFrames' = {}
        /\ inflight' = inflight /\ crashes' = crashes
    BY Zenon, <1>1 DEF StartStep, Start, ResetFrames, ResetEarliest, ResetLatest,
                CreateGenesisFrame, channels
  <1>3. /\ pending' \in [Number -> Seq(Frame)]
        /\ inflight' \in [Frame -> 0..MaxCopies]
        /\ crashes' \in 0..MaxCrashes
        /\ newFrames' \subseteq Frame /\ badFrames' \subseteq Frame
    BY Zenon, <1>1, <1>2 DEF Inv, TypeOK
  <1>4. \A n \in Number : ~NonEmpty(pending'[n])
    BY Zenon, <1>2 DEF NonEmpty, NoPending
  <1>5. PendingNumbered'
    BY <1>2 DEF PendingNumbered, NoPending
  <1>6. PendingAhead' /\ NothingReady'
    BY Zenon, <1>4 DEF PendingAhead, NothingReady
  <1>7. Quiet' /\ ReportsInv'
    BY Zenon, <1>2 DEF Quiet, ReportsInv
  <1>8. TypeOK' /\ StoreCases' /\ ChainIntegrity' /\ HeadIsLatest'
    <2>1. CASE Start
      <3>1. /\ stored' = stored /\ earliest' = earliest /\ latest' = latest
            /\ phase = "down"
        BY Zenon, <2>1 DEF Start, durable
      <3>2. ChainIntegrity'
        BY Zenon, <3>1 DEF Inv, ChainIntegrity, Based
      <3>3. CASE phase' = "reset" /\ head' = head /\ OldGenesisStored
        <4>1. TypeOK'
          BY Zenon, <1>3, <3>1, <3>3 DEF Inv, TypeOK, Phase
        <4>2. StoreCases' /\ HeadIsLatest'
          BY Zenon, <3>1, <3>3 DEF StoreCases, HeadIsLatest, Started, OldGenesisStored
        <4> QED BY Zenon, <3>2, <4>1, <4>2
      <3>4. CASE /\ phase' = "genesis" /\ head' = head
                 /\ stored[0] # NoFrame => Difficulty[stored[0]] = FixedDifficulty
                 /\ stored[0] = NoFrame \/ GetLatestMasterClockFrame = NoFrame
        <4>1. ~OldGenesisStored
          BY Zenon, <3>4 DEF OldGenesisStored
        <4>2. ~Based
          <5> SUFFICES ASSUME Based PROVE FALSE
            BY Zenon
          <5>1. latest \in 0..MaxFrame /\ stored[latest] # NoFrame
            BY DEF Inv, TypeOK, ChainIntegrity, Number
          <5>2. stored[0] # NoFrame
            BY Zenon DEF Based
          <5> QED BY <3>4, <5>1, <5>2 DEF GetLatestMasterClockFrame
        <4>3. stored = EmptyStore
          BY Zenon, <4>1, <4>2 DEF Inv, StoreCases
        <4>4. TypeOK'
          BY Zenon, <1>3, <3>1, <3>4 DEF Inv, TypeOK, Phase
        <4>5. stored' = EmptyStore
          BY Zenon, <3>1, <4>3
        <4>6. StoreCases' /\ HeadIsLatest'
          BY Zenon, <3>4, <4>5 DEF StoreCases, HeadIsLatest, Started
        <4> QED BY Zenon, <3>2, <4>4, <4>6
      <3>5. CASE /\ phase' = "idle" /\ head' = GetLatestMasterClockFrame
                 /\ stored[0] # NoFrame /\ Difficulty[stored[0]] = FixedDifficulty
        <4>1. Based
          <5>1. stored # EmptyStore
            BY <3>5 DEF EmptyStore, Number
          <5> QED BY Zenon, <3>5, <5>1 DEF Inv, StoreCases, OldGenesisStored
        <4>2. latest \in 0..MaxFrame /\ stored[latest] \in Frame
          BY <4>1 DEF Inv, TypeOK, ChainIntegrity, Number
        <4>3. head' = stored[latest]
          BY <3>5, <4>2 DEF GetLatestMasterClockFrame
        <4>4. FrameNumber[stored[latest]] = latest
          <5>1. CASE latest = 0
            BY Zenon, <4>1, <5>1 DEF Based
          <5>2. CASE latest # 0
            BY <4>1, <4>2, <5>2 DEF Inv, ChainIntegrity
          <5> QED BY Zenon, <5>1, <5>2
        <4>5. TypeOK'
          <5>1. /\ stored' \in [Number -> Frame \cup {NoFrame}]
                /\ earliest' \in 0..MaxFrame \cup {NoFrame}
                /\ latest' \in 0..MaxFrame \cup {NoFrame}
            BY Zenon, <3>1 DEF Inv, TypeOK
          <5>2. phase' \in Phase /\ head' \in Frame \cup {NoFrame}
            BY Zenon, <3>5, <4>2, <4>3 DEF Inv, TypeOK, Phase
          <5> QED BY Zenon, <1>3, <5>1, <5>2 DEF TypeOK
        <4>6. Based'
          BY Zenon, <3>1, <4>1 DEF Based
        <4>7. HeadIsLatest'
          BY Zenon, <3>1, <4>3, <4>4, <4>6 DEF HeadIsLatest
        <4>8. StoreCases'
          BY Zenon, <3>5, <4>6 DEF StoreCases
        <4> QED BY Zenon, <3>2, <4>5, <4>7, <4>8
      <3> QED BY Zenon, <2>1, <3>3, <3>4, <3>5 DEF Start, OldGenesisStored
    <2>2. CASE ResetFrames
      <3>1. /\ stored' = EmptyStore /\ phase' = "resetEarliest"
            /\ earliest' = earliest /\ latest' = latest /\ head' = head
        BY Zenon, <2>2 DEF ResetFrames
      <3>2. stored' \in [Number -> Frame \cup {NoFrame}] /\ ~Based'
        BY <3>1 DEF EmptyStore, Based, Number
      <3>3. TypeOK'
        <4>1. /\ stored' \in [Number -> Frame \cup {NoFrame}]
              /\ earliest' \in 0..MaxFrame \cup {NoFrame}
              /\ latest' \in 0..MaxFrame \cup {NoFrame}
          BY Zenon, <3>1, <3>2 DEF Inv, TypeOK
        <4>2. phase' \in Phase /\ head' \in Frame \cup {NoFrame}
          BY Zenon, <3>1 DEF Inv, TypeOK, Phase
        <4> QED BY Zenon, <1>3, <4>1, <4>2 DEF TypeOK
      <3>4. StoreCases' /\ ChainIntegrity' /\ HeadIsLatest'
        BY Zenon, <3>1, <3>2 DEF StoreCases, ChainIntegrity, HeadIsLatest, Started
      <3> QED BY Zenon, <3>3, <3>4
    <2>3. CASE ResetEarliest \/ ResetLatest
      <3>1. /\ stored' = stored /\ stored = EmptyStore
            /\ phase' \in {"resetLatest", "genesis"} /\ head' = head
            /\ earliest' \in {earliest, NoFrame} /\ latest' \in {latest, NoFrame}
        BY Zenon, <2>3 DEF ResetEarliest, ResetLatest, Inv, StoreCases
      <3>2. ~Based'
        BY <3>1 DEF EmptyStore, Based, Number
      <3>3. TypeOK'
        <4>1. /\ stored' \in [Number -> Frame \cup {NoFrame}]
              /\ earliest' \in 0..MaxFrame \cup {NoFrame}
              /\ latest' \in 0..MaxFrame \cup {NoFrame}
          BY Zenon, <3>1 DEF Inv, TypeOK
        <4>2. phase' \in Phase /\ head' \in Frame \cup {NoFrame}
          BY Zenon, <3>1 DEF Inv, TypeOK, Phase
        <4> QED BY Zenon, <1>3, <4>1, <4>2 DEF TypeOK
      <3>4. StoreCases' /\ ChainIntegrity' /\ HeadIsLatest'
        BY Zenon, <3>1, <3>2 DEF StoreCases, ChainIntegrity, HeadIsLatest, Started
      <3> QED BY Zenon, <3>3, <3>4
    <2>4. CASE CreateGenesisFrame
      <3>1. /\ stored = EmptyStore
            /\ stored' = [stored EXCEPT ![0] = Genesis]
            /\ latest' = 0 /\ head' = Genesis /\ phase' = "idle"
            /\ earliest' \in {earliest, 0}
        BY Zenon, <2>4 DEF CreateGenesisFrame, PutMasterClockFrame, Inv, StoreCases
      <3>2. stored \in [Number -> Frame \cup {NoFrame}] /\ 0 \in Number
        BY DEF Inv, TypeOK, Number
      <3>3. /\ stored' \in [Number -> Frame \cup {NoFrame}]
            /\ stored'[0] = Genesis
            /\ \A n \in Number : n # 0 => stored'[n] = NoFrame
        <4>1. \A n \in Number : stored[n] = NoFrame
          BY Zenon, <3>1 DEF EmptyStore
        <4>2. stored' = [stored EXCEPT ![0] = Genesis]
          BY Zenon, <3>1
        <4> QED BY Zenon, <3>2, <4>1, <4>2
      <3>4. Based'
        BY Zenon, <3>3 DEF Based
      <3>5. TypeOK'
        <4>1. /\ stored' \in [Number -> Frame \cup {NoFrame}]
              /\ earliest' \in 0..MaxFrame \cup {NoFrame}
              /\ latest' \in 0..MaxFrame \cup {NoFrame}
          BY <3>1, <3>3 DEF Inv, TypeOK
        <4>2. phase' \in Phase /\ head' \in Frame \cup {NoFrame}
          BY Zenon, <3>1 DEF Inv, TypeOK, Phase
        <4> QED BY Zenon, <1>3, <4>1, <4>2 DEF TypeOK
      <3>6. ChainIntegrity'
        BY <3>1, <3>3 DEF ChainIntegrity, Number
      <3>7. StoreCases' /\ HeadIsLatest'
        BY Zenon, <3>1, <3>3, <3>4 DEF StoreCases, HeadIsLatest
      <3> QED BY Zenon, <3>5, <3>6, <3>7
    <2> QED BY Zenon, <2>1, <2>2, <2>3, <2>4 DEF StartStep
  <1> QED BY Zenon, <1>5, <1>6, <1>7, <1>8 DEF Inv

\* A step of a started reel that commits nothing: only the buffer, the
\* reports and the channels are left to look at.
LEMMA UncommittedPreserves ==
    ASSUME Inv, Started, Started', UNCHANGED <<durable, head, newFrames>>,
           phase' \in Phase,
           pending' \in [Number -> Seq(Frame)],
           inflight' \in [Frame -> 0..MaxCopies], crashes' = crashes,
           NEW B, BadReported(B),
           PendingNumbered', PendingAhead', NothingReady'
    PROVE  Inv'
  <1>1. /\ stored' = stored /\ earliest' = earliest /\ latest' = latest
        /\ head' = head /\ newFrames' = newFrames
    BY Zenon DEF durable
  <1>2. Based /\ latest \in 0..MaxFrame /\ head = stored[latest]
    BY Zenon DEF Inv, TypeOK, ChainIntegrity, HeadIsLatest
  <1>3. TypeOK'
    <2>1. /\ stored' \in [Number -> Frame \cup {NoFrame}]
          /\ earliest' \in 0..MaxFrame \cup {NoFrame}
          /\ latest' \in 0..MaxFrame \cup {NoFrame}
          /\ head' \in Frame \cup {NoFrame}
          /\ newFrames' \subseteq Frame
      BY Zenon, <1>1 DEF Inv, TypeOK
    <2>2. crashes' \in 0..MaxCrashes
      BY Zenon DEF Inv, TypeOK
    <2>3. badFrames' \subseteq Frame
      BY Zenon DEF Inv, TypeOK, BadReported
    <2> QED BY Zenon, <2>1, <2>2, <2>3 DEF TypeOK
  <1>4. Based'
    BY Zenon, <1>1, <1>2 DEF Based
  <1>5. StoreCases' /\ Quiet'
    BY Zenon, <1>4 DEF StoreCases, Quiet, Started
  <1>6. ChainIntegrity'
    BY Zenon, <1>1 DEF Inv, ChainIntegrity, Based
  <1>7. HeadIsLatest'
    BY Zenon, <1>1, <1>4 DEF Inv, HeadIsLatest
  <1>8. ReportsInv'
    <2>1. ASSUME NEW b \in badFrames'
          PROVE  /\ FrameNumber[b] \in 1..(latest' + 1)
                 /\ ~IsChild(stored'[FrameNumber[b] - 1], b)
      <3>1. CASE b \in badFrames
        BY Zenon, <1>1, <3>1 DEF Inv, ReportsInv
      <3>2. CASE b \in B
        <4>1. FrameNumber[b] = latest + 1 /\ ~IsChild(head, b)
          BY Zenon, <3>2 DEF BadReported
        <4>2. stored'[FrameNumber[b] - 1] = head
          BY <1>1, <1>2, <4>1
        <4> QED BY <1>1, <1>2, <4>1, <4>2
      <3> QED BY Zenon, <2>1, <3>1, <3>2 DEF BadReported
    <2> QED BY Zenon, <1>1, <2>1 DEF Inv, ReportsInv
  <1> QED BY Zenon, <1>3, <1>5, <1>6, <1>7, <1>8 DEF Inv

\* Insert only adds a blocked goroutine.
LEMMA InsertPreserves ==
    ASSUME Inv, NEW f \in Frame, Insert(f)
    PROVE  Inv'
  <1>1. /\ Started /\ phase' = phase /\ pending' = pending /\ head' = head
        /\ badFrames' = badFrames
        /\ UNCHANGED <<durable, head, newFrames>> /\ crashes' = crashes
    BY Zenon DEF Insert
  <1>2. Started' /\ phase' \in Phase
    BY Zenon, <1>1 DEF Started, Inv, TypeOK
  <1>3. inflight' \in [Frame -> 0..MaxCopies]
    <2>1. inflight[f] + 1 \in 0..MaxCopies
      BY Zenon, OneMore, BoundAssumption DEF Insert, Inv, TypeOK
    <2>2. inflight' = [inflight EXCEPT ![f] = inflight[f] + 1]
      BY Zenon DEF Insert
    <2>3. inflight \in [Frame -> 0..MaxCopies]
      BY Zenon DEF Inv, TypeOK
    <2> QED BY Zenon, <2>1, <2>2, <2>3
  <1>4. BadReported({})
    <2>1. badFrames' = badFrames
      BY Zenon, <1>1
    <2> QED BY Zenon, <2>1 DEF BadReported
  <1>5. PendingNumbered' /\ PendingAhead' /\ NothingReady'
    BY Zenon, <1>1 DEF Inv, PendingNumbered, PendingAhead, NothingReady, Started
  <1>6. pending' \in [Number -> Seq(Frame)]
    BY Zenon, <1>1 DEF Inv, TypeOK
  <1> QED BY Zenon, <1>1, <1>2, <1>3, <1>4, <1>5, <1>6, UncommittedPreserves

\* Receiving a frame takes it from one blocked goroutine.
LEMMA ReceiveTyped ==
    ASSUME Inv, NEW f \in Frame, Receive(f)
    PROVE  /\ Started /\ phase = "idle"
           /\ inflight' \in [Frame -> 0..MaxCopies]
           /\ head \in Frame /\ FrameNumber[head] = latest
           /\ latest \in 0..MaxFrame
           /\ \A n \in Number : NonEmpty(pending[n]) => n > latest + 1
  <1>1. Started /\ phase = "idle"
    BY Zenon DEF Receive, Started
  <1>2. inflight[f] - 1 \in 0..MaxCopies
    BY SMTT(30) DEF Receive, Inv, TypeOK
  <1>3. /\ inflight' = [inflight EXCEPT ![f] = inflight[f] - 1]
        /\ inflight \in [Frame -> 0..MaxCopies]
    BY Zenon DEF Receive, Inv, TypeOK
  <1>4. inflight' \in [Frame -> 0..MaxCopies]
    BY Zenon, <1>2, <1>3
  <1>5. /\ latest \in 0..MaxFrame /\ FrameNumber[head] = latest
        /\ head = stored[latest] /\ stored[latest] # NoFrame
    BY <1>1 DEF Inv, TypeOK, HeadIsLatest, ChainIntegrity, Number
  <1>6. head \in Frame
    BY Zenon, <1>5 DEF Inv, TypeOK
  <1>7. \A n \in Number : NonEmpty(pending[n]) => n > FrameNumber[head] + 1
    BY Zenon, <1>1 DEF Inv, NothingReady
  <1>8. \A n \in Number : NonEmpty(pending[n]) => n > latest + 1
    BY Zenon, <1>5, <1>7
  <1> QED BY Zenon, <1>1, <1>4, <1>5, <1>6, <1>8

\* The next frame in sequence is committed at once.
LEMMA ReceiveNextPreserves ==
    ASSUME Inv, NEW f \in Frame, ReceiveNext(f)
    PROVE  Inv'
  <1>1. Receive(f) /\ Follows(head, f) /\ Advance(f)
    BY Zenon DEF ReceiveNext, Follows
  <1>2. /\ Started
        /\ inflight' \in [Frame -> 0..MaxCopies]
        /\ \A n \in Number : NonEmpty(pending[n]) => n > latest + 1
    BY Zenon, <1>1, ReceiveTyped
  <1>3. /\ phase' = "pending" /\ pending' = pending
        /\ badFrames' = badFrames /\ crashes' = crashes
    BY Zenon DEF ReceiveNext
  <1>4. RestTyped
    BY Zenon, <1>2, <1>3 DEF RestTyped
  <1>5. BadReported({})
    <2>1. badFrames' = badFrames
      BY Zenon, <1>3
    <2> QED BY Zenon, <2>1 DEF BadReported
  <1>6. PendingCut
    BY Zenon, <1>2, <1>3 DEF PendingCut, Inv, TypeOK
  <1> QED BY Zenon, <1>1, <1>2, <1>4, <1>5, <1>6, AdvancePreserves

\* A frame next in number but with another parent is reported.
LEMMA ReceiveBadPreserves ==
    ASSUME Inv, NEW f \in Frame, ReceiveBad(f)
    PROVE  Inv'
  <1>1. Receive(f)
    BY Zenon DEF ReceiveBad
  <1>2. /\ Started /\ phase = "idle" /\ inflight' \in [Frame -> 0..MaxCopies]
        /\ FrameNumber[head] = latest
    BY Zenon, <1>1, ReceiveTyped
  <1>3. /\ phase' = phase /\ pending' = pending /\ head' = head
        /\ UNCHANGED <<durable, head, newFrames>> /\ crashes' = crashes
    BY Zenon DEF ReceiveBad
  <1>4. Started' /\ phase' \in Phase
    BY Zenon, <1>2, <1>3 DEF Started, Phase
  <1>5. BadReported({f})
    <2>1. badFrames' = badFrames \cup {f}
      BY Zenon DEF ReceiveBad
    <2>2. FrameNumber[f] = latest + 1 /\ ~IsChild(head, f)
      BY Zenon, <1>2 DEF ReceiveBad
    <2> QED BY Zenon, <2>1, <2>2 DEF BadReported
  <1>6. PendingNumbered' /\ PendingAhead' /\ NothingReady'
    BY Zenon, <1>3 DEF Inv, PendingNumbered, PendingAhead, NothingReady, Started
  <1>7. pending' \in [Number -> Seq(Frame)]
    BY Zenon, <1>3 DEF Inv, TypeOK
  <1> QED BY Zenon, <1>2, <1>3, <1>4, <1>5, <1>6, <1>7, UncommittedPreserves

\* A frame that is not ahead of the head is dropped.
LEMMA ReceiveOldPreserves ==
    ASSUME Inv, NEW f \in Frame, ReceiveOld(f)
    PROVE  Inv'
  <1>1. Receive(f)
    BY Zenon DEF ReceiveOld
  <1>2. Started /\ phase = "idle" /\ inflight' \in [Frame -> 0..MaxCopies]
    BY Zenon, <1>1, ReceiveTyped
  <1>3. /\ phase' = phase /\ pending' = pending /\ head' = head
        /\ UNCHANGED <<durable, head, newFrames>> /\ crashes' = crashes
    BY Zenon DEF ReceiveOld
  <1>4. Started' /\ phase' \in Phase
    BY Zenon, <1>2, <1>3 DEF Started, Phase
  <1>5. BadReported({})
    <2>1. badFrames' = badFrames
      BY Zenon DEF ReceiveOld
    <2> QED BY Zenon, <2>1 DEF BadReported
  <1>6. PendingNumbered' /\ PendingAhead' /\ NothingReady'
    BY Zenon, <1>3 DEF Inv, PendingNumbered, PendingAhead, NothingReady, Started
  <1>7. pending' \in [Number -> Seq(Frame)]
    BY Zenon, <1>3 DEF Inv, TypeOK
  <1> QED BY Zenon, <1>2, <1>3, <1>4, <1>5, <1>6, <1>7, UncommittedPreserves

\* A frame that leaves a gap is buffered under its number.
LEMMA ReceiveGapPreserves ==
    ASSUME Inv, NEW f \in Frame, ReceiveGap(f)
    PROVE  Inv'
  <1> DEFINE k == FrameNumber[f]
  <1>1. Receive(f)
    BY Zenon DEF ReceiveGap
  <1>2. /\ Started /\ phase = "idle" /\ inflight' \in [Frame -> 0..MaxCopies]
        /\ FrameNumber[head] = latest /\ latest \in 0..MaxFrame
        /\ \A n \in Number : NonEmpty(pending[n]) => n > latest + 1
    BY Zenon, <1>1, ReceiveTyped
  <1>3. /\ phase' = "pending" /\ head' = head
        /\ UNCHANGED <<durable, head, newFrames>> /\ crashes' = crashes
    BY Zenon DEF ReceiveGap
  <1>4. Started' /\ phase' \in Phase
    BY Zenon, <1>3 DEF Started, Phase
  <1>5. BadReported({})
    <2>1. badFrames' = badFrames
      BY Zenon DEF ReceiveGap
    <2> QED BY Zenon, <2>1 DEF BadReported
  <1>6. /\ k \in Number /\ k > latest + 1
        /\ pending \in [Number -> Seq(Frame)]
    <2>1. k > FrameNumber[head] + 1
      BY Zenon DEF ReceiveGap
    <2>2. FrameNumber[head] = latest /\ latest \in 0..MaxFrame
      BY Zenon, <1>2
    <2>3. k \in Number
      BY DEF Number
    <2> QED BY Zenon, <2>1, <2>2, <2>3 DEF Inv, TypeOK
  <1> HIDE DEF k
  <1> DEFINE q == Append(pending[k], f)
  <1>7. /\ q \in Seq(Frame)
        /\ \A i \in DOMAIN q :
              q[i] = f \/ (i \in DOMAIN pending[k] /\ q[i] = pending[k][i])
    <2>1. pending[k] \in Seq(Frame)
      BY Zenon, <1>6
    <2> QED BY SMTT(30), <2>1, AppendElements, AppendProperties
  <1>8. pending' = [pending EXCEPT ![k] = q]
    BY Zenon DEF ReceiveGap, k
  <1> HIDE DEF q
  <1>9. /\ pending' \in [Number -> Seq(Frame)]
        /\ pending'[k] = q
        /\ \A n \in Number : n # k => pending'[n] = pending[n]
    BY Zenon, <1>6, <1>7, <1>8
  <1>10. PendingNumbered'
    <2>1. ASSUME NEW n \in Number, NEW i \in DOMAIN pending'[n]
          PROVE  FrameNumber[pending'[n][i]] = n
      <3>1. CASE n # k
        <4>1. pending'[n] = pending[n]
          BY Zenon, <1>9, <3>1
        <4> QED BY Zenon, <2>1, <4>1 DEF Inv, PendingNumbered
      <3>2. CASE n = k
        <4>1. pending'[n] = q
          BY Zenon, <1>9, <3>2
        <4>2. q[i] = f \/ (i \in DOMAIN pending[k] /\ q[i] = pending[k][i])
          BY Zenon, <1>7, <4>1
        <4>3. \A j \in DOMAIN pending[k] : FrameNumber[pending[k][j]] = k
          BY Zenon, <1>6 DEF Inv, PendingNumbered
        <4>4. FrameNumber[f] = k
          BY Zenon DEF k
        <4>5. FrameNumber[q[i]] = k
          BY Zenon, <4>2, <4>3, <4>4
        <4> QED BY Zenon, <3>2, <4>1, <4>5
      <3> QED BY Zenon, <3>1, <3>2
    <2> QED BY Zenon, <2>1 DEF PendingNumbered
  <1>11. PendingAhead' /\ NothingReady'
    <2>1. ASSUME NEW n \in Number, NonEmpty(pending'[n])
          PROVE  n > latest + 1
      <3>1. CASE n = k
        BY Zenon, <1>6, <3>1
      <3>2. CASE n # k
        <4>1. NonEmpty(pending[n])
          BY Zenon, <1>9, <2>1, <3>2
        <4> QED BY Zenon, <1>2, <4>1
      <3> QED BY Zenon, <3>1, <3>2
    <2>2. FrameNumber[head'] = latest
      BY Zenon, <1>2, <1>3
    <2>3. \A n \in Number : NonEmpty(pending'[n]) => n > FrameNumber[head']
      BY <1>2, <2>1, <2>2 DEF Number
    <2>4. phase' = "pending"
      BY Zenon, <1>3
    <2> QED BY Zenon, <2>3, <2>4 DEF PendingAhead, NothingReady
  <1> QED BY Zenon, <1>2, <1>3, <1>4, <1>5, <1>9, <1>10, <1>11, UncommittedPreserves

\* What processPending finds when it looks at the buffer.
LEMMA ReadyFacts ==
    ASSUME Inv, phase = "pending"
    PROVE  /\ Started
           /\ head \in Frame /\ FrameNumber[head] = latest
           /\ latest \in 0..MaxFrame /\ latest + 1 \in Number
           /\ Ready = pending[latest + 1]
           /\ \A i \in DOMAIN Ready : /\ Ready[i] \in Frame
                                      /\ FrameNumber[Ready[i]] = latest + 1
  <1>1. Started
    BY Zenon DEF Started
  <1>2. /\ latest \in 0..MaxFrame /\ FrameNumber[head] = latest
        /\ head = stored[latest] /\ stored[latest] # NoFrame
    BY <1>1 DEF Inv, TypeOK, HeadIsLatest, ChainIntegrity, Number
  <1>3. head \in Frame
    BY Zenon, <1>2 DEF Inv, TypeOK
  <1>4. latest + 1 \in Number
    BY <1>2 DEF Number
  <1>5. Ready = pending[latest + 1]
    BY Zenon, <1>2 DEF Ready
  <1>6. pending[latest + 1] \in Seq(Frame)
    BY Zenon, <1>4 DEF Inv, TypeOK
  <1>7. \A i \in DOMAIN Ready : Ready[i] \in Frame
    <2>1. Ready \in Seq(Frame)
      BY Zenon, <1>5, <1>6
    <2> HIDE DEF Ready
    <2> QED BY <2>1, LenProperties
  <1>8. \A i \in DOMAIN Ready : FrameNumber[Ready[i]] = latest + 1
    <2>1. \A i \in DOMAIN pending[latest + 1] :
             FrameNumber[pending[latest + 1][i]] = latest + 1
      BY Zenon, <1>4 DEF Inv, PendingNumbered
    <2> QED BY Zenon, <1>5, <2>1
  <1> QED BY Zenon, <1>1, <1>2, <1>3, <1>4, <1>5, <1>7, <1>8

\* Deleting the key after the head leaves only keys above it.
LEMMA ClearReady ==
    ASSUME Inv, phase = "pending",
           pending' = [pending EXCEPT ![latest + 1] = <<>>]
    PROVE  PendingCut
  <1> DEFINE e == <<>>
  <1>1. e \in Seq(Frame) /\ ~NonEmpty(e)
    BY DEF NonEmpty
  <1>2. pending' = [pending EXCEPT ![latest + 1] = e]
    BY Zenon
  <1> HIDE DEF e
  <1>3. /\ Started /\ FrameNumber[head] = latest
        /\ latest \in 0..MaxFrame /\ latest + 1 \in Number
    BY Zenon, ReadyFacts
  <1>4. pending \in [Number -> Seq(Frame)]
    BY Zenon DEF Inv, TypeOK
  <1>5. /\ pending' \in [Number -> Seq(Frame)]
        /\ pending'[latest + 1] = e
        /\ \A n \in Number : n # latest + 1 => pending'[n] = pending[n]
    BY <1>1, <1>2, <1>3, <1>4
  <1>6. ASSUME NEW n \in Number, NonEmpty(pending'[n])
        PROVE  pending'[n] = pending[n] /\ n > latest + 1
    <2>1. n # latest + 1
      BY Zenon, <1>1, <1>5, <1>6
    <2>2. pending'[n] = pending[n]
      BY Zenon, <1>5, <2>1
    <2>3. NonEmpty(pending[n])
      BY Zenon, <1>6, <2>2
    <2>4. n > FrameNumber[head]
      BY Zenon, <1>3, <2>3 DEF Inv, PendingAhead
    <2>5. n > latest + 1
      BY <1>3, <2>1, <2>4 DEF Number
    <2> QED BY Zenon, <2>2, <2>5
  <1>7. pending' \in [Number -> Seq(Frame)]
    BY Zenon, <1>5
  <1> QED BY Zenon, <1>6, <1>7 DEF PendingCut

\* An iteration of processPending that finds a child of the head.
LEMMA PendingAdvancePreserves ==
    ASSUME Inv, PendingAdvance
    PROVE  Inv'
  <1>1. PICK i \in DOMAIN Ready :
           /\ FirstChild(i)
           /\ Advance(Ready[i])
           /\ badFrames' = badFrames \cup {Ready[j] : j \in 1..(i-1)}
           /\ pending' = [pending EXCEPT ![FrameNumber[Ready[i]]] = <<>>]
    BY Zenon DEF PendingAdvance
  <1>2. /\ phase = "pending" /\ phase' = phase
        /\ inflight' = inflight /\ crashes' = crashes
    BY Zenon DEF PendingAdvance
  <1>3. /\ Started /\ FrameNumber[head] = latest /\ latest \in 0..MaxFrame
        /\ \A j \in DOMAIN Ready : /\ Ready[j] \in Frame
                                   /\ FrameNumber[Ready[j]] = latest + 1
    BY Zenon, <1>2, ReadyFacts
  <1>4. Ready[i] \in Frame /\ FrameNumber[Ready[i]] = latest + 1
    BY Zenon, <1>3
  <1>5. Follows(head, Ready[i])
    BY Zenon, <1>1, <1>3, <1>4 DEF Follows, FirstChild
  <1>6. RestTyped
    BY Zenon, <1>2 DEF RestTyped, Inv, TypeOK
  <1>7. PendingCut
    BY Zenon, <1>1, <1>2, <1>4, ClearReady
  <1> DEFINE B == {Ready[j] : j \in 1..(i-1)}
  <1>8. BadReported(B)
    <2>1. badFrames' = badFrames \cup B
      BY Zenon, <1>1
    <2>2. ASSUME NEW b \in B
          PROVE  b \in Frame /\ FrameNumber[b] = latest + 1 /\ ~IsChild(head, b)
      <3>1. PICK j \in 1..(i-1) : b = Ready[j]
        BY Zenon
      <3>2. j \in DOMAIN Ready
        <4>1. Ready \in Seq(Frame)
          BY SMTT(30), <1>2, ReadyFacts DEF Inv, TypeOK
        <4>2. DOMAIN Ready = 1..Len(Ready) /\ Len(Ready) \in Nat
          BY Zenon, <4>1, LenProperties
        <4> QED BY <4>2
      <3>3. ~IsChild(head, Ready[j])
        BY Zenon, <1>1 DEF FirstChild
      <3> QED BY Zenon, <1>3, <3>1, <3>2, <3>3
    <2> HIDE DEF B
    <2> QED BY Zenon, <2>1, <2>2 DEF BadReported
  <1> HIDE DEF B
  <1> QED BY Zenon, <1>1, <1>3, <1>4, <1>5, <1>6, <1>7, <1>8, AdvancePreserves

\* An iteration that finds none.
LEMMA PendingDropPreserves ==
    ASSUME Inv, PendingDrop
    PROVE  Inv'
  <1>1. /\ phase = "pending" /\ phase' = phase /\ head' = head
        /\ inflight' = inflight /\ crashes' = crashes
        /\ UNCHANGED <<durable, head, newFrames>>
    BY Zenon DEF PendingDrop
  <1>2. /\ Started /\ FrameNumber[head] = latest /\ latest \in 0..MaxFrame
        /\ \A j \in DOMAIN Ready : /\ Ready[j] \in Frame
                                   /\ FrameNumber[Ready[j]] = latest + 1
    BY Zenon, <1>1, ReadyFacts
  <1>3. Started' /\ phase' \in Phase
    BY Zenon, <1>1 DEF Started, Phase
  <1>4. PendingCut
    <2>1. pending' = [pending EXCEPT ![latest + 1] = <<>>]
      BY Zenon, <1>2 DEF PendingDrop
    <2> QED BY Zenon, <1>1, <2>1, ClearReady
  <1> DEFINE B == {Ready[j] : j \in DOMAIN Ready}
  <1>5. BadReported(B)
    <2>1. badFrames' = badFrames \cup B
      BY Zenon DEF PendingDrop
    <2>2. ASSUME NEW b \in B
          PROVE  b \in Frame /\ FrameNumber[b] = latest + 1 /\ ~IsChild(head, b)
      <3>1. PICK j \in DOMAIN Ready : b = Ready[j]
        BY Zenon
      <3>2. ~IsChild(head, Ready[j])
        BY Zenon DEF PendingDrop
      <3> QED BY Zenon, <1>2, <3>1, <3>2
    <2> HIDE DEF B
    <2> QED BY Zenon, <2>1, <2>2 DEF BadReported
  <1> HIDE DEF B
  <1>6. PendingNumbered' /\ PendingAhead' /\ NothingReady'
    <2>1. ASSUME NEW n \in Number, NEW i \in DOMAIN pending'[n]
          PROVE  FrameNumber[pending'[n][i]] = n
      <3>1. NonEmpty(pending'[n])
        BY <2>1 DEF NonEmpty
      <3>2. pending'[n] = pending[n]
        BY Zenon, <1>4, <3>1 DEF PendingCut
      <3> QED BY Zenon, <2>1, <3>2 DEF Inv, PendingNumbered
    <2>2. \A n \in Number : NonEmpty(pending'[n]) => n > latest + 1
      BY Zenon, <1>4 DEF PendingCut
    <2>3. FrameNumber[head'] = latest /\ phase' = "pending" /\ latest \in Nat
      BY <1>1, <1>2
    <2>4. \A n \in Number : NonEmpty(pending'[n]) => n > FrameNumber[head']
      BY <2>2, <2>3 DEF Number
    <2>5. PendingNumbered'
      BY Zenon, <2>1 DEF PendingNumbered
    <2>6. PendingAhead' /\ NothingReady'
      BY Zenon, <2>3, <2>4 DEF PendingAhead, NothingReady
    <2> QED BY Zenon, <2>5, <2>6
  <1>7. /\ pending' \in [Number -> Seq(Frame)]
        /\ inflight' \in [Frame -> 0..MaxCopies]
    BY Zenon, <1>1, <1>4 DEF PendingCut, Inv, TypeOK
  <1> QED BY Zenon, <1>1, <1>2, <1>3, <1>5, <1>6, <1>7, UncommittedPreserves

\* The end of processPending: the clean-up of keys below the head finds none.
LEMMA PendingDonePreserves ==
    ASSUME Inv, PendingDone
    PROVE  Inv' /\ pending' = pending
  <1>1. /\ phase = "pending" /\ phase' = "idle" /\ head' = head
        /\ inflight' = inflight /\ crashes' = crashes
        /\ badFrames' = badFrames /\ ~NonEmpty(Ready)
        /\ UNCHANGED <<durable, head, newFrames>>
    BY Zenon DEF PendingDone, channels
  <1>2. /\ Started /\ FrameNumber[head] = latest /\ latest \in 0..MaxFrame
        /\ Ready = pending[latest + 1] /\ latest + 1 \in Number
    BY Zenon, <1>1, ReadyFacts
  <1>3. Started' /\ phase' \in Phase
    BY Zenon, <1>1 DEF Started, Phase
  <1>4. pending' = pending
    <2>1. pending \in [Number -> Seq(Frame)]
      BY Zenon DEF Inv, TypeOK
    <2>2. \A n \in Number : n < FrameNumber[head] => pending[n] = <<>>
      <3> SUFFICES ASSUME NEW n \in Number, n < FrameNumber[head]
                   PROVE  ~NonEmpty(pending[n])
        BY Zenon DEF NonEmpty
      <3>1. NonEmpty(pending[n]) => n > FrameNumber[head]
        BY Zenon, <1>2 DEF Inv, PendingAhead
      <3> QED BY <1>2, <3>1 DEF Number
    <2>3. pending' = [n \in Number |-> IF n < FrameNumber[head]
                                       THEN <<>> ELSE pending[n]]
      BY Zenon DEF PendingDone
    <2> QED BY Zenon, <2>1, <2>2, <2>3
  <1>5. BadReported({})
    BY Zenon, <1>1 DEF BadReported
  <1>6. PendingNumbered' /\ PendingAhead'
    BY Zenon, <1>1, <1>4 DEF Inv, PendingNumbered, PendingAhead, Started
  <1>7. NothingReady'
    <2>1. ASSUME NEW n \in Number, NonEmpty(pending[n])
          PROVE  n > FrameNumber[head] + 1
      <3>1. n > FrameNumber[head]
        BY Zenon, <1>2, <2>1 DEF Inv, PendingAhead
      <3>2. n # latest + 1
        BY Zenon, <1>1, <1>2, <2>1
      <3> QED BY <1>2, <3>1, <3>2 DEF Number
    <2> QED BY Zenon, <1>1, <1>4, <2>1 DEF NothingReady
  <1>8. /\ pending' \in [Number -> Seq(Frame)]
        /\ inflight' \in [Frame -> 0..MaxCopies]
    BY Zenon, <1>1, <1>4 DEF Inv, TypeOK
  <1> QED BY Zenon, <1>1, <1>2, <1>3, <1>4, <1>5, <1>6, <1>7, <1>8, UncommittedPreserves

\* Stop only ends runLoop.
LEMMA StopPreserves ==
    ASSUME Inv, Stop
    PROVE  Inv'
  <1>1. /\ phase = "idle" /\ phase' = "stopped" /\ head' = head
        /\ inflight' = inflight /\ crashes' = crashes
        /\ badFrames' = badFrames /\ pending' = pending
        /\ UNCHANGED <<durable, head, newFrames>>
    BY Zenon DEF Stop, channels
  <1>2. Started /\ Started' /\ phase' \in Phase
    BY Zenon, <1>1 DEF Started, Phase
  <1>3. BadReported({})
    BY Zenon, <1>1 DEF BadReported
  <1>4. PendingNumbered' /\ PendingAhead' /\ NothingReady'
    BY Zenon, <1>1 DEF Inv, PendingNumbered, PendingAhead, NothingReady, Started
  <1>5. /\ pending' \in [Number -> Seq(Frame)]
        /\ inflight' \in [Frame -> 0..MaxCopies]
    BY Zenon, <1>1 DEF Inv, TypeOK
  <1> QED BY Zenon, <1>1, <1>2, <1>3, <1>4, <1>5, UncommittedPreserves

\* A crash keeps the store and nothing else.
LEMMA CrashPreserves ==
    ASSUME Inv, Crash
    PROVE  Inv'
  <1>1. /\ stored' = stored /\ earliest' = earliest /\ latest' = latest
        /\ phase' = "down" /\ head' = NoFrame /\ pending' = NoPending
        /\ inflight' = NoInflight /\ newFrames' = {} /\ badFrames' = {}
        /\ crashes < MaxCrashes /\ crashes' = crashes + 1
    BY Zenon DEF Crash, durable
  <1>2. TypeOK'
    <2>1. pending' \in [Number -> Seq(Frame)]
      BY <1>1 DEF NoPending
    <2>2. inflight' \in [Frame -> 0..MaxCopies]
      BY <1>1 DEF NoInflight
    <2>3. crashes' \in 0..MaxCrashes
      BY <1>1 DEF Inv, TypeOK
    <2>4. /\ stored' \in [Number -> Frame \cup {NoFrame}]
          /\ earliest' \in 0..MaxFrame \cup {NoFrame}
          /\ latest' \in 0..MaxFrame \cup {NoFrame}
      BY Zenon, <1>1 DEF Inv, TypeOK
    <2> QED BY Zenon, <1>1, <2>1, <2>2, <2>3, <2>4 DEF TypeOK, Phase
  <1>3. StoreCases'
    BY Zenon, <1>1 DEF Inv, StoreCases, Based, OldGenesisStored
  <1>4. ChainIntegrity'
    BY Zenon, <1>1 DEF Inv, ChainIntegrity, Based
  <1>5. ~Started'
    BY Zenon, <1>1 DEF Started
  <1>6. HeadIsLatest' /\ PendingAhead'
    BY Zenon, <1>5 DEF HeadIsLatest, PendingAhead
  <1>7. NothingReady'
    BY Zenon, <1>1 DEF NothingReady
  <1>8. PendingNumbered'
    BY <1>1 DEF PendingNumbered, NoPending
  <1>9. Quiet' /\ ReportsInv'
    BY Zenon, <1>1 DEF Quiet, ReportsInv
  <1> QED BY Zenon, <1>2, <1>3, <1>4, <1>6, <1>7, <1>8, <1>9 DEF Inv

-----------------------------------------------------------------------------
(* The theorems.                                                           *)

\* Every step of the specification preserves Inv.
LEMMA NextPreserves == Inv /\ [Next]_vars => Inv'
  <1> SUFFICES ASSUME Inv, [Next]_vars PROVE Inv'
    BY Zenon
  <1>1. CASE StartStep
    BY Zenon, <1>1, StartPreserves
  <1>2. ASSUME NEW f \in Frame, Insert(f) \/ ReceiveStep(f)
        PROVE  Inv'
    BY Zenon, <1>2, InsertPreserves, ReceiveNextPreserves, ReceiveBadPreserves,
       ReceiveGapPreserves, ReceiveOldPreserves DEF ReceiveStep
  <1>3. CASE PendingStep
    BY Zenon, <1>3, PendingAdvancePreserves, PendingDropPreserves,
       PendingDonePreserves DEF PendingStep
  <1>4. CASE Stop \/ Crash
    BY Zenon, <1>4, StopPreserves, CrashPreserves
  <1>5. CASE UNCHANGED vars
    BY SMTT(60), <1>5 DEF vars, durable, channels, Inv, TypeOK, StoreCases,
       OldGenesisStored, ChainIntegrity, Based, HeadIsLatest, Started,
       PendingNumbered, PendingAhead, NothingReady, Quiet, ReportsInv
  <1> QED BY Zenon, <1>1, <1>2, <1>3, <1>4, <1>5 DEF Next

\* Inv is an invariant of the master time reel.
THEOREM Invariance == Spec => []Inv
  BY InitInv, NextPreserves, PTL DEF Spec

\* The variables keep their types, for every set of frames.
THEOREM TypeCorrect == Spec => []TypeOK
  <1>1. Inv => TypeOK
    BY Zenon DEF Inv
  <1> QED BY <1>1, Invariance, PTL

\* The committed master frames are always one chain from the genesis, without
\* a hole or a fork, whatever is inserted and whenever the process dies.
THEOREM ChainSafety == Spec => []ChainIntegrity
  <1>1. Inv => ChainIntegrity
    BY Zenon DEF Inv
  <1> QED BY <1>1, Invariance, PTL

\* The head in memory is always the frame a restart would find.
THEOREM HeadSafety == Spec => []HeadIsLatest
  <1>1. Inv => HeadIsLatest
    BY Zenon DEF Inv
  <1> QED BY <1>1, Invariance, PTL

\* runLoop never goes back to sleep over a buffered frame that fits.
THEOREM NoLostWakeup == Spec => []NothingReady
  <1>1. Inv => NothingReady
    BY Zenon DEF Inv
  <1> QED BY <1>1, Invariance, PTL

\* A frame reported on badFrameCh is never committed.
THEOREM BadFramesStayOut == Spec => []BadNeverCommitted
  <1>1. Inv => BadNeverCommitted
    <2> SUFFICES ASSUME Inv, NEW f \in badFrames
                 PROVE  f \notin newFrames /\ stored[FrameNumber[f]] # f
      BY Zenon DEF BadNeverCommitted
    <2>1. /\ FrameNumber[f] \in 1..(latest + 1)
          /\ ~IsChild(stored[FrameNumber[f] - 1], f)
      BY Zenon DEF Inv, ReportsInv
    <2>2. /\ Started /\ Based /\ latest \in 0..MaxFrame
          /\ f \in Frame /\ FrameNumber[f] \in Number
      <3> HIDE MaxFrameAssumption, FrameAssumption, GenesisAssumption,
               DifficultyAssumption, BoundAssumption
      <3>1. f \in Frame
        BY Zenon DEF Inv, TypeOK
      <3>2. FrameNumber[f] \in Number
        BY Zenon, <3>1, FrameAssumption, MaxFrameAssumption, WithinNumber DEF Number
      <3>3. Started
        BY Zenon DEF Inv, Quiet
      <3>4. Based /\ latest # NoFrame
        BY Zenon, <3>3 DEF Inv, HeadIsLatest, ChainIntegrity
      <3>5. latest \in 0..MaxFrame
        BY Zenon, <3>4 DEF Inv, TypeOK
      <3> QED
        BY Zenon, <3>1, <3>2, <3>3, <3>4, <3>5
    <2>3. stored[FrameNumber[f]] # f
      <3> SUFFICES ASSUME stored[FrameNumber[f]] = f PROVE FALSE
        BY Zenon
      <3>1. FrameNumber[f] <= latest
        BY Zenon, <2>2 DEF Inv, ChainIntegrity
      <3>2. IsChild(stored[FrameNumber[f] - 1], stored[FrameNumber[f]])
        BY <2>1, <2>2, <3>1 DEF Inv, ChainIntegrity
      <3> QED BY Zenon, <2>1, <3>2
    <2>4. f \notin newFrames
      BY Zenon, <2>3 DEF Inv, ReportsInv
    <2> QED BY Zenon, <2>3, <2>4
  <1> QED BY <1>1, Invariance, PTL

-----------------------------------------------------------------------------
(* What a step does to the store.                                          *)

\* The store, seen from the chain of the right genesis, is left alone, is
\* not there before and after, gets its genesis, or grows by a child of its
\* last frame.
StoreKept == stored' = stored /\ latest' = latest
NotBasedYet == ~Based /\ ~Based'
GenesisMade == ~Based /\ Based' /\ latest' = 0
ChainGrows(f) ==
    /\ Based /\ latest \in 0..MaxFrame /\ latest + 1 \in Number
    /\ stored \in [Number -> Frame \cup {NoFrame}]
    /\ Follows(stored[latest], f)
    /\ stored' = [stored EXCEPT ![latest + 1] = f]
    /\ latest' = latest + 1

\* These are the only things a step can do to the store.
LEMMA StoreSteps ==
    ASSUME Inv, [Next]_vars
    PROVE  \/ StoreKept \/ NotBasedYet \/ GenesisMade
           \/ \E f \in Frame : ChainGrows(f)
  <1>1. ASSUME NEW f \in Frame, Started, Follows(head, f), Advance(f)
        PROVE  ChainGrows(f)
    <2>1. /\ latest' = latest + 1 /\ latest' \in 0..MaxFrame
          /\ latest \in 0..MaxFrame
          /\ stored' = [stored EXCEPT ![latest + 1] = f]
      BY Zenon, <1>1, AdvanceExtends
    <2>2. Based /\ head = stored[latest]
      BY Zenon, <1>1 DEF Inv, HeadIsLatest
    <2>3. latest + 1 \in Number
      BY <2>1 DEF Number
    <2>4. stored \in [Number -> Frame \cup {NoFrame}]
      BY Zenon DEF Inv, TypeOK
    <2>5. Follows(stored[latest], f)
      BY Zenon, <1>1, <2>2
    <2> QED BY Zenon, <2>1, <2>2, <2>3, <2>4, <2>5 DEF ChainGrows
  <1>2. CASE Start
    BY Zenon, <1>2 DEF Start, durable, StoreKept
  <1>3. CASE ResetFrames
    <2>1. stored[0] # Genesis /\ stored' = EmptyStore
      BY Zenon, <1>3 DEF ResetFrames, Inv, StoreCases, OldGenesisStored
    <2> QED BY <2>1 DEF NotBasedYet, Based, EmptyStore, Number
  <1>4. CASE ResetEarliest \/ ResetLatest
    <2>1. stored = EmptyStore /\ stored' = stored
      BY Zenon, <1>4 DEF ResetEarliest, ResetLatest, Inv, StoreCases
    <2> QED BY <2>1 DEF NotBasedYet, Based, EmptyStore, Number
  <1>5. CASE CreateGenesisFrame
    <2>1. /\ stored = EmptyStore /\ latest' = 0
          /\ stored' = [stored EXCEPT ![0] = Genesis]
      BY Zenon, <1>5 DEF CreateGenesisFrame, PutMasterClockFrame, Inv, StoreCases
    <2>2. stored \in [Number -> Frame \cup {NoFrame}] /\ 0 \in Number
      BY DEF Inv, TypeOK, Number
    <2>3. Based'
      BY Zenon, <2>1, <2>2 DEF Based
    <2>4. ~Based
      BY <2>1 DEF Based, EmptyStore, Number
    <2> QED BY Zenon, <2>1, <2>3, <2>4 DEF GenesisMade
  <1>6. ASSUME NEW f \in Frame, ReceiveNext(f)
        PROVE  ChainGrows(f)
    BY Zenon, <1>1, <1>6 DEF ReceiveNext, Receive, Started, Follows
  <1>7. ASSUME NEW f \in Frame,
               Insert(f) \/ ReceiveBad(f) \/ ReceiveGap(f) \/ ReceiveOld(f)
        PROVE  StoreKept
    BY Zenon, <1>7 DEF Insert, ReceiveBad, ReceiveGap, ReceiveOld, durable, StoreKept
  <1>8. CASE PendingAdvance
    <2>1. phase = "pending"
      BY Zenon, <1>8 DEF PendingAdvance
    <2>2. PICK i \in DOMAIN Ready : FirstChild(i) /\ Advance(Ready[i])
      BY Zenon, <1>8 DEF PendingAdvance
    <2>3. /\ Started /\ FrameNumber[head] = latest
          /\ Ready[i] \in Frame /\ FrameNumber[Ready[i]] = latest + 1
      BY Zenon, <2>1, ReadyFacts
    <2>4. Follows(head, Ready[i])
      BY Zenon, <2>2, <2>3 DEF Follows, FirstChild
    <2> QED BY Zenon, <1>1, <2>2, <2>3, <2>4
  <1>9. CASE PendingDrop \/ PendingDone \/ Stop \/ Crash \/ UNCHANGED vars
    BY Zenon, <1>9 DEF PendingDrop, PendingDone, Stop, Crash, vars, durable, StoreKept
  <1> QED BY Zenon, <1>2, <1>3, <1>4, <1>5, <1>6, <1>7, <1>8, <1>9
          DEF Next, StartStep, ReceiveStep, PendingStep

\* No step replaces or removes a committed frame or moves the latest index
\* back, once the store is based on the right genesis.
THEOREM CommittedForever == Spec => NeverRewritten
  <1> DEFINE A == Based => /\ \A n \in Number :
                                 stored[n] # NoFrame => stored'[n] = stored[n]
                           /\ latest' >= latest
  <1>1. ASSUME Inv, [Next]_vars PROVE A
    <2> SUFFICES ASSUME Based
                 PROVE  /\ \A n \in Number :
                              stored[n] # NoFrame => stored'[n] = stored[n]
                        /\ latest' >= latest
      BY Zenon
    <2>1. latest \in 0..MaxFrame
      BY Zenon, <1>1 DEF Inv, TypeOK, ChainIntegrity
    <2>2. CASE StoreKept
      BY <2>1, <2>2 DEF StoreKept
    <2>3. ASSUME NEW f \in Frame, ChainGrows(f)
          PROVE  /\ \A n \in Number :
                       stored[n] # NoFrame => stored'[n] = stored[n]
                 /\ latest' >= latest
      <3>1. stored[latest + 1] = NoFrame
        BY <1>1, <2>1, <2>3 DEF ChainGrows, Inv, ChainIntegrity
      <3> QED BY <2>1, <2>3, <3>1 DEF ChainGrows
    <2> QED BY Zenon, <1>1, <2>2, <2>3, StoreSteps DEF NotBasedYet, GenesisMade
  <1>2. Inv /\ [Next]_vars => [A]_vars
    BY Zenon, <1>1
  <1> QED BY <1>2, Invariance, PTL DEF Spec, NeverRewritten

\* The master time reel implements a chain that starts at the genesis frame
\* and only grows at its end, by a child of its last frame.
THEOREM Refinement == Spec => ImplementsFrameChain
  <1>1. Init => Chain!Init
    <2> SUFFICES ASSUME Init PROVE ~Based
      BY Zenon DEF Chain!Init, StoredChain
    <2>1. CASE NewStore
      BY <2>1 DEF NewStore, EmptyStore, Based, Number
    <2>2. CASE OldStore
      BY Zenon, <2>2 DEF OldStore, Based
    <2> QED BY Zenon, <2>1, <2>2 DEF Init
  <1>2. ASSUME Inv, [Next]_vars
        PROVE  [Chain!Next]_StoredChain
    <2>1. CASE StoreKept
      BY Zenon, <2>1 DEF StoreKept, StoredChain, Based
    <2>2. CASE NotBasedYet
      BY Zenon, <2>2 DEF NotBasedYet, StoredChain
    <2>3. CASE GenesisMade
      <3>1. StoredChain = <<Genesis>>
        BY Zenon, <2>3 DEF GenesisMade, StoredChain
      <3>2. StoredChain' = [i \in 1..1 |-> stored'[i-1]]
        BY <2>3 DEF GenesisMade, StoredChain
      <3>3. stored'[0] = Genesis
        BY Zenon, <2>3 DEF GenesisMade, Based
      <3>4. StoredChain' = <<Genesis>>
        BY <3>2, <3>3
      <3> QED BY Zenon, <3>1, <3>4
    <2>4. ASSUME NEW f \in Frame, ChainGrows(f)
          PROVE  Chain!Next
      <3> DEFINE q == [i \in 1..(latest + 1) |-> stored[i-1]]
      <3>1. StoredChain = q
        BY Zenon, <2>4 DEF ChainGrows, StoredChain
      <3>2. /\ Based' /\ latest' = latest + 1 /\ latest \in 0..MaxFrame
            /\ stored'[latest + 1] = f
            /\ \A n \in 0..latest : stored'[n] = stored[n]
        BY <2>4 DEF ChainGrows, Based, Number
      <3>3. StoredChain' = [i \in 1..(latest + 2) |-> stored'[i-1]]
        BY <3>2 DEF StoredChain
      <3>4. q \in [1..(latest + 1) -> Frame]
        <4>1. \A n \in 0..latest : stored[n] \in Frame
          BY <1>2, <2>4, <3>2 DEF ChainGrows, Inv, ChainIntegrity, Number
        <4> QED BY <3>2, <4>1
      <3>5. Len(q) = latest + 1 /\ q[latest + 1] = stored[latest]
        BY <3>2, <3>4
      <3>6. Append(q, f) = [i \in 1..(latest + 2) |->
                               IF i = latest + 2 THEN f ELSE q[i]]
        <4>1. latest + 1 \in Nat /\ (latest + 1) + 1 = latest + 2
          BY <3>2
        <4> HIDE DEF q
        <4> DEFINE m == latest + 1
        <4>2. m \in Nat /\ q \in [1..m -> Frame]
          BY Zenon, <3>4, <4>1
        <4> HIDE DEF m
        <4>3. Append(q, f) = [i \in 1..(m + 1) |-> IF i = m + 1 THEN f ELSE q[i]]
          BY SMTT(30), <4>2, AppendToList
        <4> QED BY Zenon, <4>1, <4>3 DEF m
      <3>7. \A i \in 1..(latest + 2) :
               stored'[i-1] = IF i = latest + 2 THEN f ELSE q[i]
        BY <3>2
      <3> HIDE DEF q
      <3>8. StoredChain' = Append(q, f)
        BY SMTT(30), <3>3, <3>6, <3>7
      <3>9. Follows(q[Len(q)], f)
        BY Zenon, <2>4, <3>5 DEF ChainGrows
      <3>10. Chain!Extend(f)
        BY Zenon, <3>1, <3>8, <3>9 DEF Chain!Extend, Chain!Tip
      <3> QED BY Zenon, <3>10 DEF Chain!Next
    <2> QED BY Zenon, <1>2, <2>1, <2>2, <2>3, <2>4, StoreSteps
  <1>3. Inv /\ [Next]_vars => [Chain!Next]_StoredChain
    BY Zenon, <1>2
  <1> QED BY <1>1, <1>3, Invariance, PTL DEF Spec, ImplementsFrameChain, Chain!Spec
=============================================================================
