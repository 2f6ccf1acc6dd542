------------------------- MODULE DataTimeReelProofs -------------------------
(***************************************************************************)
(* The safety properties of the data time reel, for every set of frames,   *)
(* any number of callers of Insert, every length of the queue, every bound *)
(* of the pruning and any number of crashes.                               *)
(*                                                                         *)
(* The invariant that carries the proofs is Inv.  StoreSound needs to know *)
(* where pruning stands (PrunedBelow) and what Start finds (StoreCases);   *)
(* QueueSound needs what a caller has seen before it sends (CallsSound);   *)
(* NothingStranded follows from FirstCarried: whenever the reel sleeps,    *)
(* some caller or the queue carries the frame that could follow the head.  *)
(***************************************************************************)
EXTENDS DataTimeReel, SequenceTheorems, TLAPS

EmptyStore == [n \in Number |-> NoFrame]

\* What Start finds, and when it makes the genesis frame.
StoreCases ==
    /\ latest = NoFrame => committed = EmptyStore
    /\ latest # NoFrame => committed[latest] # NoFrame
    /\ phase \in {"genesis", "genesisStaged"} => latest = NoFrame

\* Pruning has removed all that lies behind it, and is behind the head.
PrunedBelow ==
    /\ \A n \in 1..(pruned - 1) : committed[n] = NoFrame
    /\ Started => pruned <= latest + 1
    /\ ~Started => pruned = 1

\* Before Start has returned, nobody is in Insert and nothing is queued.
Asleep ==
    ~Started => /\ queue = <<>>
                /\ delivered = NoFrame
                /\ \A c \in Caller : call[c] = NoCall

\* What a caller inside Insert has made sure of.
CallsSound ==
    \A c \in Caller :
        /\ call[c].at \in {"checking", "sending"} =>
              (FrameNumber[call[c].frame] >= pruned => call[c].frame \in staged)
        /\ call[c].at = "sending" =>
              FrameNumber[call[c].frame] <= FrameNumber[head] + 1

\* A caller that has staged f, or the queue, will bring f before runLoop.
Carried(f) ==
    \/ \E c \in Caller : call[c] \in {At("checking", f), At("sending", f)}
    \/ \E i \in DOMAIN queue : queue[i].frame = f

\* When the reel sleeps, the frame that could follow the head is carried.
FirstCarried ==
    (phase = "idle" /\ stopping = "no" /\ crashes = 0) =>
        \A f \in Candidate : IsFirst(f) /\ f \notin Invalid => Carried(f)

\* A process that has never died starts with an empty store.
FreshStore ==
    (crashes = 0 /\ ~Started) => staged \subseteq {Genesis} /\ latest = NoFrame

\* How far the engine's loop is behind the head.
DeliveredSound ==
    /\ delivered # NoFrame =>
          /\ FrameNumber[delivered] <= FrameNumber[head]
          /\ phase = "send" => FrameNumber[delivered] < FrameNumber[head]
          /\ AlwaysSend /\ stopping # "reel" =>
                FrameNumber[head] =
                    FrameNumber[delivered] + (IF phase = "send" THEN 1 ELSE 0)
    /\ stopping = "reel" => receiver = "busy"

Inv ==
    /\ TypeOK
    /\ StoreSound
    /\ StoreCases
    /\ PrunedBelow
    /\ Asleep
    /\ CallsSound
    /\ QueueSound
    /\ FirstCarried
    /\ FreshStore
    /\ DeliveredSound

-----------------------------------------------------------------------------
(* Facts about a state.                                                    *)

\* The settings are what IsSetting says.
LEMMA SettingFacts ==
    ASSUME TypeOK
    PROVE  /\ MaxFrames \in Nat \ {0}
           /\ AlwaysSend \in BOOLEAN
           /\ Invalid \subseteq Frame \ {Genesis}
  BY Zenon, SettingAssumption DEF TypeOK, IsSetting, MaxFrames, AlwaysSend, Invalid

\* While the reel runs the head is the latest committed frame.
LEMMA HeadFacts ==
    ASSUME TypeOK, StoreSound, StoreCases, Started
    PROVE  /\ head \in Frame
           /\ latest \in 0..MaxFrame
           /\ FrameNumber[head] = latest
           /\ committed[latest] = head
  BY Zenon, FrameAssumption, MaxFrameAssumption
     DEF TypeOK, StoreSound, StoreCases, Number

\* Frame numbers are natural numbers up to the bound.
LEMMA NumberFacts ==
    ASSUME NEW f \in Frame
    PROVE  FrameNumber[f] \in 0..MaxFrame /\ FrameNumber[f] \in Number
  BY FrameAssumption, MaxFrameAssumption DEF Number

\* The first queued entry, and the places of the others.
LEMMA QueueFacts ==
    ASSUME TypeOK, queue # <<>>
    PROVE  /\ Head(queue) \in Entry
           /\ 1 \in DOMAIN queue /\ Head(queue) = queue[1]
           /\ Tail(queue) \in Seq(Entry)
           /\ \A i \in DOMAIN Tail(queue) :
                 i + 1 \in DOMAIN queue /\ Tail(queue)[i] = queue[i + 1]
           /\ \A i \in DOMAIN queue :
                 i # 1 => i - 1 \in DOMAIN Tail(queue) /\ Tail(queue)[i - 1] = queue[i]
  <1>1. queue \in Seq(Entry) /\ Len(queue) \in Nat /\ DOMAIN queue = 1..Len(queue)
    BY DEF TypeOK
  <1>2. Len(queue) > 0
    BY <1>1, EmptySeq
  <1>3. Tail(queue) \in Seq(Entry) /\ Len(Tail(queue)) = Len(queue) - 1
    BY Zenon, <1>1, HeadTailProperties
  <1>4. \A i \in 1..Len(Tail(queue)) : Tail(queue)[i] = queue[i + 1]
    BY Zenon, <1>1, HeadTailProperties
  <1>5. Head(queue) = queue[1] /\ Head(queue) \in Entry
    BY <1>1, HeadTailProperties
  <1> QED BY <1>1, <1>2, <1>3, <1>4, <1>5

-----------------------------------------------------------------------------
(* Type correctness.                                                       *)

\* A release leaves the calls well typed.
LEMMA CloseType ==
    ASSUME TypeOK, NEW e, Close(e)
    PROVE  call' \in [Caller -> {NoCall} \cup [at : Place, frame : Frame]]
  BY Zenon DEF TypeOK, Close

\* The new head and its commit are well typed.
LEMMA AdvanceType ==
    ASSUME TypeOK, NEW f \in Frame, Advance(f)
    PROVE  /\ committed' \in [Number -> Frame \cup {NoFrame}]
           /\ latest' \in 0..MaxFrame \cup {NoFrame}
           /\ phase' \in Phase
           /\ head' \in Frame \cup {NoFrame}
  BY Zenon, NumberFacts DEF TypeOK, Advance, CommitDataClockFrame, Phase

\* Every step keeps the types.
LEMMA TypeStep ==
    ASSUME Inv, [Next]_vars
    PROVE  TypeOK'
  <1> USE DEF durable, reel, engine, world
  <1>1. TypeOK
    BY Zenon DEF Inv
  <1>2. CASE Start
    <2>1. latest # NoFrame => latest \in Number
      BY <1>1, MaxFrameAssumption DEF TypeOK, Number
    <2>2. head' \in Frame \cup {NoFrame}
      BY Zenon, <1>1, <1>2, <2>1 DEF TypeOK, Start, GetLatestDataClockFrame
    <2> QED BY Zenon, <1>1, <1>2, <2>2 DEF TypeOK, Start, Phase
  <1>3. CASE StageGenesis
    BY Zenon, <1>1, <1>3, GenesisAssumption
       DEF TypeOK, StageGenesis, StageDataClockFrame, Phase
  <1>4. CASE CommitGenesis
    <2>1. /\ committed' \in [Number -> Frame \cup {NoFrame}]
          /\ latest' \in 0..MaxFrame
      BY Zenon, <1>1, <1>4, GenesisAssumption, NumberFacts
         DEF TypeOK, CommitGenesis, CommitDataClockFrame
    <2> QED BY Zenon, <1>1, <1>4, <2>1, GenesisAssumption DEF TypeOK, CommitGenesis, Phase
  <1>5. ASSUME NEW c \in Caller, NEW f \in Frame, InsertBegin(c, f) PROVE TypeOK'
    BY Zenon, <1>1, <1>5 DEF TypeOK, InsertBegin, At, Place
  <1>6. ASSUME NEW c \in Caller, InsertStage(c) PROVE TypeOK'
    <2>1. call[c] \in [at : Place, frame : Frame]
      BY <1>1, <1>6 DEF TypeOK, InsertStage, NoCall
    <2> QED BY Zenon, <1>1, <1>6, <2>1
            DEF TypeOK, InsertStage, StageDataClockFrame, At, Place
  <1>7. ASSUME NEW c \in Caller, InsertCheck(c) PROVE TypeOK'
    <2>1. call[c] \in [at : Place, frame : Frame]
      BY <1>1, <1>7 DEF TypeOK, InsertCheck, NoCall
    <2> QED BY Zenon, <1>1, <1>7, <2>1 DEF TypeOK, InsertCheck, At, Place
  <1>8. ASSUME NEW c \in Caller, InsertSend(c) PROVE TypeOK'
    <2>1. call[c] \in [at : Place, frame : Frame]
      BY <1>1, <1>8 DEF TypeOK, InsertSend, NoCall
    <2>2. [frame |-> call[c].frame, caller |-> c] \in Entry
      BY Zenon, <2>1 DEF Entry
    <2>3. queue' \in Seq(Entry)
      BY Zenon, <1>1, <1>8, <2>2, AppendProperties DEF TypeOK, InsertSend
    <2> QED BY Zenon, <1>1, <1>8, <2>1, <2>3 DEF TypeOK, InsertSend, At, Place
  <1>9. ASSUME NEW c \in Caller, InsertAbort(c) PROVE TypeOK'
    BY Zenon, <1>1, <1>9 DEF TypeOK, InsertAbort
  <1>10. CASE SendDelivered
    BY Zenon, <1>1, <1>10 DEF TypeOK, SendDelivered, Phase
  <1>11. CASE SendDropped
    BY Zenon, <1>1, <1>11 DEF TypeOK, SendDropped, Phase
  <1>12. CASE SendCancelled
    BY Zenon, <1>1, <1>12, CloseType DEF TypeOK, SendCancelled, Phase
  <1>13. CASE DequeueMissing \/ Crash
    <2>1. Die
      BY Zenon, <1>13 DEF DequeueMissing, Crash
    <2>2. queue' \in Seq(Entry)
      BY <2>1 DEF Die
    <2> QED BY <1>1, <2>1, <2>2, MaxFrameAssumption DEF TypeOK, Die, Phase
  <1>14. CASE DequeueNext
    <2>1. Head(queue) \in Entry /\ Tail(queue) \in Seq(Entry) /\ Taken \in Frame
      BY Zenon, <1>1, <1>14, QueueFacts DEF DequeueNext, Dequeue, Taken, Entry
    <2> QED BY Zenon, <1>1, <1>14, <2>1, AdvanceType DEF TypeOK, DequeueNext, Dequeue
  <1>15. CASE DequeueFailed
    <2>1. Tail(queue) \in Seq(Entry)
      BY Zenon, <1>1, <1>15, QueueFacts DEF DequeueFailed, Dequeue
    <2> QED BY Zenon, <1>1, <1>15, <2>1, CloseType DEF TypeOK, DequeueFailed, Dequeue
  <1>16. CASE DequeueOther
    <2>1. Head(queue) \in Entry /\ Tail(queue) \in Seq(Entry)
      BY Zenon, <1>1, <1>16, QueueFacts DEF DequeueOther, Dequeue
    <2> QED BY Zenon, <1>1, <1>16, <2>1 DEF TypeOK, DequeueOther, Dequeue, Phase
  <1>17. CASE DequeueLower
    <2>1. Tail(queue) \in Seq(Entry)
      BY Zenon, <1>1, <1>17, QueueFacts DEF DequeueLower, Dequeue
    <2> QED BY Zenon, <1>1, <1>17, <2>1 DEF TypeOK, DequeueLower, Dequeue
  <1>18. CASE PendingAdvance
    <2>1. PICK f \in Candidate : Advance(f)
      BY Zenon, <1>18 DEF PendingAdvance
    <2>2. f \in Frame
      BY Zenon, <1>1 DEF Candidate, TypeOK
    <2> QED BY Zenon, <1>1, <1>18, <2>1, <2>2, AdvanceType DEF TypeOK, PendingAdvance
  <1>19. CASE PendingDone
    BY Zenon, <1>1, <1>19, CloseType DEF TypeOK, PendingDone, Phase
  <1>20. CASE Receive \/ StopEngine \/ StopReel
    BY Zenon, <1>1, <1>20 DEF TypeOK, Receive, StopEngine, StopReel
  <1>21. CASE Prune
    <2>1. pruned' \in 1..(MaxFrame + 1)
      BY <1>1, <1>21, SettingAssumption, MaxFrameAssumption
         DEF TypeOK, Prune, PruneBatch
    <2> QED BY Zenon, <1>1, <1>21, <2>1 DEF TypeOK, Prune, PruneBatch
  <1>22. CASE RunLoopReturns
    BY Zenon, <1>1, <1>22 DEF TypeOK, RunLoopReturns, Phase
  <1>23. CASE UNCHANGED vars
    BY Zenon, <1>1, <1>23 DEF TypeOK, vars
  <1> QED BY Zenon, <1>2, <1>3, <1>4, <1>5, <1>6, <1>7, <1>8, <1>9, <1>10, <1>11, <1>12,
             <1>13, <1>14, <1>15, <1>16, <1>17, <1>18, <1>19, <1>20, <1>21, <1>22,
             <1>23
          DEF Next, StartStep, InsertStep, RunLoopStep, DequeueStep

-----------------------------------------------------------------------------
(* The store.                                                              *)

\* What a step can do to the store: nothing, ...
StoreKept ==
    /\ UNCHANGED <<committed, latest>>
    /\ Started' => latest # NoFrame /\ head' = committed[latest]
    /\ phase' \in {"genesis", "genesisStaged"} => latest = NoFrame

\* ... make the genesis frame, ...
GenesisMade ==
    /\ latest = NoFrame
    /\ CommitDataClockFrame(Genesis)
    /\ head' = Genesis
    /\ phase' = "idle"

\* ... commit the next frame, or prune.
Grows(f) ==
    /\ Started
    /\ FrameNumber[f] = FrameNumber[head] + 1
    /\ CommitDataClockFrame(f)
    /\ head' = f
    /\ phase' = "send"

\* Every step does one of these.
LEMMA StoreSteps ==
    ASSUME Inv, [Next]_vars
    PROVE  \/ StoreKept
           \/ GenesisMade
           \/ \E f \in Frame : Grows(f)
           \/ Prune
  <1> USE DEF durable, reel, engine, world
  <1>1. TypeOK /\ StoreSound /\ StoreCases
    BY Zenon DEF Inv
  <1>2. Started => latest # NoFrame /\ head = committed[latest]
    BY Zenon, <1>1 DEF StoreSound
  <1>3. CASE Start
    BY Zenon, <1>1, <1>3
       DEF Start, GetLatestDataClockFrame, StoreKept, StoreCases, Started
  <1>4. CASE StageGenesis
    BY Zenon, <1>1, <1>4 DEF StageGenesis, StoreKept, StoreCases, Started
  <1>5. CASE CommitGenesis
    BY Zenon, <1>1, <1>5 DEF CommitGenesis, GenesisMade, StoreCases
  <1>6. CASE DequeueNext
    <2>1. Taken \in Frame
      BY Zenon, <1>1, <1>6, QueueFacts DEF DequeueNext, Dequeue, Taken, Entry
    <2>2. Grows(Taken)
      BY Zenon, <1>6 DEF DequeueNext, Dequeue, Advance, Grows, Started
    <2> QED BY Zenon, <2>1, <2>2
  <1>7. CASE PendingAdvance
    <2>1. PICK f \in Candidate : Advance(f)
      BY Zenon, <1>7 DEF PendingAdvance
    <2>2. f \in Frame /\ Grows(f)
      BY Zenon, <1>1, <1>7, <2>1 DEF PendingAdvance, Candidate, TypeOK, Advance, Grows, Started
    <2> QED BY Zenon, <2>2
  <1>8. ASSUME NEW c \in Caller,
               \/ \E f \in Frame : InsertBegin(c, f)
               \/ InsertStep(c) \/ InsertAbort(c)
        PROVE  StoreKept
    BY Zenon, <1>1, <1>2, <1>8
       DEF InsertBegin, InsertStep, InsertStage, InsertCheck, InsertSend, InsertAbort,
           StoreKept, StoreCases, Started
  <1>9. CASE DequeueMissing \/ Crash
    BY Zenon, <1>9 DEF DequeueMissing, Crash, Die, StoreKept, Started
  <1>10. CASE DequeueFailed \/ DequeueOther \/ DequeueLower
    BY Zenon, <1>1, <1>2, <1>10
       DEF DequeueFailed, DequeueOther, DequeueLower, Dequeue, StoreKept, Started
  <1>11. CASE PendingDone \/ SendDelivered \/ SendDropped \/ SendCancelled
    BY Zenon, <1>1, <1>2, <1>11
       DEF PendingDone, SendDelivered, SendDropped, SendCancelled, StoreKept, Started
  <1>12. CASE Receive \/ StopEngine \/ StopReel \/ RunLoopReturns \/ UNCHANGED vars
    BY Zenon, <1>1, <1>2, <1>12
       DEF Receive, StopEngine, StopReel, RunLoopReturns, vars, StoreKept, StoreCases,
           Started
  <1> QED BY Zenon, <1>3, <1>4, <1>5, <1>6, <1>7, <1>8, <1>9, <1>10, <1>11, <1>12
          DEF Next, StartStep, RunLoopStep, DequeueStep

\* The numbers of an interval that ends before b.
LEMMA Interval ==
    ASSUME NEW a \in Nat, NEW b \in Nat
    PROVE  \A n : n \in a..(b - 1) <=> n \in Nat /\ a <= n /\ n < b
  OBVIOUS

\* What Prune removes: the numbers from pruned up to a bound below the head.
LEMMA PruneFacts ==
    ASSUME Inv, Prune
    PROVE  /\ pruned' \in Nat /\ pruned <= pruned'
           /\ pruned' + MaxFrames <= latest
           /\ \A n \in Number : committed'[n] = IF pruned <= n /\ n < pruned'
                                                THEN NoFrame ELSE committed[n]
           /\ \A f \in Frame : f \in staged' <=>
                 f \in staged /\ ~(pruned <= FrameNumber[f] /\ FrameNumber[f] < pruned')
           /\ UNCHANGED <<latest, phase, head>>
  <1>1. Started /\ FrameNumber[head] = latest /\ latest \in 0..MaxFrame
    BY Zenon, HeadFacts DEF Inv, Prune
  <1>2. pruned \in Nat /\ MaxFrames \in Nat
    BY SettingFacts, MaxFrameAssumption DEF Inv, TypeOK
  <1>3. PICK to \in (pruned + 1)..MaxFrame :
           /\ to + MaxFrames <= latest
           /\ pruned' = IF pruned + BatchSize < to THEN pruned + BatchSize ELSE to
    BY Zenon, <1>1 DEF Prune, PruneBatch
  <1>4. pruned' \in Nat /\ pruned <= pruned' /\ pruned' + MaxFrames <= latest
    BY <1>1, <1>2, <1>3, SettingAssumption, MaxFrameAssumption
  <1>5. \A n \in Nat : n \in pruned..(pruned' - 1) <=> pruned <= n /\ n < pruned'
    BY Zenon, <1>2, <1>4, Interval
  <1>6. \A n \in Number : committed'[n] = IF pruned <= n /\ n < pruned'
                                          THEN NoFrame ELSE committed[n]
    BY <1>5, MaxFrameAssumption DEF Prune, PruneBatch, Number
  <1>7. ASSUME NEW f \in Frame
        PROVE  f \in staged' <=>
                  f \in staged /\ ~(pruned <= FrameNumber[f] /\ FrameNumber[f] < pruned')
    BY <1>5, NumberFacts DEF Prune, PruneBatch
  <1> QED BY Zenon, <1>4, <1>6, <1>7 DEF Prune, PruneBatch, reel

\* The place of pruning moves only by Prune, until the process dies.
LEMMA PrunedSteps ==
    ASSUME Inv, [Next]_vars
    PROVE  \/ Prune
           \/ pruned' = pruned /\ (Started => Started')
           \/ pruned' = 1 /\ ~Started'
  <1> USE DEF durable, reel, engine, world
  <1>1. CASE StartStep \/ RunLoopReturns \/ Receive \/ StopEngine \/ StopReel
                \/ UNCHANGED vars
    BY Zenon, <1>1 DEF StartStep, Start, StageGenesis, CommitGenesis, RunLoopReturns, Receive,
                StopEngine, StopReel, vars, Started
  <1>2. ASSUME NEW c \in Caller,
               \/ \E f \in Frame : InsertBegin(c, f)
               \/ InsertStep(c) \/ InsertAbort(c)
        PROVE  pruned' = pruned /\ (Started => Started')
    BY Zenon, <1>2 DEF InsertBegin, InsertStep, InsertStage, InsertCheck, InsertSend,
                InsertAbort, Started
  <1>3. CASE DequeueMissing \/ Crash
    BY Zenon, <1>3 DEF DequeueMissing, Crash, Die, Started
  <1>4. CASE DequeueNext \/ DequeueFailed \/ DequeueOther \/ DequeueLower
    BY Zenon, <1>4 DEF DequeueNext, DequeueFailed, DequeueOther, DequeueLower, Dequeue,
                Advance, Started
  <1>5. CASE PendingAdvance \/ PendingDone
    BY Zenon, <1>5 DEF PendingAdvance, PendingDone, Advance, Started
  <1>6. CASE SendDelivered \/ SendDropped \/ SendCancelled
    BY Zenon, <1>6 DEF SendDelivered, SendDropped, SendCancelled, Started
  <1> QED BY Zenon, <1>1, <1>2, <1>3, <1>4, <1>5, <1>6 DEF Next, RunLoopStep, DequeueStep

\* n holds a frame of its own number, or nothing.
Holds(n) == committed[n] # NoFrame /\ FrameNumber[committed[n]] = n

\* The run of frames from first to the latest index, behind the genesis frame.
RunFrom(first) ==
    \A n \in Number : IF n = 0 \/ n \in first..latest
                      THEN Holds(n) ELSE committed[n] = NoFrame

\* The run of frames when the genesis frame is made.
LEMMA GenesisRun ==
    ASSUME Inv, GenesisMade
    PROVE  RunFrom(1)'
  <1>1. committed = EmptyStore
    BY Zenon DEF Inv, GenesisMade, StoreCases
  <1>2. latest' = 0 /\ committed' = [committed EXCEPT ![0] = Genesis]
    BY Zenon, GenesisAssumption DEF GenesisMade, CommitDataClockFrame
  <1>3. \A n \in Number : committed'[n] = IF n = 0 THEN Genesis ELSE NoFrame
    BY Zenon, <1>1, <1>2, MaxFrameAssumption DEF EmptyStore, Number
  <1>4. Genesis # NoFrame
    BY Zenon, GenesisAssumption, FrameAssumption
  <1> QED BY <1>2, <1>3, <1>4, GenesisAssumption DEF RunFrom, Holds, Number

\* The run of frames when the next one is committed.
LEMMA GrowsRun ==
    ASSUME Inv, NEW f \in Frame, Grows(f),
           NEW first \in 1..(latest + 1), RunFrom(first)
    PROVE  /\ latest \in 0..MaxFrame /\ latest # NoFrame /\ latest' # NoFrame
           /\ latest' = latest + 1 /\ latest + 1 \in Number /\ f # NoFrame
           /\ \A n \in Number : committed'[n] = IF n = latest + 1 THEN f ELSE committed[n]
           /\ RunFrom(first)'
  <1>1. TypeOK /\ StoreSound /\ StoreCases
    BY Zenon DEF Inv
  <1>2. Started /\ latest \in 0..MaxFrame /\ FrameNumber[f] = latest + 1
    BY Zenon, <1>1, HeadFacts DEF Grows
  <1>3. /\ latest' = latest + 1 /\ latest + 1 \in Number
        /\ committed' = [committed EXCEPT ![latest + 1] = f]
    BY Zenon, <1>2, NumberFacts DEF Grows, CommitDataClockFrame
  <1>4. \A n \in Number : committed'[n] = IF n = latest + 1 THEN f ELSE committed[n]
    BY Zenon, <1>1, <1>3 DEF TypeOK
  <1>5. f # NoFrame /\ latest # NoFrame /\ latest' # NoFrame
    BY <1>2, <1>3, FrameAssumption
  <1>6. RunFrom(first)'
    BY <1>2, <1>3, <1>4, <1>5 DEF RunFrom, Holds, Number
  <1> QED BY Zenon, <1>2, <1>3, <1>4, <1>5, <1>6

\* The run of frames when pruning has deleted up to pruned'.
LEMMA PruneRun ==
    ASSUME Inv, Prune, NEW first \in 1..(latest + 1), RunFrom(first),
           NEW new \in Nat, new = IF pruned' > first THEN pruned' ELSE first
    PROVE  RunFrom(new)'
  <1>1. TypeOK /\ StoreSound /\ StoreCases /\ PrunedBelow
    BY Zenon DEF Inv
  <1>2. Started /\ latest \in 0..MaxFrame /\ MaxFrames \in Nat \ {0}
    BY Zenon, <1>1, HeadFacts, SettingFacts DEF Prune
  <1>3. pruned \in Nat /\ pruned > 0 /\ pruned' \in Nat
    BY <1>1, PruneFacts, MaxFrameAssumption DEF TypeOK
  <1>4. /\ pruned <= pruned' /\ pruned' < latest /\ latest' = latest
        /\ \A n \in Number : committed'[n] = IF pruned <= n /\ n < pruned'
                                             THEN NoFrame ELSE committed[n]
    BY <1>2, <1>3, PruneFacts
  <1>5. \A n \in Number : n >= pruned' => committed'[n] = committed[n]
    BY <1>3, <1>4 DEF Number
  <1>6. \A n \in Number : 0 < n /\ n < pruned' => committed'[n] = NoFrame
    BY <1>1, <1>3, <1>4 DEF Number, PrunedBelow
  <1>7. committed'[0] = committed[0] /\ 0 \in Number
    BY <1>3, <1>4, MaxFrameAssumption DEF Number
  <1> SUFFICES ASSUME NEW n \in Number
               PROVE  IF n = 0 \/ n \in new..latest'
                      THEN committed'[n] # NoFrame /\ FrameNumber[committed'[n]] = n
                      ELSE committed'[n] = NoFrame
    BY Zenon DEF RunFrom, Holds
  <1>8. n \in Nat /\ first \in Nat /\ latest \in Nat
    BY <1>2, MaxFrameAssumption DEF Number
  <1>9. CASE n = 0
    BY Zenon, <1>7, <1>9 DEF RunFrom, Holds
  <1>10. CASE n # 0 /\ n < new
    BY <1>3, <1>4, <1>5, <1>6, <1>8, <1>10 DEF RunFrom
  <1>11. CASE n # 0 /\ n >= new
    BY <1>3, <1>4, <1>5, <1>8, <1>11 DEF RunFrom, Holds
  <1> QED BY <1>8, <1>9, <1>10, <1>11

\* The store keeps its one gapless run.
LEMMA StoreStep ==
    ASSUME Inv, [Next]_vars
    PROVE  StoreSound' /\ StoreCases' /\ PrunedBelow'
  <1>1. TypeOK /\ StoreSound /\ StoreCases /\ PrunedBelow
    BY Zenon DEF Inv
  <1>2. latest # NoFrame =>
            /\ committed[0] = Genesis
            /\ \E first \in 1..(latest + 1) : RunFrom(first)
    BY Zenon, <1>1 DEF StoreSound, RunFrom, Holds
  <1>3. TypeOK'
    BY Zenon, TypeStep
  <1>4. ASSUME NEW first \in 1..(latest' + 1), RunFrom(first)',
               committed'[0] = Genesis,
               latest' # NoFrame,
               head' = committed'[latest'],
               FrameNumber[head'] = latest'
        PROVE  StoreSound'
    BY Zenon, <1>4 DEF StoreSound, RunFrom, Holds
  <1>5. ASSUME latest # NoFrame
        PROVE  latest \in 0..MaxFrame /\ latest \in Number /\ Holds(latest)
    <2>1. latest \in 0..MaxFrame /\ latest \in Number
      BY <1>1, <1>5, MaxFrameAssumption DEF TypeOK, Number
    <2>2. PICK first \in 1..(latest + 1) : RunFrom(first)
      BY Zenon, <1>2, <1>5
    <2> QED BY Zenon, <1>1, <1>5, <2>1, <2>2 DEF RunFrom, StoreCases
  <1>6. pruned \in Nat /\ pruned' \in Nat /\ pruned > 0
    BY <1>1, <1>3, MaxFrameAssumption DEF TypeOK
  <1>7. CASE StoreKept /\ ~Prune
    <2>1. StoreSound'
      BY Zenon, <1>1, <1>5, <1>7 DEF StoreKept, StoreSound, Holds
    <2>2. StoreCases'
      BY Zenon, <1>1, <1>7 DEF StoreKept, StoreCases
    <2>4. ASSUME pruned' = pruned, Started => Started' PROVE PrunedBelow'
      BY <1>1, <1>5, <1>6, <1>7, <2>4 DEF PrunedBelow, StoreKept
    <2>5. ASSUME pruned' = 1, ~Started' PROVE PrunedBelow'
      BY <2>5 DEF PrunedBelow
    <2> QED BY Zenon, <1>7, <2>1, <2>2, <2>4, <2>5, PrunedSteps
  <1>8. CASE GenesisMade
    <2>1. committed = EmptyStore /\ ~Started /\ pruned = 1
      BY Zenon, <1>1, <1>8 DEF GenesisMade, StoreCases, StoreSound, PrunedBelow
    <2>2. /\ latest' = 0
          /\ committed' = [committed EXCEPT ![0] = Genesis]
      BY Zenon, <1>8, GenesisAssumption DEF GenesisMade, CommitDataClockFrame
    <2>3. \A n \in Number : committed'[n] = IF n = 0 THEN Genesis ELSE NoFrame
      BY Zenon, <2>1, <2>2, MaxFrameAssumption DEF EmptyStore, Number
    <2>4. 0 \in Number /\ committed'[0] = Genesis /\ Genesis # NoFrame
      BY <2>3, MaxFrameAssumption, GenesisAssumption, FrameAssumption DEF Number
    <2>5. RunFrom(1)'
      BY Zenon, <1>8, GenesisRun
    <2>6. StoreSound'
      <3>1. 1 \in 1..(latest' + 1) /\ latest' # NoFrame
        BY <2>2, FrameAssumption
      <3>2. head' = committed'[latest'] /\ FrameNumber[head'] = latest'
        BY Zenon, <1>8, <2>2, <2>4, GenesisAssumption DEF GenesisMade
      <3> QED BY Zenon, <1>4, <2>4, <2>5, <3>1, <3>2
    <2>7. StoreCases'
      BY <1>8, <2>2, <2>4, FrameAssumption DEF StoreCases, GenesisMade
    <2>8. pruned' = 1
      BY Zenon, <2>1, PrunedSteps DEF Prune
    <2> QED BY <2>2, <2>6, <2>7, <2>8 DEF PrunedBelow
  <1>9. ASSUME NEW f \in Frame, Grows(f)
        PROVE  StoreSound' /\ StoreCases' /\ PrunedBelow'
    <2>1. Started /\ latest \in 0..MaxFrame /\ FrameNumber[f] = latest + 1
      BY Zenon, <1>1, <1>9, HeadFacts DEF Grows
    <2>2. /\ latest' = latest + 1 /\ latest + 1 \in Number /\ head' = f
          /\ committed' = [committed EXCEPT ![latest + 1] = f]
      BY Zenon, <1>9, <2>1, NumberFacts DEF Grows, CommitDataClockFrame
    <2>3. \A n \in Number : committed'[n] = IF n = latest + 1 THEN f ELSE committed[n]
      BY Zenon, <1>1, <2>2 DEF TypeOK
    <2>4. PICK first \in 1..(latest + 1) : RunFrom(first)
      BY Zenon, <1>1, <1>2, <2>1 DEF StoreSound
    <2>5. f # NoFrame /\ latest # NoFrame /\ latest' # NoFrame
      BY <1>1, <2>1, <2>2, FrameAssumption
    <2>6. RunFrom(first)'
      BY Zenon, <1>9, <2>4, GrowsRun
    <2>7. committed'[0] = Genesis
      BY <1>2, <2>1, <2>3, <2>5, MaxFrameAssumption DEF Number
    <2>8. StoreSound'
      <3>1. first \in 1..(latest' + 1)
        BY <2>1, <2>2
      <3>2. head' = committed'[latest'] /\ FrameNumber[head'] = latest'
        BY Zenon, <2>1, <2>2, <2>3
      <3> QED BY Zenon, <1>4, <2>5, <2>6, <2>7, <3>1, <3>2
    <2>9. StoreCases'
      BY Zenon, <1>9, <2>2, <2>3, <2>5 DEF StoreCases, Grows
    <2>10. Started' /\ ~Prune
      BY <1>9, <2>1, <2>2 DEF Grows, Started, Prune, PruneBatch
    <2>11. pruned' = pruned
      BY Zenon, <2>10, PrunedSteps
    <2>12. PrunedBelow'
      BY <1>1, <1>6, <2>1, <2>2, <2>3, <2>10, <2>11 DEF PrunedBelow, Number
    <2> QED BY Zenon, <2>8, <2>9, <2>12
  <1>10. CASE Prune
    <2>1. Started /\ latest \in 0..MaxFrame /\ MaxFrames \in Nat \ {0}
      BY Zenon, <1>1, <1>10, HeadFacts, SettingFacts DEF Prune
    <2>2. PICK first \in 1..(latest + 1) : RunFrom(first)
      BY Zenon, <1>1, <1>2, <2>1 DEF StoreSound
    <2>3. /\ pruned <= pruned' /\ pruned' < latest /\ latest' = latest
          /\ \A n \in Number : committed'[n] = IF pruned <= n /\ n < pruned'
                                               THEN NoFrame ELSE committed[n]
          /\ UNCHANGED <<phase, head>>
      BY <1>6, <1>10, <2>1, PruneFacts
    <2>4. \A n \in Number : n >= pruned' => committed'[n] = committed[n]
      BY <1>6, <2>3 DEF Number
    <2>5. \A n \in Number : 0 < n /\ n < pruned' => committed'[n] = NoFrame
      BY <1>1, <1>6, <2>3 DEF Number, PrunedBelow
    <2>6. committed'[0] = committed[0] /\ 0 \in Number
      BY <1>6, <2>3, MaxFrameAssumption DEF Number
    <2>7. PICK new \in 1..(latest' + 1) :
             new = IF pruned' > first THEN pruned' ELSE first
      BY <1>6, <2>1, <2>3
    <2>8. RunFrom(new)'
      <3>1. new \in Nat
        BY <2>1, <2>3, <2>7
      <3> QED BY Zenon, <1>10, <2>2, <2>7, <3>1, PruneRun
    <2>9. Started' /\ latest # NoFrame
      BY Zenon, <1>1, <2>1, <2>3 DEF Started, StoreSound
    <2>10. committed'[latest] = committed[latest] /\ latest \in Number
      BY <1>5, <1>6, <2>1, <2>3, <2>4, <2>9
    <2>11. StoreSound'
      <3>2. committed'[0] = Genesis
        BY Zenon, <1>2, <2>6, <2>9
      <3>3. head' = committed'[latest'] /\ FrameNumber[head'] = latest'
        BY Zenon, <1>1, <2>1, <2>3, <2>10 DEF StoreSound
      <3> QED BY Zenon, <1>4, <2>3, <2>7, <2>8, <2>9, <3>2, <3>3
    <2>12. StoreCases'
      BY Zenon, <1>1, <2>3, <2>9, <2>10 DEF StoreCases
    <2>13. PrunedBelow'
      <3>1. ASSUME NEW n, n \in 1..(pruned' - 1)
            PROVE  committed'[n] = NoFrame
        <4>1. n \in Nat /\ 1 <= n /\ n < pruned'
          BY Zenon, <1>6, <3>1, Interval, 1 \in Nat
        <4>2. n \in Number
          BY <1>6, <2>1, <2>3, <4>1, MaxFrameAssumption DEF Number
        <4>3. 0 < n
          BY <4>1
        <4> QED BY Zenon, <2>5, <4>1, <4>2, <4>3
      <3>2. pruned' <= latest' + 1
        BY <1>6, <2>1, <2>3
      <3> QED BY Zenon, <2>9, <3>1, <3>2 DEF PrunedBelow
    <2> QED BY Zenon, <2>11, <2>12, <2>13
  <1> QED BY Zenon, <1>7, <1>8, <1>9, <1>10, StoreSteps

-----------------------------------------------------------------------------
(* Insert and the queue.                                                   *)

\* Before Start has returned, no step of Insert is taken.
LEMMA InsertStarted ==
    ASSUME Inv, NEW c \in Caller,
           \/ \E f \in Frame : InsertBegin(c, f)
           \/ InsertStep(c) \/ InsertAbort(c)
    PROVE  Started
  BY DEF Inv, Asleep, NoCall, InsertBegin, InsertStep, InsertStage, InsertCheck,
         InsertSend, InsertAbort

\* The calls: every step but those of Insert leaves or ends them.
LEMMA CallSteps ==
    ASSUME Inv, [Next]_vars
    PROVE  \/ \A d \in Caller : call'[d] \in {call[d], NoCall}
           \/ \E c \in Caller : \/ \E f \in Frame : InsertBegin(c, f)
                                \/ InsertStep(c)
  <1> USE DEF durable, reel, engine, world
  <1>1. call \in [Caller -> {NoCall} \cup [at : Place, frame : Frame]]
    BY Zenon DEF Inv, TypeOK
  <1>2. ASSUME NEW e, Close(e)
        PROVE  \A d \in Caller : call'[d] \in {call[d], NoCall}
    BY Zenon, <1>1, <1>2 DEF Close
  <1>3. CASE StartStep \/ RunLoopReturns \/ Receive \/ Prune \/ StopEngine \/ StopReel
                \/ UNCHANGED vars
    BY Zenon, <1>3 DEF StartStep, Start, StageGenesis, CommitGenesis, RunLoopReturns, Receive,
                Prune, PruneBatch, StopEngine, StopReel, vars
  <1>4. ASSUME NEW c \in Caller, InsertAbort(c)
        PROVE  \A d \in Caller : call'[d] \in {call[d], NoCall}
    BY Zenon, <1>1, <1>4 DEF InsertAbort
  <1>5. CASE DequeueMissing \/ Crash
    BY Zenon, <1>5 DEF DequeueMissing, Crash, Die
  <1>6. CASE DequeueNext \/ DequeueOther \/ DequeueLower \/ PendingAdvance
                \/ SendDelivered \/ SendDropped
    BY Zenon, <1>6 DEF DequeueNext, DequeueOther, DequeueLower, PendingAdvance, SendDelivered,
                SendDropped
  <1>7. CASE DequeueFailed \/ PendingDone \/ SendCancelled
    BY Zenon, <1>2, <1>7 DEF DequeueFailed, PendingDone, SendCancelled
  <1> QED BY Zenon, <1>3, <1>4, <1>5, <1>6, <1>7 DEF Next, RunLoopStep, DequeueStep

\* The queue: a step leaves it, empties it, takes its first frame or adds one.
LEMMA QueueSteps ==
    ASSUME Inv, [Next]_vars
    PROVE  \/ queue' \in {queue, <<>>}
           \/ queue # <<>> /\ queue' = Tail(queue)
           \/ \E c \in Caller : InsertSend(c)
  <1> USE DEF durable, reel, engine, world
  <1>1. CASE StartStep \/ RunLoopReturns \/ Receive \/ Prune \/ StopEngine \/ StopReel
                \/ UNCHANGED vars
    BY Zenon, <1>1 DEF StartStep, Start, StageGenesis, CommitGenesis, RunLoopReturns, Receive,
                Prune, PruneBatch, StopEngine, StopReel, vars
  <1>2. ASSUME NEW c \in Caller,
               \/ \E f \in Frame : InsertBegin(c, f)
               \/ InsertStage(c) \/ InsertCheck(c) \/ InsertAbort(c)
        PROVE  queue' = queue
    BY Zenon, <1>2 DEF InsertBegin, InsertStage, InsertCheck, InsertAbort
  <1>3. CASE DequeueMissing \/ Crash
    BY Zenon, <1>3 DEF DequeueMissing, Crash, Die
  <1>4. CASE DequeueNext \/ DequeueFailed \/ DequeueOther \/ DequeueLower
    BY Zenon, <1>4 DEF DequeueNext, DequeueFailed, DequeueOther, DequeueLower, Dequeue
  <1>5. CASE PendingAdvance \/ PendingDone \/ SendDelivered \/ SendDropped
                \/ SendCancelled
    BY Zenon, <1>5 DEF PendingAdvance, PendingDone, SendDelivered, SendDropped, SendCancelled
  <1> QED BY Zenon, <1>1, <1>2, <1>3, <1>4, <1>5 DEF Next, InsertStep, RunLoopStep, DequeueStep

\* The reel is down after a step in which the process dies, or one of Start.
LEMMA AsleepSteps ==
    ASSUME Inv, [Next]_vars, ~Started'
    PROVE  \/ Die
           \/ ~Started /\ (Start \/ StageGenesis \/ StopReel \/ UNCHANGED vars)
  <1> USE DEF durable, reel, engine, world
  <1>1. CASE DequeueMissing \/ Crash
    BY Zenon, <1>1 DEF DequeueMissing, Crash
  <1>2. CASE ~Started /\ ~(DequeueMissing \/ Crash)
    <2>1. StartStep \/ UNCHANGED vars \/ StopReel
      BY Zenon, <1>2, InsertStarted
         DEF Next, RunLoopStep, DequeueStep, Started, DequeueNext, DequeueFailed,
             DequeueOther, DequeueLower, Dequeue, PendingAdvance, PendingDone,
             SendDelivered, SendDropped, SendCancelled, Receive, Prune, StopEngine,
             RunLoopReturns
    <2>2. ~CommitGenesis
      BY Zenon DEF CommitGenesis, Started
    <2> QED BY Zenon, <1>2, <2>1, <2>2 DEF StartStep
  <1>3. CASE Started /\ ~(DequeueMissing \/ Crash)
    <2>1. CASE StartStep
      BY Zenon, <1>3, <2>1 DEF StartStep, Start, StageGenesis, CommitGenesis, Started
    <2>2. CASE \E c \in Caller : \/ \E f \in Frame : InsertBegin(c, f)
                                 \/ InsertStep(c) \/ InsertAbort(c)
      BY Zenon, <1>3, <2>2 DEF InsertBegin, InsertStep, InsertStage, InsertCheck, InsertSend,
                        InsertAbort, Started
    <2>3. CASE DequeueNext \/ DequeueFailed \/ DequeueOther \/ DequeueLower
      BY Zenon, <1>3, <2>3 DEF DequeueNext, DequeueFailed, DequeueOther, DequeueLower,
                        Dequeue, Advance, Started
    <2>4. CASE PendingAdvance \/ PendingDone \/ SendDelivered \/ SendDropped
                  \/ SendCancelled
      BY Zenon, <1>3, <2>4 DEF PendingAdvance, PendingDone, SendDelivered, SendDropped,
                        SendCancelled, Advance, Started
    <2>5. CASE Receive \/ Prune \/ StopEngine \/ StopReel \/ RunLoopReturns
                  \/ UNCHANGED vars
      BY Zenon, <1>3, <2>5 DEF Receive, Prune, PruneBatch, StopEngine, StopReel,
                        RunLoopReturns, vars, Started
    <2> QED BY Zenon, <1>3, <2>1, <2>2, <2>3, <2>4, <2>5 DEF Next, RunLoopStep, DequeueStep
  <1> QED BY Zenon, <1>1, <1>2, <1>3

\* Before Start has returned, nothing happens in Insert and in the queue, and the
\* store of a process that has never died is empty.
LEMMA AsleepStep ==
    ASSUME Inv, [Next]_vars
    PROVE  Asleep' /\ FreshStore'
  <1> USE DEF durable, reel, engine, world
  <1>1. CASE Started'
    BY Zenon, <1>1 DEF Asleep, FreshStore
  <1>2. CASE Die
    <2>1. crashes' # 0
      BY <1>2 DEF Die, Inv, TypeOK
    <2> QED BY Zenon, <1>2, <2>1 DEF Die, Asleep, FreshStore
  <1>3. CASE ~Started' /\ ~Started /\ (Start \/ StageGenesis \/ StopReel \/ UNCHANGED vars)
    <2>1. Asleep /\ FreshStore
      BY Zenon DEF Inv
    <2>2. Asleep'
      BY Zenon, <1>3, <2>1 DEF Asleep, Start, StageGenesis, StopReel, vars
    <2>3. FreshStore'
      BY Zenon, <1>3, <2>1 DEF FreshStore, Start, StageGenesis, StageDataClockFrame, StopReel,
                        vars
    <2> QED BY Zenon, <2>2, <2>3
  <1> QED BY Zenon, <1>1, <1>2, <1>3, AsleepSteps

\* Only pruning takes staged frames away.
LEMMA StagedSteps ==
    ASSUME Inv, [Next]_vars
    PROVE  Prune \/ staged \subseteq staged'
  <1> USE DEF durable, reel, engine, world
  <1>1. CASE StartStep \/ RunLoopReturns \/ Receive \/ StopEngine \/ StopReel
                \/ UNCHANGED vars
    BY Zenon, <1>1 DEF StartStep, Start, StageGenesis, StageDataClockFrame, CommitGenesis,
                RunLoopReturns, Receive, StopEngine, StopReel, vars
  <1>2. ASSUME NEW c \in Caller,
               \/ \E f \in Frame : InsertBegin(c, f)
               \/ InsertStep(c) \/ InsertAbort(c)
        PROVE  staged \subseteq staged'
    BY Zenon, <1>2 DEF InsertBegin, InsertStep, InsertStage, StageDataClockFrame, InsertCheck,
                InsertSend, InsertAbort
  <1>3. CASE DequeueStep \/ Crash
    BY Zenon, <1>3 DEF DequeueStep, DequeueMissing, Crash, Die, DequeueNext, DequeueFailed,
                DequeueOther, DequeueLower
  <1>4. CASE PendingAdvance \/ PendingDone \/ SendDelivered \/ SendDropped
                \/ SendCancelled
    BY Zenon, <1>4 DEF PendingAdvance, PendingDone, SendDelivered, SendDropped, SendCancelled
  <1> QED BY Zenon, <1>1, <1>2, <1>3, <1>4 DEF Next, RunLoopStep

\* While the reel runs the head only rises, and so does the place of pruning;
\* a staged frame that pruning has not come to stays.
LEMMA Monotone ==
    ASSUME Inv, [Next]_vars, Started, Started'
    PROVE  /\ FrameNumber[head] \in Nat /\ FrameNumber[head'] \in Nat
           /\ FrameNumber[head'] >= FrameNumber[head]
           /\ pruned \in Nat /\ pruned' \in Nat
           /\ pruned' >= pruned
           /\ \A f \in staged : FrameNumber[f] >= pruned' => f \in staged'
  <1>1. /\ head \in Frame /\ FrameNumber[head] = latest /\ latest \in 0..MaxFrame
        /\ head = committed[latest] /\ latest # NoFrame
    BY Zenon, HeadFacts, FrameAssumption DEF Inv, StoreSound
  <1>2. TypeOK' /\ StoreSound' /\ StoreCases'
    BY Zenon, TypeStep, StoreStep
  <1>3. head' \in Frame /\ FrameNumber[head'] = latest' /\ latest' \in 0..MaxFrame
    BY Zenon, <1>2, FrameAssumption, MaxFrameAssumption
       DEF TypeOK, StoreSound, StoreCases, Number
  <1>4. latest' >= latest
    <2>1. CASE StoreKept
      BY <1>1, <2>1 DEF StoreKept
    <2>2. CASE GenesisMade
      BY Zenon, <1>1, <2>2 DEF GenesisMade
    <2>3. ASSUME NEW f \in Frame, Grows(f) PROVE latest' >= latest
      BY <1>1, <2>3 DEF Grows, CommitDataClockFrame
    <2>4. CASE Prune
      BY <1>1, <2>4, PruneFacts
    <2> QED BY Zenon, <2>1, <2>2, <2>3, <2>4, StoreSteps
  <1>5. pruned \in Nat /\ pruned' \in Nat
    BY <1>2, MaxFrameAssumption DEF Inv, TypeOK
  <1>6. pruned' >= pruned
    BY <1>5, PrunedSteps, PruneFacts
  <1>7. ASSUME NEW f \in staged, FrameNumber[f] >= pruned'
        PROVE  f \in staged'
    <2>1. f \in Frame /\ FrameNumber[f] \in Nat
      BY NumberFacts DEF Inv, TypeOK
    <2>2. CASE Prune
      BY <1>5, <1>7, <2>1, <2>2, PruneFacts
    <2> QED BY Zenon, <2>2, StagedSteps
  <1>8. /\ FrameNumber[head] \in Nat /\ FrameNumber[head'] \in Nat
        /\ FrameNumber[head'] >= FrameNumber[head]
    BY <1>1, <1>3, <1>4
  <1> QED BY Zenon, <1>5, <1>6, <1>7, <1>8

\* A caller inside Insert keeps what it has made sure of.
LEMMA CallsStep ==
    ASSUME Inv, [Next]_vars
    PROVE  CallsSound'
  <1> USE DEF durable, reel, engine, world
  <1>1. TypeOK /\ CallsSound /\ Asleep
    BY Zenon DEF Inv
  <1>2. CASE ~Started'
    <2>1. \A c \in Caller : call'[c] = NoCall
      BY Zenon, <1>2, AsleepStep DEF Asleep
    <2> QED BY <2>1 DEF CallsSound, NoCall
  <1>3. CASE ~Started /\ Started'
    <2>1. \A c \in Caller : call'[c] = NoCall
      BY Zenon, <1>1, <1>3, CallSteps, InsertStarted DEF Asleep
    <2> QED BY <2>1 DEF CallsSound, NoCall
  <1>4. CASE Started /\ Started'
    <2> SUFFICES ASSUME NEW d \in Caller
                 PROVE  /\ call'[d].at \in {"checking", "sending"} =>
                              (FrameNumber[call'[d].frame] >= pruned' =>
                                  call'[d].frame \in staged')
                        /\ call'[d].at = "sending" =>
                              FrameNumber[call'[d].frame] <= FrameNumber[head'] + 1
      BY Zenon DEF CallsSound
    <2>1. /\ FrameNumber[head] \in Nat /\ FrameNumber[head'] \in Nat
          /\ FrameNumber[head'] >= FrameNumber[head]
          /\ pruned \in Nat /\ pruned' \in Nat /\ pruned' >= pruned
          /\ \A f \in staged : FrameNumber[f] >= pruned' => f \in staged'
      BY Zenon, <1>4, Monotone
    <2>2. call[d] # NoCall =>
             call[d].frame \in Frame /\ FrameNumber[call[d].frame] \in Nat
      <3>1. call[d] \in {NoCall} \cup [at : Place, frame : Frame]
        BY Zenon, <1>1 DEF TypeOK
      <3>2. call[d] # NoCall => call[d].frame \in Frame
        BY Zenon, <3>1
      <3>3. \A f \in Frame : FrameNumber[f] \in Nat
        BY NumberFacts
      <3> QED BY Zenon, <3>2, <3>3
    <2>3. CASE call'[d] = call[d]
      BY <1>1, <2>1, <2>2, <2>3 DEF CallsSound, NoCall
    <2>4. CASE call'[d] = NoCall
      BY <2>4 DEF NoCall
    <2>5. ASSUME NEW c \in Caller, NEW f \in Frame, InsertBegin(c, f), d = c
          PROVE  call'[d].at = "staging"
      BY Zenon, <1>1, <2>5 DEF InsertBegin, TypeOK, At
    <2>6. ASSUME InsertStage(d)
          PROVE  call'[d].at = "checking" /\ call'[d].frame \in staged'
      BY Zenon, <1>1, <2>6 DEF InsertStage, StageDataClockFrame, TypeOK, At
    <2>7. ASSUME InsertCheck(d), call'[d] # NoCall
          PROVE  /\ call[d].at = "checking" /\ call'[d] = At("sending", call[d].frame)
                 /\ FrameNumber[call[d].frame] = FrameNumber[head] + 1
      BY Zenon, <1>1, <2>7 DEF InsertCheck, TypeOK
    <2>8. ASSUME InsertCheck(d), call'[d] # NoCall
          PROVE  /\ FrameNumber[call'[d].frame] >= pruned' => call'[d].frame \in staged'
                 /\ FrameNumber[call'[d].frame] <= FrameNumber[head'] + 1
      <3>1. call'[d].frame = call[d].frame
        BY <2>7, <2>8 DEF At
      <3>2. FrameNumber[call[d].frame] >= pruned => call[d].frame \in staged
        BY Zenon, <1>1, <2>7, <2>8 DEF CallsSound
      <3> QED BY <2>1, <2>7, <2>8, <3>1, <3>2
    <2>9. ASSUME InsertSend(d)
          PROVE  call'[d].at \in {"outside", "waiting"}
      BY Zenon, <1>1, <2>9 DEF InsertSend, TypeOK, At, NoCall
    <2>10. ASSUME NEW c \in Caller, c # d,
                  \/ \E f \in Frame : InsertBegin(c, f)
                  \/ InsertStep(c)
           PROVE  call'[d] = call[d]
      BY Zenon, <1>1, <2>10 DEF InsertBegin, InsertStep, InsertStage, InsertCheck, InsertSend,
                         TypeOK
    <2> QED BY Zenon, <2>3, <2>4, <2>5, <2>6, <2>8, <2>9, <2>10, CallSteps DEF InsertStep
  <1> QED BY Zenon, <1>2, <1>3, <1>4

\* A queued frame leaves no gap, and has its staged copy.
LEMMA QueueStep ==
    ASSUME Inv, [Next]_vars
    PROVE  QueueSound'
  <1>1. TypeOK /\ QueueSound /\ CallsSound /\ Asleep
    BY Zenon DEF Inv
  <1>2. CASE ~Started'
    <2>1. queue' = <<>>
      BY Zenon, <1>2, AsleepStep DEF Asleep
    <2> QED BY <2>1 DEF QueueSound
  <1>3. CASE ~Started /\ Started'
    <2>1. queue = <<>>
      BY Zenon, <1>1, <1>3 DEF Asleep
    <2>2. ~ \E c \in Caller : InsertSend(c)
      BY Zenon, <1>3, InsertStarted DEF InsertStep
    <2>3. queue' = <<>>
      BY Zenon, <2>1, <2>2, QueueSteps
    <2> QED BY <2>3 DEF QueueSound
  <1>4. CASE Started /\ Started'
    <2>1. /\ FrameNumber[head] \in Nat /\ FrameNumber[head'] \in Nat
          /\ FrameNumber[head'] >= FrameNumber[head]
          /\ pruned \in Nat /\ pruned' \in Nat /\ pruned' >= pruned
          /\ \A f \in staged : FrameNumber[f] >= pruned' => f \in staged'
      BY Zenon, <1>4, Monotone
    <2>2. ASSUME NEW e \in Entry,
                 FrameNumber[e.frame] <= FrameNumber[head] + 1,
                 FrameNumber[e.frame] >= pruned => e.frame \in staged
          PROVE  /\ FrameNumber[e.frame] <= FrameNumber[head'] + 1
                 /\ FrameNumber[e.frame] >= pruned' => e.frame \in staged'
      <3>1. e.frame \in Frame /\ FrameNumber[e.frame] \in Nat
        BY NumberFacts DEF Entry
      <3> QED BY <2>1, <2>2, <3>1
    <2>3. \A i \in DOMAIN queue :
             /\ queue[i] \in Entry
             /\ FrameNumber[queue[i].frame] <= FrameNumber[head] + 1
             /\ FrameNumber[queue[i].frame] >= pruned => queue[i].frame \in staged
      BY <1>1, ElementOfSeq DEF TypeOK, QueueSound
    <2>4. CASE queue' \in {queue, <<>>}
      BY <2>2, <2>3, <2>4 DEF QueueSound
    <2>5. CASE queue # <<>> /\ queue' = Tail(queue)
      <3>1. \A i \in DOMAIN queue' : i + 1 \in DOMAIN queue /\ queue'[i] = queue[i + 1]
        BY Zenon, <1>1, <2>5, QueueFacts
      <3> QED BY Zenon, <2>2, <2>3, <3>1 DEF QueueSound
    <2>6. ASSUME NEW c \in Caller, InsertSend(c) PROVE QueueSound'
      <3> DEFINE e == [frame |-> call[c].frame, caller |-> c]
      <3>1. call[c] \in [at : Place, frame : Frame]
        BY <1>1, <2>6 DEF TypeOK, InsertSend, NoCall
      <3>2. e \in Entry
        BY Zenon, <3>1 DEF Entry
      <3>3. /\ FrameNumber[e.frame] <= FrameNumber[head] + 1
            /\ FrameNumber[e.frame] >= pruned => e.frame \in staged
        BY Zenon, <1>1, <2>6 DEF CallsSound, InsertSend
      <3>4. queue \in Seq(Entry) /\ queue' = Append(queue, e)
        BY Zenon, <1>1, <2>6 DEF TypeOK, InsertSend
      <3> HIDE DEF e
      <3>5. \A i \in DOMAIN queue' : \/ queue'[i] = e
                                     \/ i \in DOMAIN queue /\ queue'[i] = queue[i]
        BY <3>2, <3>4, AppendProperties, LenProperties
      <3> QED BY Zenon, <2>2, <2>3, <3>2, <3>3, <3>5 DEF QueueSound
    <2> QED BY Zenon, <2>4, <2>5, <2>6, QueueSteps
  <1> QED BY Zenon, <1>2, <1>3, <1>4

-----------------------------------------------------------------------------
(* No wake-up is lost.                                                     *)

\* While the head stays, no candidate is lost, and one that was staged before was
\* a candidate before: the frame under the head is always committed.
LEMMA CandidateKept ==
    ASSUME Inv, [Next]_vars, Started, Started', head' = head,
           NEW f \in Candidate', IsFirst(f)', f \in staged
    PROVE  f \in Candidate /\ IsFirst(f)
  <1>1. /\ head \in Frame /\ latest \in 0..MaxFrame /\ FrameNumber[head] = latest
        /\ committed[latest] = head
    BY Zenon, HeadFacts DEF Inv
  <1>2. head # NoFrame
    BY Zenon, <1>1, FrameAssumption
  <1>3. TypeOK' /\ StoreSound' /\ StoreCases'
    BY Zenon, TypeStep, StoreStep
  <1>4. latest' = latest /\ committed'[latest] = head
    BY Zenon, <1>1, <1>3 DEF StoreSound
  <1>5. \A g \in Frame : FrameNumber[g] = latest + 1 => HasDistance(g) /\ HasDistance(g)'
    BY <1>1, <1>2, <1>4 DEF HasDistance
  <1>6. staged \subseteq Frame
    BY Zenon DEF Inv, TypeOK
  <1>7. ASSUME NEW g \in Candidate PROVE g \in Candidate'
    <2>1. g \in staged /\ g \in Frame /\ FrameNumber[g] = latest + 1 /\ IsChild(head, g)
      BY Zenon, <1>1, <1>6 DEF Candidate
    <2>2. latest + 1 >= pruned'
      BY Zenon, <1>3, <1>4, StoreStep DEF PrunedBelow
    <2>3. g \in staged'
      BY Zenon, <2>1, <2>2, Monotone
    <2> QED BY Zenon, <1>1, <1>4, <1>5, <2>1, <2>3 DEF Candidate, IsChild
  <1>8. f \in Candidate
    BY Zenon, <1>1, <1>5, <1>6 DEF Candidate, IsChild
  <1> QED BY Zenon, <1>7, <1>8 DEF IsFirst

\* What carries a frame goes on carrying it, until runLoop takes the frame.
LEMMA CarriedKept ==
    ASSUME Inv, NEW f \in Frame, Carried(f), UNCHANGED queue,
           \A d \in Caller : call[d].at \in {"checking", "sending"} => call'[d] = call[d]
    PROVE  Carried(f)'
  BY DEF Carried, At

\* Whenever the reel goes to sleep, or sleeps on, what could follow its head is
\* carried.
LEMMA CarriedStep ==
    ASSUME Inv, [Next]_vars
    PROVE  FirstCarried'
  <1> USE DEF durable, reel, engine, world
  <1> SUFFICES ASSUME phase' = "idle", stopping' = "no", crashes' = 0,
                      NEW f \in Candidate', IsFirst(f)', f \notin Invalid'
               PROVE  Carried(f)'
    BY Zenon DEF FirstCarried
  <1>1. TypeOK /\ FirstCarried /\ FreshStore
    BY Zenon DEF Inv
  <1>2. ~Die
    BY Zenon, <1>1 DEF Die, TypeOK
  <1>3. Invalid' = Invalid
    BY Zenon, <1>2 DEF Next, StartStep, Start, StageGenesis, CommitGenesis, InsertBegin,
        InsertStep, InsertStage, InsertCheck, InsertSend, InsertAbort, RunLoopStep,
        DequeueStep, DequeueMissing, DequeueNext, DequeueFailed, DequeueOther,
        DequeueLower, PendingAdvance, PendingDone, SendDelivered, SendDropped,
        SendCancelled, Receive, Prune, PruneBatch, StopEngine, StopReel, RunLoopReturns,
        Crash, vars, Invalid
  <1>4. f \in staged' /\ FrameNumber[f] = FrameNumber[head'] + 1
    BY Zenon DEF Candidate
  <1>5. f \in Frame /\ FrameNumber[f] \in Nat
    BY <1>4, TypeStep, NumberFacts DEF TypeOK
  <1>6. CASE StartStep
    <2>1. CASE Start \/ StageGenesis
      BY Zenon, <1>1, <2>1 DEF Start, StageGenesis, GetLatestDataClockFrame, FreshStore, Started
    <2>2. CASE CommitGenesis
      <3>1. staged' \subseteq {Genesis} /\ head' = Genesis
        BY Zenon, <1>1, <2>2 DEF CommitGenesis, FreshStore, Started
      <3> QED BY <1>4, <3>1, GenesisAssumption
    <2> QED BY Zenon, <1>6, <2>1, <2>2 DEF StartStep
  <1>7. CASE PendingDone
    <2>1. stopping # "reel"
      BY Zenon, <1>7 DEF PendingDone
    <2>2. Candidate' = Candidate
      BY Zenon, <1>7 DEF PendingDone, Candidate, HasDistance
    <2>3. f \in Candidate /\ IsFirst(f)
      BY Zenon, <2>2 DEF IsFirst
    <2> QED BY Zenon, <1>3, <1>7, <2>1, <2>3 DEF PendingDone
  <1>8. ~(\/ SendCancelled \/ SendDelivered \/ SendDropped \/ DequeueNext \/ DequeueOther
          \/ PendingAdvance \/ DequeueMissing \/ Crash \/ StopEngine \/ StopReel
          \/ RunLoopReturns)
    BY Zenon, <1>2 DEF SendCancelled, SendDelivered, SendDropped, DequeueNext, DequeueOther,
        PendingAdvance, Advance, DequeueMissing, Crash, StopEngine, StopReel,
        RunLoopReturns
  <1>9. \A c \in Caller : ~InsertAbort(c)
    BY Zenon DEF InsertAbort
  <1>10. ASSUME phase = "idle", stopping = "no", crashes = 0, head' = head, f \in staged
         PROVE  Carried(f) /\ f \notin Invalid
    <2>1. Started /\ Started'
      BY Zenon, <1>10 DEF Started
    <2>2. f \in Candidate /\ IsFirst(f)
      BY Zenon, <1>10, <2>1, CandidateKept
    <2> QED BY Zenon, <1>1, <1>3, <1>10, <2>2 DEF FirstCarried
  <1>11. ASSUME NEW c \in Caller, NEW g \in Frame, InsertBegin(c, g) PROVE Carried(f)'
    <2>1. Carried(f)
      BY Zenon, <1>4, <1>10, <1>11 DEF InsertBegin
    <2>2. \A d \in Caller : call[d].at \in {"checking", "sending"} => call'[d] = call[d]
      BY <1>1, <1>11 DEF InsertBegin, TypeOK, NoCall
    <2> QED BY Zenon, <1>5, <1>11, <2>1, <2>2, CarriedKept DEF InsertBegin
  <1>12. ASSUME NEW c \in Caller, InsertStage(c) PROVE Carried(f)'
    <2>1. CASE f = call[c].frame
      BY Zenon, <1>1, <1>12, <2>1 DEF InsertStage, TypeOK, Carried
    <2>2. CASE f # call[c].frame
      <3>1. f \in staged
        BY Zenon, <1>4, <1>12, <2>2 DEF InsertStage, StageDataClockFrame
      <3>2. Carried(f)
        BY Zenon, <1>10, <1>12, <3>1 DEF InsertStage
      <3>3. \A d \in Caller : call[d].at \in {"checking", "sending"} => call'[d] = call[d]
        BY Zenon, <1>1, <1>12 DEF InsertStage, TypeOK
      <3> QED BY Zenon, <1>5, <1>12, <3>2, <3>3, CarriedKept DEF InsertStage
    <2> QED BY Zenon, <2>1, <2>2
  <1>13. ASSUME NEW c \in Caller, InsertCheck(c) PROVE Carried(f)'
    <2>1. Carried(f)
      BY Zenon, <1>4, <1>10, <1>13 DEF InsertCheck
    <2>2. call'[c] = IF FrameNumber[call[c].frame] = FrameNumber[head] + 1
                     THEN At("sending", call[c].frame) ELSE NoCall
      BY Zenon, <1>1, <1>13 DEF InsertCheck, TypeOK
    <2>3. CASE call[c] = At("checking", f)
      <3>1. call'[c] = At("sending", f)
        BY <1>4, <1>13, <2>2, <2>3 DEF At, InsertCheck
      <3> QED BY Zenon, <3>1 DEF Carried
    <2>4. CASE call[c] # At("checking", f)
      <3>1. call[c] # At("sending", f)
        BY <1>13 DEF InsertCheck, At
      <3>2. \A d \in Caller : d # c => call'[d] = call[d]
        BY Zenon, <1>1, <1>13 DEF InsertCheck, TypeOK
      <3>3. queue' = queue
        BY Zenon, <1>13 DEF InsertCheck
      <3> QED BY Zenon, <2>1, <2>4, <3>1, <3>2, <3>3 DEF Carried
    <2> QED BY Zenon, <2>3, <2>4
  <1>14. ASSUME NEW c \in Caller, InsertSend(c) PROVE Carried(f)'
    <2>1. Carried(f)
      BY Zenon, <1>4, <1>10, <1>14 DEF InsertSend
    <2> DEFINE e == [frame |-> call[c].frame, caller |-> c]
    <2>2. call[c] \in [at : Place, frame : Frame]
      BY <1>1, <1>14 DEF TypeOK, InsertSend, NoCall
    <2>3. e \in Entry /\ e.frame = call[c].frame
      BY Zenon, <2>2 DEF Entry
    <2>4. queue \in Seq(Entry) /\ queue' = Append(queue, e)
      BY Zenon, <1>1, <1>14 DEF TypeOK, InsertSend
    <2> HIDE DEF e
    <2>5. /\ \A i \in DOMAIN queue : i \in DOMAIN queue' /\ queue'[i] = queue[i]
          /\ Len(queue) + 1 \in DOMAIN queue' /\ queue'[Len(queue) + 1] = e
      BY <2>3, <2>4, AppendProperties, LenProperties
    <2>6. \A d \in Caller : d # c => call'[d] = call[d]
      BY Zenon, <1>1, <1>14 DEF InsertSend, TypeOK
    <2>7. CASE f = call[c].frame
      BY Zenon, <2>3, <2>5, <2>7 DEF Carried
    <2>8. CASE f # call[c].frame
      BY <2>1, <2>5, <2>6, <2>8 DEF Carried, At
    <2> QED BY Zenon, <2>7, <2>8
  <1>15. CASE DequeueFailed \/ DequeueLower
    <2>1. Dequeue /\ phase = "idle" /\ stopping = "no" /\ crashes = 0 /\ head' = head
          /\ staged' = staged
      BY Zenon, <1>15 DEF DequeueFailed, DequeueLower, Dequeue
    <2>2. Carried(f) /\ f \notin Invalid
      BY Zenon, <1>4, <1>10, <2>1
    <2>3. head \in Frame /\ FrameNumber[head] \in Nat
      BY <2>1, HeadFacts DEF Inv, Started
    <2>4. Taken # f
      BY <1>4, <1>15, <2>1, <2>2, <2>3 DEF DequeueFailed, DequeueLower
    <2>5. \A d \in Caller : call[d].at \in {"checking", "sending"} => call'[d] = call[d]
      BY Zenon, <1>1, <1>15 DEF DequeueFailed, DequeueLower, Close, TypeOK
    <2>6. CASE \E c \in Caller : call[c] \in {At("checking", f), At("sending", f)}
      BY <2>5, <2>6 DEF Carried, At
    <2>7. CASE \E i \in DOMAIN queue : queue[i].frame = f
      <3>1. PICK i \in DOMAIN queue : queue[i].frame = f
        BY Zenon, <2>7
      <3>2. i # 1
        BY Zenon, <1>1, <2>1, <2>4, <3>1, QueueFacts DEF Taken, Dequeue
      <3>3. i - 1 \in DOMAIN queue' /\ queue'[i - 1] = queue[i]
        BY Zenon, <1>1, <2>1, <3>1, <3>2, QueueFacts DEF Dequeue
      <3> QED BY Zenon, <3>1, <3>3 DEF Carried
    <2> QED BY Zenon, <2>2, <2>6, <2>7 DEF Carried
  <1>16. CASE Receive \/ Prune \/ UNCHANGED vars
    <2>1. /\ phase = "idle" /\ stopping = "no" /\ crashes = 0
          /\ UNCHANGED <<head, call, queue>> /\ staged' \subseteq staged
      BY Zenon, <1>16 DEF Receive, Prune, PruneBatch, vars
    <2>2. Carried(f)
      BY Zenon, <1>4, <1>10, <2>1
    <2> QED BY Zenon, <2>1, <2>2 DEF Carried
  <1> QED BY Zenon, <1>6, <1>7, <1>8, <1>9, <1>11, <1>12, <1>13, <1>14, <1>15, <1>16
          DEF Next, InsertStep, RunLoopStep, DequeueStep

-----------------------------------------------------------------------------
(* The engine's loop.                                                      *)

\* How far the engine's loop is behind the head, after every step.
LEMMA DeliveredStep ==
    ASSUME Inv, [Next]_vars
    PROVE  DeliveredSound'
  <1> USE DEF durable, reel, engine, world
  <1>1. TypeOK /\ DeliveredSound /\ Asleep
    BY Zenon DEF Inv
  <1>2. \A f \in Frame : FrameNumber[f] \in Nat
    BY NumberFacts
  <1>3. delivered # NoFrame => delivered \in Frame /\ Started
    BY Zenon, <1>1 DEF TypeOK, Asleep
  <1>4. Started => head \in Frame
    BY Zenon, HeadFacts DEF Inv
  <1>5. CASE StartStep
    BY Zenon, <1>1, <1>5 DEF StartStep, Start, StageGenesis, CommitGenesis, Asleep, Started,
                      DeliveredSound
  <1>6. ASSUME NEW c \in Caller,
               \/ \E f \in Frame : InsertBegin(c, f)
               \/ InsertStep(c) \/ InsertAbort(c)
        PROVE  DeliveredSound'
    BY Zenon, <1>1, <1>6 DEF InsertBegin, InsertStep, InsertStage, InsertCheck, InsertSend,
                      InsertAbort, DeliveredSound, AlwaysSend
  <1>7. CASE DequeueMissing \/ Crash
    BY Zenon, <1>7 DEF DequeueMissing, Crash, Die, DeliveredSound
  <1>8. CASE DequeueNext \/ PendingAdvance
    <2>1. PICK f \in Frame : /\ FrameNumber[f] = FrameNumber[head] + 1
                             /\ head' = f
      <3>1. CASE DequeueNext
        BY Zenon, <1>1, <3>1, QueueFacts DEF DequeueNext, Dequeue, Taken, Advance, Entry
      <3>2. CASE PendingAdvance
        BY Zenon, <1>1, <3>2 DEF PendingAdvance, Candidate, Advance, TypeOK
      <3> QED BY Zenon, <1>8, <3>1, <3>2
    <2>2. /\ phase # "send" /\ phase' = "send" /\ Started
          /\ UNCHANGED <<delivered, stopping, receiver, setting>>
      BY Zenon, <1>8 DEF DequeueNext, Dequeue, PendingAdvance, Advance, Started
    <2>3. CASE delivered = NoFrame
      BY Zenon, <1>1, <2>2, <2>3 DEF DeliveredSound
    <2>4. CASE delivered # NoFrame
      <3>1. FrameNumber[delivered] \in Nat /\ FrameNumber[head] \in Nat
        BY Zenon, <1>2, <1>3, <1>4, <2>4
      <3>2. FrameNumber[head'] = FrameNumber[head] + 1
        BY Zenon, <2>1
      <3> QED BY <1>1, <2>2, <2>4, <3>1, <3>2 DEF DeliveredSound, AlwaysSend
    <2> QED BY Zenon, <2>3, <2>4
  <1>9. CASE DequeueFailed \/ DequeueOther \/ DequeueLower
    BY Zenon, <1>1, <1>9 DEF DequeueFailed, DequeueOther, DequeueLower, Dequeue, DeliveredSound,
                      AlwaysSend
  <1>10. CASE PendingDone \/ RunLoopReturns
    BY Zenon, <1>1, <1>10 DEF PendingDone, RunLoopReturns, DeliveredSound, AlwaysSend
  <1>11. CASE SendDelivered
    <2>1. head \in Frame /\ FrameNumber[head] \in Nat
      BY Zenon, <1>2, <1>4, <1>11 DEF SendDelivered, Started
    <2> QED BY <1>1, <1>11, <2>1 DEF SendDelivered, DeliveredSound, AlwaysSend
  <1>12. CASE SendDropped \/ SendCancelled
    BY Zenon, <1>1, <1>12 DEF SendDropped, SendCancelled, DeliveredSound, AlwaysSend
  <1>13. CASE Receive \/ Prune \/ StopEngine \/ StopReel \/ UNCHANGED vars
    BY Zenon, <1>1, <1>13 DEF Receive, Prune, PruneBatch, StopEngine, StopReel, vars,
                       DeliveredSound, AlwaysSend
  <1> QED BY Zenon, <1>5, <1>6, <1>7, <1>8, <1>9, <1>10, <1>11, <1>12, <1>13
          DEF Next, RunLoopStep, DequeueStep

-----------------------------------------------------------------------------
(* The theorems.                                                           *)

\* The invariant holds at first.
LEMMA InitInv ==
    ASSUME Init
    PROVE  Inv
  <1> USE DEF Init
  <1>1. TypeOK
    <2>1. queue \in Seq(Entry)
      OBVIOUS
    <2> QED BY <2>1, MaxFrameAssumption DEF TypeOK, Phase
  <1>2. ~Started
    BY Zenon DEF Started
  <1>3. StoreSound /\ StoreCases /\ PrunedBelow
    BY <1>2 DEF StoreSound, StoreCases, PrunedBelow, EmptyStore
  <1>4. Asleep /\ FreshStore
    BY Zenon, <1>2 DEF Asleep, FreshStore
  <1>5. CallsSound /\ QueueSound
    BY DEF CallsSound, QueueSound, NoCall
  <1>6. FirstCarried /\ DeliveredSound
    BY Zenon DEF FirstCarried, DeliveredSound
  <1> QED BY Zenon, <1>1, <1>3, <1>4, <1>5, <1>6 DEF Inv

\* The invariant that the other theorems rest on.
THEOREM Invariance == Spec => []Inv
  <1>1. Inv /\ [Next]_vars => Inv'
    BY Zenon, TypeStep, StoreStep, AsleepStep, CallsStep, QueueStep, CarriedStep, DeliveredStep
       DEF Inv
  <1>2. Init => Inv
    BY Zenon, InitInv
  <1> QED BY <1>1, <1>2, PTL DEF Spec

\* Whenever the process may die, the store has the genesis frame and one gapless
\* run of frames, and the head in memory is what a restart reads.
THEOREM StoreSafety == Spec => []StoreSound
  <1>1. Inv => StoreSound
    BY Zenon DEF Inv
  <1> QED BY <1>1, Invariance, PTL

\* A queued frame leaves no gap above the head, and its staged copy is in the store
\* as long as pruning has not come to its number.
THEOREM QueueSafety == Spec => []QueueSound
  <1>1. Inv => QueueSound
    BY Zenon DEF Inv
  <1> QED BY <1>1, Invariance, PTL

\* No wake-up is lost between Insert, which takes no lock, and runLoop.
THEOREM NoLostWakeup == Spec => []NothingStranded
  <1>1. ASSUME Inv PROVE NothingStranded
    <2> SUFFICES ASSUME phase = "idle", stopping = "no", crashes = 0, Quiet, queue = <<>>,
                        NEW f \in Candidate, IsFirst(f), f \notin Invalid
                 PROVE  FALSE
      BY Zenon DEF NothingStranded
    <2>1. Carried(f)
      BY Zenon, <1>1 DEF Inv, FirstCarried
    <2> QED BY <2>1 DEF Carried, Quiet, At
  <1>2. Inv => NothingStranded
    BY Zenon, <1>1
  <1> QED BY <1>2, Invariance, PTL

\* The engine's loop receives heads in order and, with alwaysSend, misses none.
THEOREM DeliveryOrder == Spec => DeliveredInOrder
  <1> USE DEF durable, reel, engine, world
  <1> DEFINE A == (delivered # NoFrame /\ delivered' \notin {delivered, NoFrame}) =>
                     IF AlwaysSend
                     THEN FrameNumber[delivered'] = FrameNumber[delivered] + 1
                     ELSE FrameNumber[delivered'] > FrameNumber[delivered]
  <1>1. ASSUME Inv, [Next]_vars PROVE A
    <2> SUFFICES ASSUME delivered # NoFrame, delivered' \notin {delivered, NoFrame}
                 PROVE  IF AlwaysSend
                        THEN FrameNumber[delivered'] = FrameNumber[delivered] + 1
                        ELSE FrameNumber[delivered'] > FrameNumber[delivered]
      BY Zenon
    <2>1. SendDelivered
      BY Zenon, <1>1 DEF Next, StartStep, Start, StageGenesis, CommitGenesis, InsertBegin,
          InsertStep, InsertStage, InsertCheck, InsertSend, InsertAbort, RunLoopStep,
          DequeueStep, DequeueMissing, DequeueNext, DequeueFailed, DequeueOther,
          DequeueLower, PendingAdvance, PendingDone, SendDropped, SendCancelled,
          Receive, Prune, PruneBatch, StopEngine, StopReel, RunLoopReturns, Crash, Die,
          vars
    <2>2. delivered \in Frame /\ Started
      BY Zenon, <1>1 DEF Inv, TypeOK, Asleep
    <2>3. head \in Frame
      BY Zenon, <1>1, <2>2, HeadFacts DEF Inv
    <2>4. FrameNumber[delivered] \in Nat /\ FrameNumber[head] \in Nat
      BY <2>2, <2>3, NumberFacts
    <2>5. DeliveredSound /\ stopping # "reel"
      BY Zenon, <1>1, <2>1 DEF Inv, DeliveredSound, SendDelivered
    <2> QED BY Zenon, <2>1, <2>4, <2>5 DEF DeliveredSound, SendDelivered
  <1>2. Inv /\ [Next]_vars => [A]_vars
    BY Zenon, <1>1
  <1> QED BY <1>2, Invariance, PTL DEF Spec, DeliveredInOrder

-----------------------------------------------------------------------------
(* The data time reel implements PrunedChain.  By Inv the store is one     *)
(* gapless run behind the genesis frame, so what can be read is the row of *)
(* frames from where the run begins; a commit appends to the row, and      *)
(* pruning moves its beginning up, which takes frames away at its front.   *)

\* The lowest number in use, and the frames from k to l behind the genesis frame,
\* for any contents of the store.
OldestIn(c, l) ==
    CHOOSE n \in 1..(l + 1) : /\ n = l + 1 \/ c[n] # NoFrame
                              /\ \A m \in 1..(n - 1) : c[m] = NoFrame

Row(c, k, l) == [i \in 1..(l - k + 2) |-> IF i = 1 THEN c[0] ELSE c[k + i - 2]]

\* In a gapless run the lowest number is where the run begins.
LEMMA OldestOfRun ==
    ASSUME NEW c, NEW l \in Nat, NEW k \in 1..(l + 1),
           \A n \in 1..(k - 1) : c[n] = NoFrame,
           \A n \in k..l : c[n] # NoFrame
    PROVE  OldestIn(c, l) = k
  <1> DEFINE P(n) == /\ n = l + 1 \/ c[n] # NoFrame
                     /\ \A m \in 1..(n - 1) : c[m] = NoFrame
  <1>1. P(k)
    OBVIOUS
  <1>2. ASSUME NEW n \in 1..(l + 1), P(n) PROVE n = k
    <2>1. CASE n < k
      <3>1. n \in 1..(k - 1) /\ n # l + 1
        BY <2>1
      <3> QED BY Zenon, <1>2, <3>1
    <2>2. CASE n > k
      <3>1. k \in 1..(n - 1) /\ k \in k..l
        BY <2>2
      <3> QED BY Zenon, <1>2, <3>1
    <2> QED BY <2>1, <2>2
  <1> HIDE DEF P
  <1>3. (CHOOSE n \in 1..(l + 1) : P(n)) = k
    BY Zenon, <1>1, <1>2
  <1> QED BY Zenon, <1>3 DEF OldestIn, P

\* The numbers of a run, and below it.
LEMMA RunNumbers ==
    ASSUME NEW l \in Nat, l <= MaxFrame, NEW k \in 1..(l + 1)
    PROVE  /\ \A n \in 1..(k - 1) : n \in Number /\ n # 0 /\ n \notin k..l
           /\ \A n \in k..l : n \in Number
  BY MaxFrameAssumption DEF Number

\* The number of the latest frame.
LEMMA LatestFacts ==
    ASSUME TypeOK, latest # NoFrame
    PROVE  latest \in Nat /\ latest <= MaxFrame
  BY MaxFrameAssumption DEF TypeOK

\* What can be read of a run that begins at k.
LEMMA ServedRow ==
    ASSUME TypeOK, latest # NoFrame, NEW k \in 1..(latest + 1), RunFrom(k)
    PROVE  Served = Row(committed, k, latest)
  <1>1. latest \in Nat /\ latest <= MaxFrame
    BY Zenon, LatestFacts
  <1>2. /\ \A n \in 1..(k - 1) : n \in Number /\ n # 0 /\ n \notin k..latest
        /\ \A n \in k..latest : n \in Number
    BY Zenon, <1>1, RunNumbers
  <1>4. OldestIn(committed, latest) = k
    BY Zenon, <1>1, <1>2, OldestOfRun DEF RunFrom, Holds
  <1>5. Oldest = k
    BY Zenon, <1>4 DEF Oldest, OldestIn
  <1> QED BY Zenon, <1>5 DEF Served, Row

\* The same in the next state.
LEMMA ServedRowNext ==
    ASSUME TypeOK', latest' # NoFrame, NEW k, k \in 1..(latest' + 1), RunFrom(k)'
    PROVE  Served' = Row(committed', k, latest')
  <1>1. latest' \in Nat /\ latest' <= MaxFrame
    BY MaxFrameAssumption DEF TypeOK
  <1>2. /\ \A n \in 1..(k - 1) : n \in Number /\ n # 0 /\ n \notin k..latest'
        /\ \A n \in k..latest' : n \in Number
    BY Zenon, <1>1, RunNumbers
  <1>4. OldestIn(committed', latest') = k
    BY Zenon, <1>1, <1>2, OldestOfRun DEF RunFrom, Holds
  <1>5. Oldest' = k
    BY Zenon, <1>4 DEF Oldest, OldestIn
  <1> QED BY Zenon, <1>5 DEF Served, Row

-----------------------------------------------------------------------------
(* Rows of frames.                                                         *)

\* A row of elements of T.
RowOf(T, c, k, l) == c[0] \in T /\ \A n \in k..l : c[n] \in T

\* d has the elements of c at 0 and from k to l.
SameRow(c, d, k, l) == d[0] = c[0] /\ \A n \in k..l : d[n] = c[n]

\* r is the row of c from k to l.
IsRow(r, T, c, k, l) ==
    /\ r \in Seq(T)
    /\ Len(r) = l - k + 2
    /\ r[1] = c[0]
    /\ \A i \in 2..(l - k + 2) : r[i] = c[k + i - 2]

\* The elements of a row.
LEMMA RowElements ==
    ASSUME NEW T, NEW c, NEW l \in Nat, NEW k \in 1..(l + 1), RowOf(T, c, k, l)
    PROVE  IsRow(Row(c, k, l), T, c, k, l)
  <1>1. l - k + 2 \in Nat /\ l - k + 2 >= 1
    OBVIOUS
  <1>2. \A i \in 1..(l - k + 2) : i # 1 => k + i - 2 \in k..l
    OBVIOUS
  <1>3. Row(c, k, l) \in [1..(l - k + 2) -> T]
    BY Zenon, <1>2 DEF Row, RowOf
  <1>4. /\ Row(c, k, l)[1] = c[0]
        /\ \A i \in 2..(l - k + 2) : Row(c, k, l)[i] = c[k + i - 2]
    BY <1>1 DEF Row
  <1> DEFINE m == l - k + 2
  <1>5. m \in Nat /\ Row(c, k, l) \in [1..m -> T]
    BY Zenon, <1>1, <1>3
  <1> HIDE DEF m
  <1>6. Row(c, k, l) \in Seq(T) /\ Len(Row(c, k, l)) = m
    BY <1>5
  <1> QED BY Zenon, <1>4, <1>6 DEF m, IsRow

\* A row in which a frame more was written, and one whose beginning has moved up.
Longer(c, d, k, l) == Row(d, k, l + 1) = Append(Row(c, k, l), d[l + 1])

Shorter(c, d, k, j, l) ==
    Row(d, j, l) = <<c[0]>> \o SubSeq(Row(c, k, l), (j - k) + 2, l - k + 2)

Unmoved(c, d, k, l) == Row(d, k, l) = Row(c, k, l)

\* A row is made of its own elements only.
LEMMA RowSame ==
    ASSUME NEW c, NEW d, NEW l \in Nat, NEW k \in 1..(l + 1), SameRow(c, d, k, l)
    PROVE  Unmoved(c, d, k, l)
  <1>1. \A i \in 1..(l - k + 2) : i # 1 => k + i - 2 \in k..l
    OBVIOUS
  <1> QED BY Zenon, <1>1 DEF SameRow, Unmoved, Row

\* Writing the frame after the last makes the row longer by it.
LEMMA RowGrows ==
    ASSUME NEW T, NEW c, NEW d, NEW l \in Nat, NEW k \in 1..(l + 1),
           RowOf(T, c, k, l), SameRow(c, d, k, l), d[l + 1] \in T
    PROVE  Longer(c, d, k, l)
  <1>0. d[0] = c[0] /\ \A n \in k..l : d[n] = c[n]
    BY Zenon DEF SameRow
  <1> DEFINE f == d[l + 1]
             r == Row(c, k, l)
             s == Row(d, k, l + 1)
             m == l - k + 2
  <1>1. m \in Nat /\ m >= 1 /\ (l + 1) - k + 2 = m + 1
    OBVIOUS
  <1>2. /\ r \in Seq(T) /\ Len(r) = m /\ r[1] = c[0]
        /\ \A i \in 2..m : r[i] = c[k + i - 2]
    <2>1. IsRow(Row(c, k, l), T, c, k, l)
      BY Zenon, RowElements
    <2> QED BY Zenon, <2>1 DEF IsRow
  <1>3. k \in 1..((l + 1) + 1) /\ l + 1 \in Nat
    OBVIOUS
  <1>4. RowOf(T, d, k, l + 1)
    <2> SUFFICES ASSUME NEW n \in k..(l + 1) PROVE d[n] \in T
      BY Zenon, <1>0 DEF RowOf
    <2>1. n = l + 1 \/ n \in k..l
      OBVIOUS
    <2> QED BY Zenon, <1>0, <2>1 DEF RowOf
  <1>5. /\ s \in Seq(T) /\ Len(s) = m + 1 /\ s[1] = d[0]
        /\ \A i \in 2..(m + 1) : s[i] = d[k + i - 2]
    <2> HIDE DEF s, m
    <2>1. IsRow(Row(d, k, l + 1), T, d, k, l + 1)
      BY Zenon, <1>3, <1>4, RowElements
    <2> QED BY Zenon, <1>1, <2>1 DEF s, IsRow
  <1> HIDE DEF r, s
  <1>6. /\ Append(r, f) \in Seq(T) /\ Len(Append(r, f)) = m + 1
        /\ \A i \in 1..m : Append(r, f)[i] = r[i]
        /\ Append(r, f)[m + 1] = f
    BY <1>2, AppendProperties
  <1>7. ASSUME NEW i \in 1..(m + 1) PROVE s[i] = Append(r, f)[i]
    <2>1. CASE i = 1
      BY <1>0, <1>1, <1>2, <1>5, <1>6, <2>1
    <2>2. CASE i \in 2..m
      <3>1. k + i - 2 \in k..l /\ i \in 2..(m + 1) /\ i \in 1..m
        BY <2>2
      <3> QED BY Zenon, <1>0, <1>2, <1>5, <1>6, <2>2, <3>1
    <2>3. CASE i = m + 1
      <3>1. k + i - 2 = l + 1 /\ i \in 2..(m + 1)
        BY <1>1, <2>3
      <3> QED BY Zenon, <1>5, <1>6, <2>3, <3>1
    <2>4. i = 1 \/ i \in 2..m \/ i = m + 1
      BY <1>1
    <2> QED BY Zenon, <2>1, <2>2, <2>3, <2>4
  <1>8. s = Append(r, f)
    BY Zenon, <1>5, <1>6, <1>7, SeqEqual
  <1> QED BY Zenon, <1>8 DEF r, s, Longer

\* Taking away the first frames makes the row shorter by them.
LEMMA RowCut ==
    ASSUME NEW T, NEW c, NEW d, NEW l \in Nat, NEW k \in 1..(l + 1), NEW j \in k..(l + 1),
           RowOf(T, c, k, l), SameRow(c, d, j, l)
    PROVE  Shorter(c, d, k, j, l)
  <1>0. d[0] = c[0] /\ \A n \in j..l : d[n] = c[n]
    BY Zenon DEF SameRow
  <1> DEFINE r == Row(c, k, l)
             s == Row(d, j, l)
             a == (j - k) + 2
             m == l - k + 2
             q == SubSeq(r, a, m)
             t == <<c[0]>> \o q
  <1>1. m \in Nat /\ a \in Nat /\ a >= 2 /\ a <= m + 1 /\ l - j + 2 = (m - a) + 2
    OBVIOUS
  <1>2. /\ r \in Seq(T) /\ Len(r) = m
        /\ \A i \in 2..m : r[i] = c[k + i - 2]
    <2> HIDE DEF r, m
    <2>1. IsRow(Row(c, k, l), T, c, k, l)
      BY Zenon, RowElements
    <2> QED BY Zenon, <2>1 DEF r, m, IsRow
  <1>3. j \in 1..(l + 1) /\ \A n \in j..l : n \in k..l
    OBVIOUS
  <1>4. /\ s \in Seq(T) /\ Len(s) = (m - a) + 2 /\ s[1] = d[0]
        /\ \A i \in 2..((m - a) + 2) : s[i] = d[j + i - 2]
    <2> HIDE DEF s, m, a
    <2>1. IsRow(Row(d, j, l), T, d, j, l)
      <3>1. RowOf(T, d, j, l)
        BY Zenon, <1>0, <1>3 DEF RowOf
      <3> QED BY Zenon, <1>3, <3>1, RowElements
    <2> QED BY Zenon, <1>1, <2>1 DEF s, IsRow
  <1> HIDE DEF r, s
  <1>5. \A i \in a..m : r[i] \in T
    BY <1>1, <1>2
  <1>6. /\ q \in Seq(T) /\ Len(q) = (m - a) + 1
        /\ \A i \in 1..((m - a) + 1) : q[i] = r[a + i - 1]
    BY <1>1, <1>5, SubSeqProperties
  <1>7. <<c[0]>> \in Seq(T) /\ Len(<<c[0]>>) = 1 /\ <<c[0]>>[1] = c[0]
    BY DEF RowOf
  <1> HIDE DEF q
  <1>8. /\ t \in Seq(T) /\ Len(t) = (m - a) + 2
        /\ t[1] = c[0]
        /\ \A i \in 2..((m - a) + 2) : t[i] = q[i - 1]
    <2>1. /\ t \in Seq(T) /\ Len(t) = Len(<<c[0]>>) + Len(q)
          /\ \A i \in 1..(Len(<<c[0]>>) + Len(q)) :
                t[i] = IF i <= Len(<<c[0]>>) THEN <<c[0]>>[i] ELSE q[i - Len(<<c[0]>>)]
      BY Zenon, <1>6, <1>7, ConcatProperties
    <2> HIDE DEF t, m, a
    <2>2. /\ t \in Seq(T) /\ Len(t) = 1 + Len(q)
          /\ \A i \in 1..(1 + Len(q)) : t[i] = IF i <= 1 THEN c[0] ELSE q[i - 1]
      BY <1>7, <2>1
    <2> DEFINE z == (m - a) + 2
    <2>3. z \in Nat /\ 1 <= z /\ 1 + Len(q) = z
      BY <1>1, <1>6
    <2>4. Len(t) = z /\ \A i \in 1..z : t[i] = IF i <= 1 THEN c[0] ELSE q[i - 1]
      BY Zenon, <2>2, <2>3
    <2> HIDE DEF z
    <2>5. t[1] = c[0] /\ \A i \in 2..z : t[i] = q[i - 1]
      BY <2>3, <2>4
    <2> QED BY Zenon, <2>2, <2>4, <2>5 DEF z
  <1> HIDE DEF t
  <1>9. ASSUME NEW i \in 1..((m - a) + 2) PROVE s[i] = t[i]
    <2>1. CASE i = 1
      BY Zenon, <1>0, <1>4, <1>8, <2>1
    <2>2. CASE i # 1
      <3>1. /\ i \in 2..((m - a) + 2) /\ i - 1 \in 1..((m - a) + 1)
            /\ a + (i - 1) - 1 \in 2..m
            /\ k + (a + (i - 1) - 1) - 2 = j + i - 2 /\ j + i - 2 \in j..l
        BY <1>1, <2>2
      <3> QED BY Zenon, <1>0, <1>2, <1>4, <1>6, <1>8, <3>1
    <2> QED BY Zenon, <2>1, <2>2
  <1>10. s = t
    BY Zenon, <1>4, <1>8, <1>9, SeqEqual
  <1> QED BY Zenon, <1>10 DEF r, s, q, t, Shorter

-----------------------------------------------------------------------------
(* Every step of the reel is a step of the chain, or none.                 *)

\* What the invariant says of the row that can be read.
LEMMA RunFacts ==
    ASSUME TypeOK, StoreSound, latest # NoFrame
    PROVE  /\ latest \in Nat /\ committed[0] = Genesis
           /\ \E k \in 1..(latest + 1) : RunFrom(k) /\ RowOf(Frame, committed, k, latest)
  <1>1. latest \in Nat /\ latest <= MaxFrame
    BY Zenon, LatestFacts
  <1>2. committed[0] = Genesis
    BY Zenon DEF StoreSound
  <1>3. PICK k \in 1..(latest + 1) : RunFrom(k)
    BY Zenon DEF StoreSound, RunFrom, Holds
  <1>4. \A n \in k..latest : n \in Number
    BY Zenon, <1>1, RunNumbers
  <1>5. \A n \in k..latest : committed[n] \in Frame
    BY Zenon, <1>4, <1>3 DEF RunFrom, Holds, TypeOK
  <1> QED BY Zenon, <1>1, <1>2, <1>3, <1>5, GenesisAssumption DEF RowOf

\* The run ends with the latest frame, so it is empty behind the genesis frame only.
LEMMA RunEnds ==
    ASSUME TypeOK, StoreCases, latest # NoFrame, RunFrom(latest + 1)
    PROVE  latest = 0
  <1>1. latest \in Nat /\ latest \in Number /\ latest \notin (latest + 1)..latest
    BY MaxFrameAssumption DEF TypeOK, Number
  <1>2. committed[latest] # NoFrame
    BY Zenon DEF StoreCases
  <1> QED BY Zenon, <1>1, <1>2 DEF RunFrom

\* Making the genesis frame, or leaving the store alone, is not seen by readers.
LEMMA KeptServes ==
    ASSUME Inv, [Next]_vars, StoreKept \/ GenesisMade
    PROVE  Served' = Served
  <1>1. CASE StoreKept
    <2>1. committed' = committed /\ latest' = latest
      BY Zenon, <1>1 DEF StoreKept
    <2> QED BY <2>1 DEF Served, Oldest
  <1>2. CASE GenesisMade
    <2>1. TypeOK' /\ StoreSound'
      BY Zenon, TypeStep, StoreStep
    <2>2. latest' = 0 /\ latest' # NoFrame /\ latest = NoFrame /\ 1 \in 1..(latest' + 1)
      <3>1. latest' = 0 /\ latest = NoFrame
        BY Zenon, <1>2, GenesisAssumption DEF GenesisMade, CommitDataClockFrame
      <3> QED BY <3>1, FrameAssumption
    <2>3. RunFrom(1)'
      BY Zenon, <1>2, GenesisRun
    <2>4. Served' = Row(committed', 1, 0)
      BY Zenon, <2>1, <2>2, <2>3, ServedRowNext
    <2>5. committed'[0] = Genesis
      BY Zenon, <2>1, <2>2 DEF StoreSound
    <2>6. Row(committed', 1, 0) = <<Genesis>>
      BY <2>5 DEF Row
    <2> QED BY Zenon, <2>2, <2>4, <2>6 DEF Served
  <1> QED BY Zenon, <1>1, <1>2

\* Committing the next frame extends the chain.
LEMMA GrowsServes ==
    ASSUME Inv, [Next]_vars, NEW f \in Frame, Grows(f)
    PROVE  /\ Served[Len(Served)] = head
           /\ Served' = Append(Served, f)
  <1>1. TypeOK /\ StoreSound /\ StoreCases /\ TypeOK'
    BY Zenon, TypeStep DEF Inv
  <1>2. Started /\ latest # NoFrame
    BY Zenon, <1>1 DEF Grows, StoreSound
  <1>3. latest \in Nat
    BY Zenon, <1>1, <1>2, RunFacts
  <1>4. PICK k \in 1..(latest + 1) : RunFrom(k) /\ RowOf(Frame, committed, k, latest)
    BY Zenon, <1>1, <1>2, RunFacts
  <1>5. /\ latest' # NoFrame /\ latest' = latest + 1 /\ latest + 1 \in Number
        /\ latest \in 0..MaxFrame
        /\ \A n \in Number : committed'[n] = IF n = latest + 1 THEN f ELSE committed[n]
        /\ RunFrom(k)'
    BY Zenon, <1>4, GrowsRun
  <1>6. Served = Row(committed, k, latest)
    BY Zenon, <1>1, <1>2, <1>4, ServedRow
  <1>7. k \in 1..(latest' + 1)
    BY <1>3, <1>5
  <1>8. Served' = Row(committed', k, latest + 1)
    BY Zenon, <1>1, <1>5, <1>7, ServedRowNext
  <1>9. \A n \in k..latest : n \in Number /\ n # latest + 1
    <2>1. latest <= MaxFrame /\ \A n \in k..latest : n # latest + 1
      BY <1>3, <1>5, MaxFrameAssumption
    <2> QED BY Zenon, <1>3, <2>1, RunNumbers
  <1>10. committed'[latest + 1] = f /\ \A n \in k..latest : committed'[n] = committed[n]
    BY Zenon, <1>5, <1>9
  <1>11. committed'[0] = committed[0]
    <2>1. 0 \in Number /\ 0 # latest + 1
      BY <1>3, MaxFrameAssumption DEF Number
    <2> QED BY Zenon, <1>5, <2>1
  <1>12. Served' = Append(Served, f)
    <2>1. SameRow(committed, committed', k, latest)
      BY Zenon, <1>10, <1>11 DEF SameRow
    <2>2. Longer(committed, committed', k, latest)
      <3>1. committed'[latest + 1] \in Frame
        BY Zenon, <1>10
      <3> QED BY Zenon, <1>3, <1>4, <2>1, <3>1, RowGrows
    <2> QED BY Zenon, <1>6, <1>8, <1>10, <2>2 DEF Longer
  <1>13. Served[Len(Served)] = head
    <2>1. head = committed[latest]
      BY Zenon, <1>1, <1>2 DEF StoreSound
    <2>2. /\ Len(Served) = latest - k + 2 /\ Served[1] = committed[0]
          /\ \A i \in 2..(latest - k + 2) : Served[i] = committed[k + i - 2]
      <3>1. /\ Len(Row(committed, k, latest)) = latest - k + 2
            /\ Row(committed, k, latest)[1] = committed[0]
            /\ \A i \in 2..(latest - k + 2) :
                  Row(committed, k, latest)[i] = committed[k + i - 2]
        <4>1. IsRow(Row(committed, k, latest), Frame, committed, k, latest)
          BY Zenon, <1>3, <1>4, RowElements
        <4> QED BY Zenon, <4>1 DEF IsRow
      <3> QED BY Zenon, <1>6, <3>1
    <2>3. CASE k = latest + 1
      <3>1. latest = 0
        BY Zenon, <1>1, <1>2, <1>4, <2>3, RunEnds
      <3>2. Len(Served) = 1
        BY <2>2, <2>3, <3>1
      <3> QED BY Zenon, <2>1, <2>2, <3>1, <3>2
    <2>4. CASE k # latest + 1
      <3>1. latest - k + 2 \in 2..(latest - k + 2) /\ k + (latest - k + 2) - 2 = latest
        BY <1>3, <2>4
      <3> QED BY Zenon, <2>1, <2>2, <3>1
    <2> QED BY Zenon, <2>3, <2>4
  <1> QED BY Zenon, <1>12, <1>13

\* Where the row begins after pruning up to p, which stays m behind the head.
LEMMA HigherOf ==
    ASSUME NEW l \in Nat, NEW k \in 1..(l + 1), NEW m \in Nat \ {0}, NEW p \in Nat, p + m <= l
    PROVE  (IF p > k THEN p ELSE k) \in k..(l + 1)
  OBVIOUS

\* How many frames pruning takes away, and how many it leaves.
LEMMA LengthLeft ==
    ASSUME NEW l \in Nat, NEW k \in 1..(l + 1), NEW m \in Nat \ {0}, NEW p \in Nat, p + m <= l,
           k < p, NEW n, n = l - k + 2
    PROVE  p - k \in 1..n /\ n - (p - k) > m + 1
  OBVIOUS

\* Pruning takes frames away at the front of the chain, never the last MaxFrames
\* before its head; or it finds nothing to take.
LEMMA PruneServes ==
    ASSUME Inv, [Next]_vars, Prune
    PROVE  \/ Served' = Served
           \/ \E n \in 1..Len(Served) :
                 /\ Len(Served) - n > MaxFrames + 1
                 /\ Served' = <<Genesis>> \o SubSeq(Served, n + 2, Len(Served))
  <1>1. TypeOK /\ StoreSound /\ StoreCases /\ TypeOK'
    BY Zenon, TypeStep DEF Inv
  <1>2. Started /\ latest # NoFrame
    BY Zenon, <1>1 DEF Prune, StoreSound
  <1>3. latest \in Nat /\ committed[0] = Genesis
    BY Zenon, <1>1, <1>2, RunFacts
  <1>4. PICK k \in 1..(latest + 1) : RunFrom(k) /\ RowOf(Frame, committed, k, latest)
    BY Zenon, <1>1, <1>2, RunFacts
  <1>5. /\ pruned' \in Nat /\ pruned' + MaxFrames <= latest /\ latest' = latest
        /\ \A n \in Number : committed'[n] = IF pruned <= n /\ n < pruned'
                                             THEN NoFrame ELSE committed[n]
    BY Zenon, PruneFacts
  <1>6. MaxFrames \in Nat \ {0} /\ pruned \in Nat /\ pruned > 0
    BY <1>1, SettingFacts, MaxFrameAssumption DEF TypeOK
  <1>7. PICK j \in k..(latest + 1) : j = IF pruned' > k THEN pruned' ELSE k
    <2>1. pruned' \in Nat /\ pruned' + MaxFrames <= latest
      BY Zenon, <1>5
    <2>2. (IF pruned' > k THEN pruned' ELSE k) \in k..(latest + 1)
      BY Zenon, <1>3, <1>6, <2>1, HigherOf
    <2> QED BY Zenon, <2>2
  <1>8. j \in Nat /\ j \in 1..(latest + 1)
    BY <1>3
  <1>9. RunFrom(j)'
    BY Zenon, <1>4, <1>7, <1>8, PruneRun
  <1>10. Served = Row(committed, k, latest)
    BY Zenon, <1>1, <1>2, <1>4, ServedRow
  <1>11. Served' = Row(committed', j, latest)
    BY Zenon, <1>1, <1>2, <1>5, <1>8, <1>9, ServedRowNext
  <1>12. SameRow(committed, committed', j, latest)
    <2>1. \A n \in j..latest : n \in Number
      <3>1. latest <= MaxFrame
        BY Zenon, <1>1, <1>2, LatestFacts
      <3> QED BY Zenon, <1>3, <1>8, <3>1, RunNumbers
    <2>2. \A n \in j..latest : ~(n < pruned')
      BY <1>3, <1>5, <1>7, <1>8
    <2>3. 0 \in Number /\ ~(pruned <= 0)
      BY <1>6, MaxFrameAssumption DEF Number
    <2> QED BY Zenon, <1>5, <2>1, <2>2, <2>3 DEF SameRow
  <1>13. CASE j = k
    <2>1. RowOf(Frame, committed', k, latest)
      BY Zenon, <1>4, <1>12, <1>13 DEF RowOf, SameRow
    <2>2. Row(committed', k, latest) = Row(committed, k, latest)
      BY Zenon, <1>3, <1>4, <1>12, <1>13, RowSame DEF Unmoved
    <2> QED BY Zenon, <1>10, <1>11, <1>13, <2>2
  <1>14. CASE j # k
    <2>1. Shorter(committed, committed', k, j, latest)
      BY Zenon, <1>3, <1>4, <1>12, RowCut
    <2>2. Len(Served) = latest - k + 2
      <3>1. IsRow(Row(committed, k, latest), Frame, committed, k, latest)
        BY Zenon, <1>3, <1>4, RowElements
      <3> QED BY Zenon, <1>10, <3>1 DEF IsRow
    <2>3. Served' = <<Genesis>> \o SubSeq(Served, (j - k) + 2, Len(Served))
      BY Zenon, <1>3, <1>10, <1>11, <2>1, <2>2 DEF Shorter
    <2>4. j - k \in 1..Len(Served) /\ Len(Served) - (j - k) > MaxFrames + 1
      <3>1. pruned' \in Nat /\ pruned' + MaxFrames <= latest /\ j = pruned' /\ k < j
        BY <1>5, <1>7, <1>8, <1>14
      <3> QED BY Zenon, <1>3, <1>6, <2>2, <3>1, LengthLeft
    <2> QED BY Zenon, <2>3, <2>4
  <1> QED BY Zenon, <1>13, <1>14

\* No step changes the settings.
LEMMA SettingKept ==
    ASSUME [Next]_vars
    PROVE  setting' = setting
  <1> USE DEF durable, reel, engine, world
  <1>1. CASE StartStep \/ RunLoopReturns \/ Receive \/ Prune \/ StopEngine \/ StopReel
                \/ UNCHANGED vars
    BY Zenon, <1>1 DEF StartStep, Start, StageGenesis, CommitGenesis, RunLoopReturns,
                Receive, Prune, PruneBatch, StopEngine, StopReel, vars
  <1>2. ASSUME NEW c \in Caller,
               \/ \E f \in Frame : InsertBegin(c, f)
               \/ InsertStep(c) \/ InsertAbort(c)
        PROVE  setting' = setting
    BY Zenon, <1>2 DEF InsertBegin, InsertStep, InsertStage, InsertCheck, InsertSend,
                InsertAbort
  <1>3. CASE DequeueStep \/ Crash
    BY Zenon, <1>3 DEF DequeueStep, DequeueMissing, Crash, Die, DequeueNext, DequeueFailed,
                DequeueOther, DequeueLower
  <1>4. CASE PendingAdvance \/ PendingDone \/ SendDelivered \/ SendDropped
                \/ SendCancelled
    BY Zenon, <1>4 DEF PendingAdvance, PendingDone, SendDelivered, SendDropped, SendCancelled
  <1> QED BY Zenon, <1>1, <1>2, <1>3, <1>4 DEF Next, RunLoopStep

\* The reel, with its callers, its queue, crashes, restarts and pruning,
\* implements the chain its store promises to readers: it grows at its end by
\* frames that follow the last, and is cut at its front only.
THEOREM Refinement == Spec => ImplementsPrunedChain
  <1>1. Init => Chain!Init
    <2> SUFFICES ASSUME Init PROVE Served = <<Genesis>> /\ MaxFrames \in Nat
      BY Zenon DEF Chain!Init
    <2>1. TypeOK /\ latest = NoFrame
      BY Zenon, InitInv DEF Init, Inv
    <2> QED BY Zenon, <2>1, SettingFacts DEF Served
  <1>2. Inv /\ [Next]_vars => [Chain!Next]_(Chain!vars)
    <2> SUFFICES ASSUME Inv, [Next]_vars PROVE [Chain!Next]_(Chain!vars)
      BY Zenon
    <2>1. MaxFrames' = MaxFrames
      BY Zenon, SettingKept DEF MaxFrames
    <2>2. CASE StoreKept \/ GenesisMade
      BY Zenon, <2>1, <2>2, KeptServes DEF Chain!vars
    <2>3. ASSUME NEW f \in Frame, Grows(f) PROVE Chain!Next
      <3>1. Chain!Extend(f)
        BY Zenon, <2>3, GrowsServes DEF Chain!Extend, Grows, Follows
      <3> QED BY Zenon, <2>1, <3>1 DEF Chain!Next
    <2>4. CASE Prune
      BY Zenon, <2>1, <2>4, PruneServes DEF Chain!Next, Chain!Drop, Chain!vars
    <2> QED BY Zenon, <2>2, <2>3, <2>4, StoreSteps
  <1> QED BY <1>1, <1>2, Invariance, PTL DEF Spec, ImplementsPrunedChain, Chain!Spec
=============================================================================
