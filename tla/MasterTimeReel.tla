--------------------------- MODULE MasterTimeReel ---------------------------
(***************************************************************************)
(* The master time reel (consensus/time/master_time_reel.go) on the master *)
(* half of the clock store (store/clock.go).                               *)
(*                                                                         *)
(* Insert starts a goroutine that blocks on the unbuffered channel frames; *)
(* one runLoop goroutine takes frames from it, commits the ones that       *)
(* extend its head and buffers the ones that leave a gap.  The process may *)
(* die between any two durable writes, and Start recovers from the store.  *)
(***************************************************************************)
EXTENDS Frames, Sequences

CONSTANTS
    Difficulty,       \* ClockFrame.Difficulty
    FixedDifficulty,  \* the difficulty every genesis must have: 160000
    MaxCopies,        \* bound: goroutines that block with one frame
    MaxPending,       \* bound: no Insert once so many frames are buffered
    MaxCrashes        \* bound: how often the process dies

ASSUME DifficultyAssumption ==
    /\ Difficulty \in [Frame -> Nat]
    /\ FixedDifficulty \in Nat /\ Difficulty[Genesis] = FixedDifficulty

ASSUME BoundAssumption ==
    MaxCopies \in Nat /\ MaxPending \in Nat /\ MaxCrashes \in Nat

VARIABLES
    stored,     \* durable: frame number -> committed frame
    earliest,   \* durable: the earliest index, NoFrame when absent
    latest,     \* durable: the latest index, NoFrame when absent
    phase,      \* where Start and runLoop are
    head,       \* m.head
    pending,    \* m.pending: frame number -> frames waiting for a parent
    inflight,   \* Insert goroutines blocked on m.frames, per frame
    newFrames,  \* frames whose goroutine sends on newFrameCh
    badFrames,  \* frames whose goroutine sends on badFrameCh
    crashes     \* how often the process has died

durable == <<stored, earliest, latest>>
channels == <<inflight, newFrames, badFrames>>
vars == <<durable, phase, head, pending, channels, crashes>>

Phase == {"down", "reset", "resetEarliest", "resetLatest", "genesis",
          "idle", "pending", "stopped"}

\* Start has returned: a head is set and runLoop may run.
Started == phase \in {"idle", "pending", "stopped"}

TypeOK ==
    /\ stored \in [Number -> Frame \cup {NoFrame}]
    /\ earliest \in 0..MaxFrame \cup {NoFrame}
    /\ latest \in 0..MaxFrame \cup {NoFrame}
    /\ phase \in Phase
    /\ head \in Frame \cup {NoFrame}
    /\ pending \in [Number -> Seq(Frame)]
    /\ inflight \in [Frame -> 0..MaxCopies]
    /\ newFrames \subseteq Frame
    /\ badFrames \subseteq Frame
    /\ crashes \in 0..MaxCrashes

-----------------------------------------------------------------------------
(* The clock store.                                                        *)

EmptyStore == [n \in Number |-> NoFrame]

\* GetLatestMasterClockFrame: the index may point at a frame that is gone.
GetLatestMasterClockFrame ==
    IF latest = NoFrame THEN NoFrame ELSE stored[latest]

\* PutMasterClockFrame and the commit of its transaction.
PutMasterClockFrame(f) ==
    /\ stored' = [stored EXCEPT ![FrameNumber[f]] = f]
    /\ earliest' = IF earliest = NoFrame THEN FrameNumber[f] ELSE earliest
    /\ latest' = FrameNumber[f]

-----------------------------------------------------------------------------
(* Start.                                                                  *)

\* A key is present in m.pending when some frame is buffered under it.
NonEmpty(q) == q # <<>>

NoPending == [n \in Number |-> <<>>]
NoInflight == [f \in Frame |-> 0]

\* A store left behind by a node whose genesis had another difficulty.
OldStore ==
    /\ stored \in [Number -> Frame \cup {NoFrame}]
    /\ latest \in 0..MaxFrame
    /\ earliest = 0
    /\ stored[0] # NoFrame
    /\ Difficulty[stored[0]] # FixedDifficulty
    /\ \A n \in Number :
          IF n > latest THEN stored[n] = NoFrame
                        ELSE /\ stored[n] # NoFrame
                             /\ FrameNumber[stored[n]] = n
                             /\ n > 0 => IsChild(stored[n-1], stored[n])

NewStore == stored = EmptyStore /\ earliest = NoFrame /\ latest = NoFrame

Init ==
    /\ NewStore \/ OldStore
    /\ phase = "down"
    /\ head = NoFrame
    /\ pending = NoPending
    /\ inflight = NoInflight
    /\ newFrames = {}
    /\ badFrames = {}
    /\ crashes = 0

\* The reads of Start and the branch they take.
Start ==
    /\ phase = "down"
    /\ LET frame == GetLatestMasterClockFrame
           genesis == stored[0]
       IN \/ /\ genesis # NoFrame
             /\ Difficulty[genesis] # FixedDifficulty
             /\ phase' = "reset"
             /\ UNCHANGED head
          \/ /\ genesis # NoFrame => Difficulty[genesis] = FixedDifficulty
             /\ genesis = NoFrame \/ frame = NoFrame
             /\ phase' = "genesis"
             /\ UNCHANGED head
          \/ /\ genesis # NoFrame
             /\ Difficulty[genesis] = FixedDifficulty
             /\ frame # NoFrame
             /\ phase' = "idle"
             /\ head' = frame
    /\ UNCHANGED <<durable, pending, channels, crashes>>

\* ResetMasterClockFrames: three writes, each durable on its own.
ResetFrames ==
    /\ phase = "reset"
    /\ stored' = EmptyStore
    /\ phase' = "resetEarliest"
    /\ UNCHANGED <<earliest, latest, head, pending, channels, crashes>>

ResetEarliest ==
    /\ phase = "resetEarliest"
    /\ earliest' = NoFrame
    /\ phase' = "resetLatest"
    /\ UNCHANGED <<stored, latest, head, pending, channels, crashes>>

ResetLatest ==
    /\ phase = "resetLatest"
    /\ latest' = NoFrame
    /\ phase' = "genesis"
    /\ UNCHANGED <<stored, earliest, head, pending, channels, crashes>>

CreateGenesisFrame ==
    /\ phase = "genesis"
    /\ PutMasterClockFrame(Genesis)
    /\ head' = Genesis
    /\ phase' = "idle"
    /\ UNCHANGED <<pending, channels, crashes>>

-----------------------------------------------------------------------------
(* Insert and runLoop.                                                     *)

\* Insert: a new goroutine blocks on m.frames.
Insert(f) ==
    /\ Started
    /\ inflight[f] < MaxCopies
    /\ Len(pending[FrameNumber[f]]) < MaxPending
    /\ inflight' = [inflight EXCEPT ![f] = @ + 1]
    /\ UNCHANGED <<durable, phase, head, pending, newFrames, badFrames, crashes>>

\* runLoop receives f from one of the goroutines that offer it.
Receive(f) ==
    /\ phase = "idle"
    /\ inflight[f] > 0
    /\ inflight' = [inflight EXCEPT ![f] = @ - 1]

\* Fault: the transaction is never committed.
AdvanceUncommitted(f) ==
    /\ UNCHANGED durable
    /\ head' = f
    /\ newFrames' = newFrames \cup {f}

\* f is committed, becomes the head and is offered on newFrameCh.
Advance(f) ==
    /\ PutMasterClockFrame(f)
    /\ head' = f
    /\ newFrames' = newFrames \cup {f}

\* Fault: the parent selector is not compared.
ReceiveNextAnyParent(f) ==
    /\ Receive(f)
    /\ FrameNumber[f] = FrameNumber[head] + 1
    /\ Advance(f)
    /\ phase' = "pending"
    /\ UNCHANGED <<pending, badFrames, crashes>>

\* Fault: processPending is not called after the head has moved.
ReceiveNextAsleep(f) ==
    /\ Receive(f)
    /\ FrameNumber[f] = FrameNumber[head] + 1
    /\ IsChild(head, f)
    /\ Advance(f)
    /\ UNCHANGED <<phase, pending, badFrames, crashes>>

ReceiveNext(f) ==
    /\ Receive(f)
    /\ FrameNumber[f] = FrameNumber[head] + 1
    /\ IsChild(head, f)
    /\ Advance(f)
    /\ phase' = "pending"
    /\ UNCHANGED <<pending, badFrames, crashes>>

ReceiveBad(f) ==
    /\ Receive(f)
    /\ FrameNumber[f] = FrameNumber[head] + 1
    /\ ~IsChild(head, f)
    /\ badFrames' = badFrames \cup {f}
    /\ UNCHANGED <<durable, phase, head, pending, newFrames, crashes>>

ReceiveGap(f) ==
    /\ Receive(f)
    /\ FrameNumber[f] > FrameNumber[head] + 1
    /\ pending' = [pending EXCEPT ![FrameNumber[f]] = Append(@, f)]
    /\ phase' = "pending"
    /\ UNCHANGED <<durable, head, newFrames, badFrames, crashes>>

ReceiveOld(f) ==
    /\ Receive(f)
    /\ FrameNumber[f] <= FrameNumber[head]
    /\ UNCHANGED <<durable, phase, head, pending, newFrames, badFrames, crashes>>

-----------------------------------------------------------------------------
(* processPending: one step per iteration of its outer loop.               *)

\* The frames buffered for the number after the head.
Ready == pending[FrameNumber[head] + 1]

\* Fault: the first buffered frame is taken, whatever its parent.
FirstBuffered(i) == i \in DOMAIN Ready /\ i = 1

\* The i-th buffered frame is the first one whose parent is the head.
FirstChild(i) ==
    /\ i \in DOMAIN Ready
    /\ IsChild(head, Ready[i])
    /\ \A j \in 1..(i-1) : ~IsChild(head, Ready[j])

\* Fault: no break after a frame was taken, so later copies of it are
\* compared with the new head.
PendingAdvanceNoBreak ==
    /\ phase = "pending"
    /\ \E i \in DOMAIN Ready :
          /\ FirstChild(i)
          /\ Advance(Ready[i])
          /\ badFrames' = badFrames \cup {Ready[j] : j \in DOMAIN Ready \ {i}}
          /\ pending' = [pending EXCEPT ![FrameNumber[Ready[i]]] = <<>>]
    /\ UNCHANGED <<phase, inflight, crashes>>

PendingAdvance ==
    /\ phase = "pending"
    /\ \E i \in DOMAIN Ready :
          /\ FirstChild(i)
          /\ Advance(Ready[i])
          /\ badFrames' = badFrames \cup {Ready[j] : j \in 1..(i-1)}
          /\ pending' = [pending EXCEPT ![FrameNumber[Ready[i]]] = <<>>]
    /\ UNCHANGED <<phase, inflight, crashes>>

PendingDrop ==
    /\ phase = "pending"
    /\ NonEmpty(Ready)
    /\ \A i \in DOMAIN Ready : ~IsChild(head, Ready[i])
    /\ badFrames' = badFrames \cup {Ready[i] : i \in DOMAIN Ready}
    /\ pending' = [pending EXCEPT ![FrameNumber[head] + 1] = <<>>]
    /\ UNCHANGED <<durable, phase, head, inflight, newFrames, crashes>>

\* The loop ends, and the keys below the head are deleted.
PendingDone ==
    /\ phase = "pending"
    /\ ~NonEmpty(Ready)
    /\ pending' = [n \in Number |->
                      IF n < FrameNumber[head] THEN <<>> ELSE pending[n]]
    /\ phase' = "idle"
    /\ UNCHANGED <<durable, head, channels, crashes>>

-----------------------------------------------------------------------------
(* The end of the reel.                                                    *)

\* Stop: runLoop takes the message on done and returns.
Stop ==
    /\ phase = "idle"
    /\ phase' = "stopped"
    /\ UNCHANGED <<durable, head, pending, channels, crashes>>

\* The process dies, or exits; what is not in the store is lost.
Crash ==
    /\ phase # "down"
    /\ crashes < MaxCrashes
    /\ crashes' = crashes + 1
    /\ phase' = "down"
    /\ head' = NoFrame
    /\ pending' = NoPending
    /\ inflight' = NoInflight
    /\ newFrames' = {}
    /\ badFrames' = {}
    /\ UNCHANGED durable

StartStep ==
    Start \/ ResetFrames \/ ResetEarliest \/ ResetLatest \/ CreateGenesisFrame

ReceiveStep(f) ==
    ReceiveNext(f) \/ ReceiveBad(f) \/ ReceiveGap(f) \/ ReceiveOld(f)

PendingStep == PendingAdvance \/ PendingDrop \/ PendingDone

Next ==
    \/ StartStep
    \/ \E f \in Frame : Insert(f) \/ ReceiveStep(f)
    \/ PendingStep
    \/ Stop
    \/ Crash

Spec == Init /\ [][Next]_vars

(* The Go scheduler runs the Start and runLoop goroutines, and a select     *)
(* with a blocked sender takes it: nothing is assumed of Insert, whose      *)
(* caller is the network, nor of Stop and Crash.  Each blocked sender is    *)
(* served in the end, for a channel's waiting senders form a queue.         *)
Fairness ==
    /\ WF_vars(StartStep)
    /\ WF_vars(PendingStep)
    /\ \A f \in Frame : SF_vars(ReceiveStep(f))

FairSpec == Spec /\ Fairness

-----------------------------------------------------------------------------
(* Properties.                                                             *)

\* The store holds the chain of this network's genesis, not an older one.
Based == stored[0] = Genesis

\* The committed master frames form one chain from the genesis frame to the
\* latest index, without a hole and without a fork, at every instant at which
\* the process may die: "master frames cannot fork".
ChainIntegrity ==
    Based =>
        /\ latest # NoFrame
        /\ \A n \in Number : (stored[n] # NoFrame) <=> (n <= latest)
        /\ \A n \in 1..latest : /\ FrameNumber[stored[n]] = n
                               /\ IsChild(stored[n-1], stored[n])

\* While the reel runs, the head in memory is the frame the store would give
\* back after a restart, on the chain of the right genesis: in particular a
\* process that died in the middle of a reset comes back with a new genesis.
HeadIsLatest ==
    Started => /\ Based
               /\ head = stored[latest]
               /\ FrameNumber[head] = latest

\* No wake-up is lost: whenever runLoop waits for a frame, every buffered
\* frame still leaves a gap after the head.
NothingReady ==
    phase \in {"idle", "stopped"} =>
        \A n \in Number : NonEmpty(pending[n]) => n > FrameNumber[head] + 1

\* A frame reported on badFrameCh is never committed, before or after the
\* report, and so is never offered on newFrameCh either.
BadNeverCommitted ==
    \A f \in badFrames : f \notin newFrames /\ stored[FrameNumber[f]] # f

\* Once the store is based on the right genesis, no step replaces or removes
\* a committed frame and the latest index never goes back.
NeverRewritten ==
    [][Based => /\ \A n \in Number :
                      stored[n] # NoFrame => stored'[n] = stored[n]
                /\ latest' >= latest]_vars

\* The chain a reader of the store sees.  Until Start has made the genesis
\* frame, it is the one about to be made.
StoredChain ==
    IF Based THEN [i \in 1..(latest + 1) |-> stored[i-1]] ELSE <<Genesis>>

\* f may follow p on the master chain.
Follows(p, f) == FrameNumber[f] = FrameNumber[p] + 1 /\ IsChild(p, f)

Chain == INSTANCE FrameChain WITH chain <- StoredChain, Follows <- Follows

\* The reel, its buffer, crashes and restarts included, implements a chain
\* that only grows at its end.
ImplementsFrameChain == Chain!Spec

\* A child of the head is blocked on the frames channel or is buffered.
ChildOffered ==
    \E f \in Frame : /\ Follows(head, f)
                     /\ inflight[f] > 0 \/ \E i \in DOMAIN Ready : Ready[i] = f

\* A head whose child has been inserted is left behind, as long as the reel
\* is neither stopped nor killed, whatever else is inserted meanwhile.
HeadAdvances ==
    \A n \in 0..MaxFrame :
        (Started /\ FrameNumber[head] = n /\ ChildOffered)
            ~> (phase \in {"idle", "pending"} => FrameNumber[head] > n)
=============================================================================
