---------------------------- MODULE DataTimeReel ----------------------------
(***************************************************************************)
(* The data time reel (consensus/time/data_time_reel.go) on the data half  *)
(* of the clock store (store/clock.go), with the goroutines of the data    *)
(* consensus engine that use it: the callers of Insert, the loop that      *)
(* receives new heads, and the pruning of old frames.                      *)
(*                                                                         *)
(* Insert runs in its caller's goroutine: it stages the frame in the store *)
(* and queues it when it is the next one.  One runLoop goroutine takes     *)
(* queued frames, executes and commits them, and then looks for staged     *)
(* children of its new head.  The two share the head and the store without *)
(* a lock, so every read of the one and write of the other interleave.     *)
(***************************************************************************)
EXTENDS Frames, Sequences

CONSTANTS
    Caller,        \* goroutines that call Insert
    Waiter,        \* the callers that wait for the channel done (the sync)
    SelectorRank,  \* the order of selectors as keys of the store
    Settings,      \* how the node may be set up, see IsSetting
    RepairFrame,   \* application.PROOF_FRAME_SENIORITY_REPAIR
    BatchSize      \* frames deleted by one transaction of the pruning: 1000

ASSUME CallerAssumption == Waiter \subseteq Caller

ASSUME RankAssumption ==
    /\ SelectorRank \in [Frame -> Nat]
    /\ \A f, g \in Frame : SelectorRank[f] = SelectorRank[g] => f = g

\* d.alwaysSend: a new head waits for its receiver; the capacity of d.frames:
\* 65536; config.Engine.MaxFrames: how many frames pruning keeps; the frames whose
\* execution fails; and a bound, how often the process is killed.
IsSetting(s) ==
    /\ DOMAIN s = {"alwaysSend", "queueCap", "maxFrames", "invalid", "maxCrashes"}
    /\ s.alwaysSend \in BOOLEAN
    /\ s.queueCap \in Nat \ {0}
    /\ s.maxFrames \in Nat \ {0}
    /\ s.invalid \subseteq Frame \ {Genesis}
    /\ s.maxCrashes \in Nat

ASSUME SettingAssumption ==
    /\ \A s \in Settings : IsSetting(s)
    /\ RepairFrame \in Nat
    /\ BatchSize \in Nat \ {0}

VARIABLES
    staged,     \* durable: the staged frames
    committed,  \* durable: frame number -> committed frame
    latest,     \* durable: the latest index, NoFrame when absent
    phase,      \* where Start and runLoop are
    head,       \* d.head
    queue,      \* d.frames: the queued frames, each with its caller
    current,    \* the queued frame runLoop works on
    call,       \* the call of Insert each caller is in, and its frame
    receiver,   \* the engine's loop: it receives, or works on a frame
    delivered,  \* the last frame received from newFrameCh
    pruned,     \* the variable from of runFramePruning
    stopping,   \* how far the engine's Stop has come
    crashes,    \* how often the process has died
    setting     \* how the node is set up; never changes

durable == <<staged, committed, latest>>
reel == <<phase, head, queue, current>>
engine == <<receiver, delivered, pruned, stopping>>
world == <<crashes, setting>>
vars == <<durable, reel, call, engine, world>>

AlwaysSend == setting.alwaysSend
QueueCap == setting.queueCap
MaxFrames == setting.maxFrames
Invalid == setting.invalid

Phase == {"down", "genesis", "genesisStaged",
          "idle", "pending", "send", "stopped"}

\* Start has returned: a head is set and runLoop may run.
Started == phase \in {"idle", "pending", "send", "stopped"}

Entry == [frame : Frame, caller : Caller]

\* A caller outside Insert, and one that is at place p with frame f.
NoCall == [at |-> "outside", frame |-> NoFrame]
At(p, f) == [at |-> p, frame |-> f]
Place == {"staging", "checking", "sending", "waiting"}

TypeOK ==
    /\ staged \subseteq Frame
    /\ committed \in [Number -> Frame \cup {NoFrame}]
    /\ latest \in 0..MaxFrame \cup {NoFrame}
    /\ phase \in Phase
    /\ head \in Frame \cup {NoFrame}
    /\ queue \in Seq(Entry)
    /\ current \in Entry \cup {NoFrame}
    /\ call \in [Caller -> {NoCall} \cup [at : Place, frame : Frame]]
    /\ receiver \in {"busy", "ready"}
    /\ delivered \in Frame \cup {NoFrame}
    /\ pruned \in 1..(MaxFrame + 1)
    /\ stopping \in {"no", "engine", "reel"}
    /\ setting \in Settings
    /\ crashes \in Nat

Init ==
    /\ staged = {}
    /\ committed = [n \in Number |-> NoFrame]
    /\ latest = NoFrame
    /\ phase = "down"
    /\ head = NoFrame
    /\ queue = <<>>
    /\ current = NoFrame
    /\ call = [c \in Caller |-> NoCall]
    /\ receiver = "busy"
    /\ delivered = NoFrame
    /\ pruned = 1
    /\ stopping = "no"
    /\ crashes = 0
    /\ setting \in Settings

-----------------------------------------------------------------------------
(* The clock store.                                                        *)

\* GetLatestDataClockFrame: the committed frame under the latest index.
GetLatestDataClockFrame ==
    IF latest = NoFrame THEN NoFrame ELSE committed[latest]

\* StageDataClockFrame and the commit of its transaction.
StageDataClockFrame(f) == staged' = staged \cup {f}

\* CommitDataClockFrame and the commit of its transaction.
CommitDataClockFrame(f) ==
    /\ committed' = [committed EXCEPT ![FrameNumber[f]] = f]
    /\ latest' = FrameNumber[f]

\* GetDistance finds the committed frame before f.
HasDistance(f) ==
    FrameNumber[f] = 0 \/ committed[FrameNumber[f] - 1] # NoFrame

-----------------------------------------------------------------------------
(* Start.                                                                  *)

Start ==
    /\ phase = "down"
    /\ head' = GetLatestDataClockFrame
    /\ phase' = IF head' = NoFrame THEN "genesis" ELSE "idle"
    /\ UNCHANGED <<durable, queue, current, call, engine, world>>

\* createGenesisFrame stages and commits in two transactions.
StageGenesis ==
    /\ phase = "genesis"
    /\ StageDataClockFrame(Genesis)
    /\ phase' = "genesisStaged"
    /\ UNCHANGED <<committed, latest, head, queue, current, call, engine,
                   world>>

CommitGenesis ==
    /\ phase = "genesisStaged"
    /\ CommitDataClockFrame(Genesis)
    /\ head' = Genesis
    /\ phase' = "idle"
    /\ UNCHANGED <<staged, queue, current, call, engine, world>>

-----------------------------------------------------------------------------
(* Insert, in the goroutine of caller c.                                   *)

\* The head is read for the first time; a frame not above it is done.  A
\* call that begins while the engine stops is as good as one begun before.
InsertBegin(c, f) ==
    /\ Started
    /\ stopping = "no"
    /\ call[c] = NoCall
    /\ FrameNumber[head] < FrameNumber[f]
    /\ call' = [call EXCEPT ![c] = At("staging", f)]
    /\ UNCHANGED <<durable, reel, engine, world>>

\* Fault: the frame is queued without having been staged.
InsertStageSkipped(c) ==
    /\ call[c].at = "staging"
    /\ call' = [call EXCEPT ![c] = At("checking", @.frame)]
    /\ UNCHANGED <<durable, reel, engine, world>>

\* storePending
InsertStage(c) ==
    /\ call[c].at = "staging"
    /\ StageDataClockFrame(call[c].frame)
    /\ call' = [call EXCEPT ![c] = At("checking", @.frame)]
    /\ UNCHANGED <<committed, latest, reel, engine, world>>

\* Fault: every frame above the head is queued.
InsertCheckAbove(c) ==
    /\ call[c].at = "checking"
    /\ call' = [call EXCEPT ![c] =
                   IF FrameNumber[@.frame] > FrameNumber[head]
                   THEN At("sending", @.frame) ELSE NoCall]
    /\ UNCHANGED <<durable, reel, engine, world>>

\* The head is read again; only the next frame is queued.
InsertCheck(c) ==
    /\ call[c].at = "checking"
    /\ call' = [call EXCEPT ![c] =
                   IF FrameNumber[@.frame] = FrameNumber[head] + 1
                   THEN At("sending", @.frame) ELSE NoCall]
    /\ UNCHANGED <<durable, reel, engine, world>>

InsertSend(c) ==
    /\ call[c].at = "sending"
    /\ Len(queue) < QueueCap
    /\ queue' = Append(queue, [frame |-> call[c].frame, caller |-> c])
    /\ call' = [call EXCEPT ![c] = IF c \in Waiter THEN At("waiting", @.frame)
                                                   ELSE NoCall]
    /\ UNCHANGED <<durable, phase, head, current, engine, world>>

\* The engine's context ends: the caller leaves Insert, or its wait for done.
InsertAbort(c) ==
    /\ stopping # "no"
    /\ call[c].at \in {"sending", "waiting"}
    /\ call' = [call EXCEPT ![c] = NoCall]
    /\ UNCHANGED <<durable, reel, engine, world>>

-----------------------------------------------------------------------------
(* setHead.                                                                *)

\* close(done): the caller of e stops waiting.
Close(e) ==
    call' = [call EXCEPT ![e.caller] = IF @.at = "waiting" THEN NoCall ELSE @]

\* Fault: the transaction is never committed.
AdvanceUncommitted(f) ==
    /\ f \notin Invalid
    /\ head' = f
    /\ phase' = "send"
    /\ UNCHANGED <<committed, latest>>

\* The execution succeeds: f is committed and becomes the head.
Advance(f) ==
    /\ f \notin Invalid
    /\ CommitDataClockFrame(f)
    /\ head' = f
    /\ phase' = "send"

\* The new head is received by the engine's loop.
SendDelivered ==
    /\ phase = "send"
    /\ receiver = "ready"
    /\ delivered' = head
    /\ receiver' = "busy"
    /\ phase' = "pending"
    /\ UNCHANGED <<durable, head, queue, current, call, pruned, stopping,
                   world>>

\* Fault: processPending is not called after setHead.
SendDroppedAsleep ==
    /\ phase = "send"
    /\ ~AlwaysSend
    /\ receiver = "busy"
    /\ stopping # "reel"
    /\ Close(current)
    /\ phase' = "idle"
    /\ current' = NoFrame
    /\ UNCHANGED <<durable, head, queue, engine, world>>

\* Fault: the setting alwaysSend is ignored.
SendDroppedAlways ==
    /\ phase = "send"
    /\ receiver = "busy"
    /\ stopping # "reel"
    /\ phase' = "pending"
    /\ UNCHANGED <<durable, head, queue, current, call, engine, world>>

\* Nobody receives: without alwaysSend the new head is not reported.
SendDropped ==
    /\ phase = "send"
    /\ ~AlwaysSend
    /\ receiver = "busy"
    /\ stopping # "reel"
    /\ phase' = "pending"
    /\ UNCHANGED <<durable, head, queue, current, call, engine, world>>

\* Fault: a send with alwaysSend does not watch the reel's context.
SendCancelledUnlessAlways ==
    /\ phase = "send"
    /\ stopping = "reel"
    /\ ~AlwaysSend
    /\ Close(current)
    /\ phase' = "idle"
    /\ current' = NoFrame
    /\ UNCHANGED <<durable, head, queue, engine, world>>

\* The reel's context ends: setHead fails after its commit.
SendCancelled ==
    /\ phase = "send"
    /\ stopping = "reel"
    /\ Close(current)
    /\ phase' = "idle"
    /\ current' = NoFrame
    /\ UNCHANGED <<durable, head, queue, engine, world>>

-----------------------------------------------------------------------------
(* runLoop.                                                                *)

\* The process dies, or exits; another one comes up with what is in the store.
Die ==
    /\ phase' = "down"
    /\ head' = NoFrame
    /\ queue' = <<>>
    /\ current' = NoFrame
    /\ call' = [c \in Caller |-> NoCall]
    /\ receiver' = "busy"
    /\ delivered' = NoFrame
    /\ pruned' = 1
    /\ stopping' = "no"
    /\ crashes' = crashes + 1
    /\ UNCHANGED <<durable, setting>>

\* runLoop takes the first queued frame, whose staged copy is there.
Dequeue ==
    /\ phase = "idle"
    /\ queue # <<>>
    /\ Head(queue).frame \in staged
    /\ queue' = Tail(queue)

\* The frame that was just taken.
Taken == Head(queue).frame

\* The staged copy is gone: runLoop panics.
DequeueMissing ==
    /\ phase = "idle"
    /\ queue # <<>>
    /\ Taken \notin staged
    /\ Die

\* Fault: a frame that is not above the head replaces it.
DequeueNextOrLower ==
    /\ Dequeue
    /\ FrameNumber[Taken] <= FrameNumber[head] + 1
    /\ HasDistance(Taken)
    /\ Advance(Taken)
    /\ current' = Head(queue)
    /\ UNCHANGED <<staged, call, engine, world>>

\* The next frame by number becomes the head, whatever its parent.
DequeueNext ==
    /\ Dequeue
    /\ FrameNumber[Taken] = FrameNumber[head] + 1
    /\ HasDistance(Taken)
    /\ Advance(Taken)
    /\ current' = Head(queue)
    /\ UNCHANGED <<staged, call, engine, world>>

\* Its execution fails: done is closed and nothing else is tried.
DequeueFailed ==
    /\ Dequeue
    /\ FrameNumber[Taken] = FrameNumber[head] + 1
    /\ HasDistance(Taken)
    /\ Taken \in Invalid
    /\ Close(Head(queue))
    /\ UNCHANGED <<durable, phase, head, current, engine, world>>

\* A frame at the height of the head, or one that cannot follow it yet, only
\* leads to processPending.
DequeueOther ==
    /\ Dequeue
    /\ FrameNumber[Taken] >= FrameNumber[head]
    /\ FrameNumber[Taken] # FrameNumber[head] + 1 \/ ~HasDistance(Taken)
    /\ current' = Head(queue)
    /\ phase' = "pending"
    /\ UNCHANGED <<durable, head, call, engine, world>>

\* Fault: frames are dropped as lower two heights too early.
DequeueLowerOrNext ==
    /\ Dequeue
    /\ FrameNumber[Taken] <= FrameNumber[head] + 1
    /\ UNCHANGED <<durable, phase, head, current, call, engine, world>>

\* A lower frame is dropped: its channel done stays open.
DequeueLower ==
    /\ Dequeue
    /\ FrameNumber[Taken] < FrameNumber[head]
    /\ UNCHANGED <<durable, phase, head, current, call, engine, world>>

-----------------------------------------------------------------------------
(* processPending: one step per iteration of its loop.                     *)

\* The staged frames that can follow the head.
Candidate ==
    {f \in staged : /\ FrameNumber[f] = FrameNumber[head] + 1
                    /\ IsChild(head, f)
                    /\ HasDistance(f)}

\* The first of them in the order of the store's keys.
IsFirst(f) ==
    f \in Candidate /\ \A g \in Candidate : SelectorRank[f] <= SelectorRank[g]

PendingAdvance ==
    /\ phase = "pending"
    /\ stopping # "reel"
    /\ \E f \in Candidate : IsFirst(f) /\ Advance(f)
    /\ UNCHANGED <<staged, queue, current, call, engine, world>>

\* Fault: done is not closed when processPending returns.
PendingDoneOpen ==
    /\ phase = "pending"
    /\ \/ stopping = "reel"
       \/ \A f \in Candidate : IsFirst(f) => f \in Invalid
    /\ phase' = "idle"
    /\ current' = NoFrame
    /\ UNCHANGED <<durable, head, queue, call, engine, world>>

\* There is none, its execution fails, or the reel's context has ended.
PendingDone ==
    /\ phase = "pending"
    /\ \/ stopping = "reel"
       \/ \A f \in Candidate : IsFirst(f) => f \in Invalid
    /\ Close(current)
    /\ phase' = "idle"
    /\ current' = NoFrame
    /\ UNCHANGED <<durable, head, queue, engine, world>>

-----------------------------------------------------------------------------
(* The engine around the reel, and its end.                                *)

\* The engine's loop has enough peers and is done with its last frame.
Receive ==
    /\ Started
    /\ stopping # "reel"
    /\ receiver = "busy"
    /\ receiver' = "ready"
    /\ UNCHANGED <<durable, reel, call, delivered, pruned, stopping, world>>

\* One batch of runFramePruning deletes the frames lo, lo + 1, ... below a
\* bound computed from a head that was read at some earlier moment.
PruneBatch(lo, upTo) ==
    /\ stopping # "reel"
    /\ \E to \in (pruned + 1)..MaxFrame :
          /\ to + MaxFrames <= upTo
          /\ to + MaxFrames > RepairFrame + 1
          /\ pruned' = IF pruned + BatchSize < to THEN pruned + BatchSize
                                                  ELSE to
    /\ committed' = [n \in Number |-> IF n \in lo..(pruned' - 1)
                                      THEN NoFrame ELSE committed[n]]
    /\ staged' = {f \in staged : FrameNumber[f] \notin lo..(pruned' - 1)}
    /\ UNCHANGED <<latest, reel, call, receiver, delivered, stopping, world>>

\* Faults: the genesis frame is pruned as well; one frame too many is pruned.
PruneFromZero == Started /\ PruneBatch(0, FrameNumber[head])
PruneOneMore == Started /\ PruneBatch(pruned, FrameNumber[head] + 1)

Prune == Started /\ PruneBatch(pruned, FrameNumber[head])

\* Engine.Stop ends the engine's context ...
StopEngine ==
    /\ Started
    /\ stopping = "no"
    /\ stopping' = "engine"
    /\ UNCHANGED <<durable, reel, call, receiver, delivered, pruned, world>>

\* ... waits for the engine's goroutines, and only then stops the reel.
StopReel ==
    /\ stopping = "engine"
    /\ \A c \in Caller : call[c] = NoCall
    /\ stopping' = "reel"
    /\ receiver' = "busy"
    /\ UNCHANGED <<durable, reel, call, delivered, pruned, world>>

\* runLoop sees that its context has ended; it may take queued frames first.
RunLoopReturns ==
    /\ phase = "idle"
    /\ stopping = "reel"
    /\ phase' = "stopped"
    /\ UNCHANGED <<durable, head, queue, current, call, engine, world>>

Crash ==
    /\ phase # "down"
    /\ crashes < setting.maxCrashes
    /\ Die

StartStep == Start \/ StageGenesis \/ CommitGenesis

InsertStep(c) == InsertStage(c) \/ InsertCheck(c) \/ InsertSend(c)

DequeueStep ==
    DequeueMissing \/ DequeueNext \/ DequeueFailed \/ DequeueOther \/ DequeueLower

RunLoopStep ==
    \/ DequeueStep
    \/ PendingAdvance \/ PendingDone
    \/ SendDelivered \/ SendDropped \/ SendCancelled

Next ==
    \/ StartStep
    \/ \E c \in Caller : \/ \E f \in Frame : InsertBegin(c, f)
                         \/ InsertStep(c)
                         \/ InsertAbort(c)
    \/ RunLoopStep
    \/ Receive \/ Prune \/ StopEngine \/ StopReel \/ RunLoopReturns
    \/ Crash

Spec == Init /\ [][Next]_vars

(* Goroutines that can run do run.  Of the engine's loop it is assumed that *)
(* it comes back to its receive: the node has its minimum of peers and the  *)
(* work on a frame ends.  A caller whose context has ended returns.  When   *)
(* the context of the reel has ended, the select of runLoop picks that      *)
(* branch in the end.  Nothing is assumed of the arrival of frames, of      *)
(* pruning, of Stop and of crashes.                                         *)
Fairness ==
    /\ WF_vars(StartStep)
    /\ \A c \in Caller : WF_vars(InsertStep(c)) /\ WF_vars(InsertAbort(c))
    /\ WF_vars(RunLoopStep)
    /\ WF_vars(Receive)
    /\ WF_vars(StopReel)
    /\ SF_vars(RunLoopReturns)

FairSpec == Spec /\ Fairness

-----------------------------------------------------------------------------
(* Properties.                                                             *)

\* At every instant at which the process may die, the store has the genesis
\* frame and one gapless run of frames up to the latest index, each under its own
\* number; and while the reel runs, the head in memory is what a restart reads.
StoreSound ==
    /\ latest # NoFrame =>
           /\ committed[0] = Genesis
           /\ \E first \in 1..(latest + 1) : \A n \in Number :
                 IF n = 0 \/ n \in first..latest
                 THEN committed[n] # NoFrame /\ FrameNumber[committed[n]] = n
                 ELSE committed[n] = NoFrame
    /\ Started => /\ latest # NoFrame
                  /\ head = committed[latest]
                  /\ FrameNumber[head] = latest

\* A queued frame was the next one when its caller looked, so it never leaves
\* a gap: the branch of runLoop for a gap is never taken.  And as long as pruning
\* has not come to its number, its staged copy is in the store until runLoop takes
\* the frame: runLoop panics when it is not.
QueueSound ==
    \A i \in DOMAIN queue :
        /\ FrameNumber[queue[i].frame] <= FrameNumber[head] + 1
        /\ FrameNumber[queue[i].frame] >= pruned => queue[i].frame \in staged

\* No caller is on its way through Insert.
Quiet == \A c \in Caller : call[c].at \in {"outside", "waiting"}

\* No wake-up is lost between Insert and runLoop: when the reel waits, no
\* call is under way and nothing is queued, no staged frame follows the head,
\* unless its execution, or that of a sibling before it, fails.  A restart
\* forgets which staged frames it has not looked at.
NothingStranded ==
    (phase = "idle" /\ stopping = "no" /\ crashes = 0 /\ Quiet /\ queue = <<>>)
        => \A f \in Candidate : IsFirst(f) => f \in Invalid

\* The engine's loop receives heads in the order of their numbers, and with
\* alwaysSend it misses none.
DeliveredInOrder ==
    [][(delivered # NoFrame /\ delivered' \notin {delivered, NoFrame}) =>
          IF AlwaysSend
          THEN FrameNumber[delivered'] = FrameNumber[delivered] + 1
          ELSE FrameNumber[delivered'] > FrameNumber[delivered]]_vars

\* The lowest number above 0 under which a frame is committed, or else the one
\* after the latest.
Oldest ==
    CHOOSE n \in 1..(latest + 1) :
        /\ n = latest + 1 \/ committed[n] # NoFrame
        /\ \A m \in 1..(n - 1) : committed[m] = NoFrame

\* The frames a reader of the store can read, in the order of their numbers.
\* Until Start has made the genesis frame, it is the one about to be made.
Served ==
    IF latest = NoFrame THEN <<Genesis>>
    ELSE [i \in 1..(latest - Oldest + 2) |->
             IF i = 1 THEN committed[0] ELSE committed[Oldest + i - 2]]

\* f may follow p on the data chain: runLoop compares their numbers only.
Follows(p, f) == FrameNumber[f] = FrameNumber[p] + 1

Chain == INSTANCE PrunedChain
             WITH served <- Served, keep <- MaxFrames, Follows <- Follows

\* The reel with its callers, its queue, crashes, restarts and pruning, which
\* reads the head long before it deletes, implements a chain that grows at its
\* end and is cut at its front, never within MaxFrames of its head: no frame
\* that can be read is ever replaced.
ImplementsPrunedChain == Chain!Spec

\* "If the frame has a gap from the head or is not descendent, mark it as
\* pending": every new head is a child of the head before it.
HeadDescends ==
    [][(head # NoFrame /\ head' \notin {head, NoFrame}) => IsChild(head, head')]_vars

\* A caller that waits for done is released, unless the head has meanwhile
\* passed its frame: then runLoop drops the frame without closing done.
DoneClosed ==
    \A c \in Waiter :
        call[c].at = "waiting"
            ~> (call[c].at = "waiting" =>
                    FrameNumber[call[c].frame] < FrameNumber[head])

\* f is queued as the next frame, and its execution would succeed.
NextQueued(f) ==
    /\ Started
    /\ f \notin Invalid
    /\ FrameNumber[f] = FrameNumber[head] + 1
    /\ \E i \in DOMAIN queue : queue[i].frame = f

\* The head moves up to the number of a queued next frame, whatever else is
\* inserted meanwhile, unless the reel is stopped.
HeadAdvances ==
    \A f \in Frame :
        NextQueued(f) ~> \/ stopping = "reel"
                         \/ Started /\ FrameNumber[head] >= FrameNumber[f]

\* Stop returns: every caller leaves Insert, the reel's loop leaves its send
\* to an engine that no longer receives, and runLoop ends.
StopCompletes == stopping = "engine" ~> phase = "stopped"
=============================================================================
