# A TLA+ verification of the Quilibrium node

This directory specifies, model-checks and proves parts of the node in `src/node` and of
the database below it in `src/pebble`. Every definition is a translation of Go code;
`PROJECT.json` maps each one to its lines. Paths below are relative to `src/node` unless
they begin with `src/`.

## 1. The system

A node follows two chains of *clock frames*. A frame carries a number, a verifiable
delay proof (its output), the selector (a hash of the output) of its parent and, on
the data chain, the transactions it includes.

| Part | Code | Module |
|---|---|---|
| Master time reel | `consensus/time/master_time_reel.go` | `MasterTimeReel` |
| Data time reel | `consensus/time/data_time_reel.go` | `DataTimeReel` |
| Clock store | `store/clock.go` | `MasterTimeReel`, `DataTimeReel` |
| Data engine: main loop, pruning, Stop | `consensus/data/main_data_loop.go`, `data_clock_consensus_engine.go` | `DataTimeReel`, `DataSync` |
| Data engine: sync, peer maps, announcer | `consensus/data/consensus_frames.go`, `data_clock_consensus_engine.go`, `message_handler.go` | `DataSync` |
| Data engine: frames from other provers | `consensus/data/message_handler.go`, `broadcast_messaging.go` | `FrameMessages` |
| Frame fragmentation | `consensus/data/fragmentation/clock_frame.go` | `FrameMessages` |
| Data engine: staging and proving | `consensus/data/message_handler.go`, `consensus_frames.go` | `TokenExecution` |
| Token application | `execution/intrinsics/token/application/*.go` | `TokenApplication`, `MinHeap` |
| Token execution engine | `execution/intrinsics/token/token_execution_engine.go` | `TokenExecution` |
| Hypergraph and its store | `hypergraph/application/*.go`, `store/hypergraph.go` | `Hypergraph` |
| Pebble: commit path | `src/pebble/commit.go`, `src/pebble/record/log_writer.go` | `CommitPipeline` |

The parts meet as follows. Frames reach the data engine by gossip (`FrameMessages`) and by
its sync (`DataSync`); both insert them into the data time reel, which executes them with
the token engine, commits them to the clock store and hands each new head to the engine's
loop. The engine's prover applies staged requests to the state of the head and publishes the
next frame. The master reel does the same for the master chain, without execution. Coins are
also vertices of the hypergraph. Every write of every store is a batch that goes through
pebble's commit pipeline.

### What makes it hard

* **No lock between Insert and the reels.** `DataTimeReel.Insert` runs in the goroutine
  of a message handler, of the sync or of the prover; it reads the head, stages the
  frame, reads the head again and may queue the frame, while `runLoop` commits frames,
  moves the head and looks for staged children. A frame could fall between the two.
* **Order of arrival.** Each `MasterTimeReel.Insert` starts a goroutine that blocks on an
  unbuffered channel: frames reach `runLoop` in any order, twice, or with rivals.
* **Crashes between two durable writes.** `ResetMasterClockFrames` makes three, the
  genesis frame of the data chain two; the next Start must recover from each prefix.
* **A reel that waits for its engine.** With `alwaysSend` a new head blocks `runLoop`
  until the engine's loop receives, and the engine is being stopped or has no peers.
* **Pruning beside the reel.** A third goroutine deletes old frames, staged copies
  included, with a bound computed from a head it read earlier.
* **Three goroutines on the peer maps.** The handler of announcements, the sync and the
  announcer each lock the maps for single steps, so what one has read is stale when it is
  used. Peers answer late, wrongly or not at all.
* **Fragments of many frames.** They come in any order and more than once, for a ring of
  buffers that evicts the oldest; two handlers share the cache of processed frames.
* **Prover and verifier run one function in two ways.** `ApplyTransitions` skips failures
  and takes requests in heap order for the prover of a frame, and fails on the first error
  for a full prover. Requests of one frame conflict, share a lock map and share a reward.
* **Rings in one step.** Joins, leaves, evictions and promotions of a frame change the same
  rings, with seniorities partly from before and partly from after the frame.
* **Replicated sets with tombstones.** Operations on the hypergraph reach replicas in
  different orders, and removals may come before additions.
* **A lock-free queue.** Goroutines that commit dequeue each other's batches, with single
  loads, stores and swaps, while the mutex protects only enqueueing and numbering.

### What correct means

The store holds one chain (master) or one gapless run (data) at every instant at which
the process may die; a committed frame is never rewritten; the head in memory is what a
restart would read; no frame that could be committed is left behind while the reel
sleeps; frames reported as bad never enter the chain; heads reach the engine in order;
whoever waits is released; Stop returns. A node that is behind catches up, leaves no gap and
never asks itself. A frame is built from fragments as soon as they suffice and never from
fewer. Of the token engine: the frame that a prover makes verifies and executes; value is
neither lost nor created but by grants and rewards; a ring pays at most what it earns; no
work is rewarded twice; a prover is in one ring and leaves it only for a reason; announcing
keys creates no seniority. Of the hypergraph: no hyperedge loses what it connects, and equal
histories answer alike. Of the database: what can be read was applied, and a commit that
returned can be read and, if asked for, is on disk.

## 2. Modules

| Module | Contents |
|---|---|
| `Frames` | frames, their numbers and parent selectors, shared by both reels |
| `FrameChain` | the promise of the master reel: a sequence of frames that begins with the genesis frame and grows only at its end, by a frame that may follow the tip |
| `PrunedChain` | the promise of the data reel: such a sequence that is also cut at its front, but never near its end |
| `MasterTimeReel` | the master reel and the master half of the clock store |
| `DataTimeReel` | the data reel, the data half of the clock store, pruning, the engine's loop and Stop |
| `DataSync` | sync, announcements, the announcer, on an abstraction of the data reel |
| `FrameMessages` | the fragment buffers and the handlers of frames and fragments |
| `MinHeap` | the array of `tries/minheap.go` |
| `TokenApplication` | `ApplyTransitions` and the request handlers |
| `TokenExecution` | staging, proving and executing frames, rings, seniority, restart |
| `Hypergraph` | the sets of the hypergraph on several replicas, its lookups, its store |
| `CommitPipeline` | pebble's commit queue, sync queue and flush loop |
| `MC...` | the instances of these modules for TLC |
| `MasterTimeReelProofs`, `DataTimeReelProofs`, `DataSyncProofs`, `FrameMessagesProofs`, `TokenApplicationProofs`, `TokenExecutionProofs`, `HypergraphProofs`, `CommitPipelineProofs` | theorems, see section 4 |

Operators introduced with "Fault:" are not part of the specifications. Each is a mistake
one could make in the definition after it; with it, the property named in `PROJECT.json`
fails.

### Frames

A frame is an opaque value. Its selector is a hash of its output, so a frame stands for
its own selector and `ParentSelector[f]` is the parent. `IsChild(p, f)` is the comparison
of selectors in the code. Proof verification happens before Insert and is not modelled:
any frame of `Frame` may be inserted, in any order and number.

### MasterTimeReel

`stored`, `earliest` and `latest` are the pebble keys; they survive `Crash`. `head`,
`pending`, `inflight` (Insert goroutines blocked on `m.frames`, counted per frame) and
`phase` (where Start and runLoop are) do not. `newFrames` and `badFrames` collect the
frames whose goroutines send on the two output channels, which nobody in the node reads.

* `Start` and `ResetFrames`, `ResetEarliest`, `ResetLatest`, `CreateGenesisFrame`: Start
  reads the latest frame and frame 0. A frame 0 of another difficulty leads to
  `ResetMasterClockFrames`, whose three deletions are durable one by one.
* `Insert(f)` starts a goroutine. `ReceiveNext`, `ReceiveBad`, `ReceiveGap` and
  `ReceiveOld` are the branches of runLoop for the frame it receives.
* `PendingAdvance`, `PendingDrop` and `PendingDone` are iterations of processPending: the
  first buffered child of the head is committed and the buffer of that number removed;
  if none is a child all are reported as bad; the loop ends when the next number has no
  buffer.
* `Init` allows an empty store or one an older node with another genesis left behind.

### DataTimeReel

`staged`, `committed` and `latest` are durable. `queue` is the buffered channel `frames`
with, for each entry, the caller whose `done` channel it carries. `call[c]` is the place
in Insert at which the goroutine `c` is: `staging` (after its first read of the head),
`checking` (after storePending), `sending` (blocked on the channel), `waiting` (for done;
only the sync waits). `setting`, chosen once, says how the node is set up.

* `DequeueNext`, `DequeueFailed`, `DequeueOther`, `DequeueLower` and `DequeueMissing` are
  the branches of runLoop: the next frame by number is executed and committed; an
  execution error closes done and tries nothing else; a frame at the head's height leads
  to processPending; a lower one is dropped with its channel open; a frame whose staged
  copy is gone makes runLoop panic.
* `PendingAdvance`, `PendingDone` are iterations of processPending, in the order of the
  store's keys (`SelectorRank`).
* `SendDelivered`, `SendDropped`, `SendCancelled` are the two selects at the end of setHead.
* `Prune` is a batch of `runFramePruning`; `StopEngine` and `StopReel` are the steps of
  the engine's Stop, which ends the engine's context, waits for its goroutines and only
  then stops the reel.

Execution is abstracted to a set of frames whose execution fails. Prover tries,
total distances and the fork choice (which the code has disabled) are left out: they
decide nothing in the code that runs. The head is read and written without a lock; each
pair of accesses is separated by an operation of pebble, which takes locks, so the model
treats the accesses as sequentially consistent.

### DataSync

The reel of this module takes an Insert as one step, and a frame is its number and whether its
execution succeeds. `HandleBegin` and `HandleStore` are the two critical sections of
`handleDataPeerListAnnounce`; `Announce` is the announcer's round with its unsigned
comparison and the removal of old entries; `SyncBegin`, `SyncList`, `SyncCandidate`,
`Poll...` and `SyncEnd` are the steps of `runSync`, `syncWithMesh`, `GetAheadPeers` and
`syncWithPeer` between which the other goroutines run. The argument of `GetAheadPeers` is
evaluated before its lock, hence `sync.ahead`. Honest peers serve the chain when they can be
reached; unreliable ones answer anything. Time is the stamp of an announcement and, for the
announcer, which entries may have outlived their time.

### FrameMessages

`buffers`, `keys` and `builtKeys` are the circular buffer, `since` is a history of the shards
that came since a frame's buffer was made. `Accumulate` is the buffer of one frame, including
that it notes the shard of its first fragment only. `AssembleClockFrame` needs distinct
shards, at least `DataShards` of them and at least four, because each fragment supplies one of
four header fields. `Peek`, `Add` and `Verify` are the three parts of `handleClockFrame`, run by
two goroutines. The cache is keyed by the output of a frame (`Output`), which a frame that does
not verify may share with a valid one; `noted` is a history of the frame each output was last
noted for. The Reed-Solomon code is that any `DataShards` shards suffice.

### MinHeap, TokenApplication

The state that the handlers read is `coins`, `proofs` (the last proof of work of a prover),
`grants`, `rings` (`Tries[1:]`, each a map from prover to the frame of its last reward) and
`height`. `ApplyTransitions(requests, skipFailures)` is an operator and follows the passes of
the code: heap order (prover only), admission of mints (`Admit`, with `seen`), the handlers in
order with one lock map (`HandleAll`), `preProcessMint`, the parallelism that is rewarded
(`Working`), the mints, and the results in the order of the requests. The mints that the code
handles in parallel touch disjoint entries, so their order does not matter.

A request arrives validated. A key and the two addresses derived from it are one account. A
proof of work is what `preProcessMint` finds out about it: malformed, not in the tree
committed to before, in the tree with a leaf of a wrong size, with a wrong answer, or good.
The frame cutoffs are 0 as in the code, so branches for older frames are not modelled.
`PomwBasis` keeps the halving from ring to ring and not the floating-point generation factor.

### TokenExecution

`handleTokenRequest` stages requests whose identifiers are new; `prove` takes them, applies
them to the state of the head and makes a frame; `Execute` verifies it as a full prover does,
applies its outputs in order (`ApplyOutput`), lets `ProcessJoinsAndLeaves` change the rings and
commits all of it at once, as the code does in one transaction. `Restart` loses memory: the
staged requests, the frame in flight, and the retroactive tables unless the store has no
seniorities. A coin's address is the frame and position that the code hashes. The
comparison that evicts provers is unsigned, with `WordSize` for 2^64.

### Hypergraph

Four grow-only sets per replica, each the union of its shards, and the size that is kept by
adding and subtracting. An operation that returns an error changes nothing, so it is an action
that is not enabled. `Nested` is reachability through extrinsics, which `LookupHyperedge` and
its mutual recursion with `LookupAtomSet` go through; `NestedAssumption` says what it is. `Within` is the
recursive walk of the code. `done` is a history of the operations behind the current sets.
`SaveHypergraph` and `LoadHypergraph` are the store; the key range read for added
hyperedges also holds the removed vertices, which is modelled as it is. Each shard is also a
tree that sums up the sizes of its leaves. `Insert` makes a branch of two leaves without giving
it a size, and the next insertion does; `unsized` holds the shards whose tree of added vertices
is in that state, which the copy on disk preserves, and `GetSize` counts them as 0 when they are
read back. `pairSize` is a history: the size of what lay two to a shard in the copy that was
read. Hyperedges are never saved, so their trees need no such state.

### CommitPipeline

One goroutine per batch, with a program counter whose steps are the loads, stores and
compare-and-swaps of `commitQueue`, the semaphores, the mutex, the write to the log, the
application to the memtable, the publication of the visible sequence number and the two
waits. `GrabWaiters`, `GrabData`, `WriteAndSync`, `PopWaiter` and `ReleaseSync` are
`flushLoop`, whose Sync may fail. `ingest` is `AllocateSeqNum`, with its wait for older
batches before it applies. An error of a Commit ends the process (`fatal`), one that
`SyncWait` returns does not (`failed`). Indices do not wrap.

## 3. Runs

| Run | Shows | Bounds |
|---|---|---|
| `master_reel` | one chain, head = latest, no lost wake-up, bad frames stay out, refinement of `FrameChain`, and the head moves past every number for which a child was inserted | 7 frames up to number 3 with a fork of two branches and an older genesis; one goroutine per frame, at most 2 buffered frames before Insert is refused, one crash |
| `data_reel` | gapless run and head = latest at every crash point, no gap and no unstaged frame in the queue, no lost wake-up, refinement of `PrunedChain`, heads in order | chain of 3 and a sibling, 2 callers; either the sibling is invalid and nothing is pruned, or a queue of 1, pruning down to 1 frame, alwaysSend and one crash |
| `data_reel_liveness` | done is closed unless the frame was overtaken, the head reaches a queued frame, Stop returns | chain of 2 and a fork, alwaysSend |
| `data_reel_descendant` (violation) | a frame that is next by number becomes the head without descending from it | chain of 3 and a fork |
| `data_sync` | the node polls neither itself nor a peer it has set aside, leaves no gap, its reel does not stop short of what was fetched, its sync ends, and it catches up | an honest peer that announces twice and an unreliable one, 3 frames, one frame by gossip or that does not execute |
| `frame_messages` | a buffer gives its frame as soon as it can and never too early, ring and keys agree, a valid frame is lost to the cache only to one of the same output that does not verify | 3 frames published in three ways, two of them of one output, 2 buffers, 5 shards of which 4 suffice, one repetition, a cache of 1 |
| `fragment_duplicates` (violation) | enough different fragments arrived and the frame is not built | 1 frame, one repetition |
| `token_holdings` | conflicting transfers, splits, merges, announces, grants and joins: the frame verifies and executes, value is conserved, coins are spent once, no seniority is created | 2 or 3 accounts, 2 requests a frame, 2 frames, one restart |
| `token_provers` | a ring pays at most what it earns, one ring per prover and none overfull, no work accepted twice, nobody removed without a reason | 2 provers with five qualities of proof, 3 frames; 4 provers, rings of 2, eviction after 1 frame, 5 frames |
| `token_announce` (violation) | after a restart the first announce is taken for a repeated one | 1 request a frame, 2 frames, one restart |
| `hypergraph` | extrinsics stay, equal histories answer alike, the size covers what is present up to `pairSize`, Within finds all that is nested in a hyperedge that is present | 2 replicas, 2 vertices in one shard, 2 nested hyperedges, 4 operations on one replica and 3 on the other, one reload |
| `commit_pipeline` | visible is applied, the oldest applied batch has someone to dequeue it, the log is in order, a returned commit is visible and, with sync, on disk, neither queue is ever full; and no deadlock | 5 goroutines, queues of 4 slots, six mixes of operations, one failure of Sync; in the mix of five commits that do not wait for the sync, one Commit at a time beside the flush loop |

The reels distinguish frames only by number (below, at, next, beyond the head) and by
parent (the head or not). Three heights and a fork give every combination, with a frame
two ahead that waits for its parent and a rival at the height of the head. Two callers
are enough for a race between two Inserts and runLoop. The code keeps at least 1000
frames when it prunes and its queue holds 65536; the model scales both down, which
changes how long the schedules are and not which ones exist.

In the sync two peers are enough for one to be listed, moved and announced again while the
other is polled. Of the ring of buffers two places and three frames give every eviction.
Five goroutines on four slots use a slot again while an older goroutine still works on its
former content.

In the token runs two requests a frame give every pair of conflicts, in both orders, on top
of what earlier frames left behind; a conflict of three requests is one of two of them with
the same lock. A mint needs a join, a first proof and a second one to be rewarded, hence three
frames; a promotion needs a full ring and an eviction or a leave, hence five. Requests are
staged only while no frame is in flight: one that arrives later waits for the next frame,
as it would if it arrived after the execution. The code's rings hold 2048 provers and expire
after 100 frames.

Deadlock is checked for the commit pipeline, where everyone waits for everyone. It is not
checked elsewhere, because a stopped reel stays stopped, a handler without messages rests and
the token runs end at the height of their workload.

### Fairness

Goroutines that can run do run: Start, the steps of a caller inside Insert, the steps of
runLoop, of the sync and of the announcer. A goroutine blocked on a channel send is served in
the end, since the waiting senders of a Go channel form a queue (strong fairness on the receipt
of each frame by the master reel). Of the engine's loop it is assumed that it comes back to its
receive, that is, the node has its minimum of peers and the work on a frame ends. Once the
reel's context has ended, the select of runLoop takes that branch in the end (strong fairness).
Of an honest peer it is assumed that it announces again and again and that a poll repeated
forever succeeds once; every poll ends by its timeout. Nothing is assumed of the arrival of
frames, of unreliable peers, of pruning, Stop and crashes.

## 4. Proofs

The theorems hold for every value of the constants that satisfies the named assumptions, so
for any number of frames, requests, provers, goroutines, peers, shards, replicas, slots and
crashes. The
assumptions are types of constants and, where they say more, facts of the code: the genesis
frame has number 0 and the fixed difficulty; selectors are distinct keys; an atom of the
hypergraph has an address of 64 bytes, so there are finitely many, and none is inside
itself; the set of peers and that of shards are finite; the tries enumerate the addresses of
provers in one order, each once; the coins of genesis are those of frame 0; and the frame numbers
stay below the 2^64 at which they wrap. `OrderIndependence` assumes in addition
that there are at least four data shards, see section 5.

Each safety invariant is proved by an inductive invariant `Inv` with `Init => Inv`,
`Inv /\ [Next]_vars => Inv'` and `Inv => property`; there is one lemma or step per action and
one below it per conjunct that the action disturbs.

**MasterTimeReelProofs**: `TypeCorrect`, `ChainSafety`, `HeadSafety`, `NoLostWakeup`,
`BadFramesStayOut`, `CommittedForever`, `Refinement`. The invariant adds

* `StoreCases`: which prefixes of a reset the store can be in, phase by phase. Without it
  the chain could not be shown to be intact after a crash in the middle of a reset;
* `PendingNumbered`, `PendingAhead`: a buffered frame sits under its own number, above the
  head. They carry `NothingReady` through processPending;
* `Quiet`: until the reel has started nothing is buffered or reported;
* `ReportsInv`: a frame reported as bad is not a child of the frame committed below its
  number, which never changes; a frame reported as new is committed.

`Refinement` maps `Init` to `FrameChain!Init` and each step to `Extend` (the three commits) or
a stutter.

**DataTimeReelProofs**: `StoreSafety`, `QueueSafety`, `NoLostWakeup`, `DeliveryOrder`,
`Refinement`. The invariant adds

* `StoreCases`, `PrunedBelow`, `FreshStore`: what Start finds, and where pruning stands;
* `CallsSound`: what a caller of Insert has seen stays true until it sends: its frame is
  staged, or pruning has passed it, and its number is at most one above the head;
* `FirstCarried`: whenever the reel sleeps, the first candidate to follow the head is carried
  by a caller in Insert, by the queue, or is invalid. This is what a lost wake-up would break;
* `DeliveredSound`: what was delivered is at or below the head, and just below it while a new
  head waits for its receiver.

`Refinement` shows that what can be read of the store is a row of frames that a commit extends
by one, that pruning shortens at its front by as many as it deletes, and that everything else
leaves alone, a crash included.

**DataSyncProofs**: `TypeCorrect`, `PollSafety`, `NoGap`, `NoStop`. The invariant says what
a list of candidates still means when the maps have changed since: the own entry in it is
not above `latestFrameReceived` (`OwnEntry`, `Listed`), so the comparison repeated before each
poll leaves it out; no candidate is set aside, and each peer is listed once (`ListedOnce`), so
the one that is set aside after its poll is not still ahead in the list. `Polling` and `Holding`
bound what the sync takes as its latest frame. `NoStop` rests on `NoGap` and on `Reaching`: a
staged frame right above the head is in the reel's queue unless one with its number failed.

**FrameMessagesProofs**: `TypeCorrect`, `RingInOrder`, `NeverFromTooFew`, `NothingForgotten`,
`NothingForgottenOfDistinct`, `OrderIndependence`. `Lists` says that keys and buffers tell the same and no key comes twice;
`Contents` compares a buffer with the shards that came: it holds no others (`Sound`), and all
of them, each once and too few, as long as no fragment was repeated (`Exact`); `Handling` and
`Remembering` say what each handler does with the frame it noted.

**CommitPipelineProofs**: `VisibleAlwaysApplied`, `SomeoneAlwaysPublishes`, `LogAlwaysInOrder`,
`ReturnedIsKept`, `QueueNeverFull`.
The invariant ties the queue to the sequence numbers. Every index between tail and head has the
batch enqueued there in its slot (`Window`, `Advancing`, `Clearing`), also while slots are used
again; so a goroutine whose swap of the tail succeeds took the batch of that index, which it saw
applied (`Looking`, `Taking`, `TakenOnce`); the mutex makes the order of indices that of
sequence numbers (`Below`, `Ordered`); so everything below the visible number was dequeued
(`VisibleIsDequeued`), hence applied. That someone always publishes follows from what a
goroutine that found nothing to dequeue saw last.

For `ReturnedIsKept`, `Counting` says that the wait group of a batch is
one for a batch that is not yet published plus one for one that waits for the log. So a wait
that ends means that a goroutine took the batch from the queue and raised the visible number to
it (`Published`, `Rising`), and that flushLoop popped it from the sync queue, in front of which
only records that are on disk, or an error, can bring it (`SyncQueue`, `Flushing`,
`SyncedIsKept`).

For `QueueNeverFull`, each queue maps one to one into the holders of its
semaphore (`Reserved`, `SyncReserved`), which has a unit less than the queue has slots. A batch
keeps its unit of the sync semaphore until flushLoop has taken it out of the queue (`Releasing`).

**TokenApplicationProofs**, **TokenExecutionProofs**: `CoinsNeverChange`, `RingsAlwaysSound`,
`WorkAlwaysAdvances`, `MembersAlwaysStay`. A step of the model is the whole execution of a
frame, so each theorem is about nested loops over requests, outputs, joins and rings. The
first module is about one frame, from the requests to the state after its outputs; the second
about the rings, and about the steps of the engine.

* Induction. `Induction` and `InductionTo` state it for a set of numbers rather than a predicate,
  which the provers can use: the set is that of the positions up to which a loop keeps its
  invariant. A loop of the model is a recursive function; for each there is a lemma that a
  function satisfying its equation exists (`...Exists`), from which the value chosen is one.
* The heap. `AllPermutes`: the array of the heap is a permutation of what was pushed, so the
  requests of a frame are requests that were staged. More about the order is not needed.
* One frame. `Handled` says what one handler may put out and what it locks. `FlattenPlaces` says
  where the outputs of each request end up in the frame. Together they give
  `AppliedWellMade`: in the outputs of an execution a prover joins at most once and was in no
  ring before, because the lock map holds its key from then on; a deleted proof is followed by a
  proof of the same prover about a later frame, because `preProcessMint` refuses a late one.
* The outputs (`OutputEffect`, `OutputsApplied`). After each of them, coins other than the
  deleted are as they were and the new ones have addresses of this frame (`CoinsKept`); a
  prover's proof is the old one, a later one, or is still to be replaced (`ProofsKept`); the rings
  have their members (`RingsKept`); those who leave were asked to or punished (`Leaving`).
* The rings (`JoinAllGrows`, `LeaveAllLeft`, `EvictEvicts`, `PromoteAllPromotes`). Joins keep
  rings apart if no one who joins is a member or joins twice; a promotion moves at most as many
  as there is room for, and all of them come from the next ring but the empty address, which
  stands for the provers without an entry in the seniority map.
* `TokenInv`, the inductive invariant: the staged requests and those of a frame in flight are
  well-formed, a coin has an address of a frame up to the head, the proofs have frame numbers,
  no ring is overfull and no two have a prover in common. An execution happens only if applying
  the requests again gives the outputs of the frame, so what the outputs are like need not be
  part of the invariant.

**HypergraphProofs**: `ExtrinsicsAlwaysPresent`, `ReplicasConverge`, `SizeAlwaysCovers`,
`WithinAlwaysReaches`. Convergence compares two replicas and is not inductive; `SetsFromDone`
is, and says that each set is a function of the operations executed. For the size,
`UnsizedArePairs` says that only trees of two vertices have none, so that what a reload does
not count is within `pairSize`. The other properties are
about a fold and a recursive function. The provers cannot instantiate an induction scheme, but
they find the smallest counterexample of a well-founded relation (`LeastSubset`). With it,
`SizeIsWeight` shows that the fold over the sizes of atoms is the cardinality of a set with
`Size[a]` elements for each atom, whatever order the fold takes; and `WithinIsFound`, that the
recursive walk has one solution: from a hyperedge that is present it finds all that is
nested in it, since whatever is nested in it is then present too.

### Only model-checked

* Liveness (`HeadAdvances` of both reels, `DoneClosed`, `StopCompletes`, `SyncEnds`,
  `CatchesUp`): the prover does not reason about fairness and `ENABLED`.
* `ProvenIsExecuted`, `ValueConserved`, `RewardBounded` and `SeniorityNotCreated` of the token
  engine. The last three are about sums over maps and over the outputs of a frame. The order in
  which a fold takes its elements is that of a `CHOOSE`, so each change of a map would need the sums
  to be rearranged. The first runs the application of requests twice, on two sequences with
  two lock maps and two sets of admitted mints, which would have to be related position by
  position.

## 5. Findings

* `consensus/time/data_time_reel.go:397` says "If the frame has a gap from the head or is
  not descendent, mark it as pending", but line 399 tests the number only. The run
  `data_reel_descendant` shows a head whose successor is not its child.
* `execution/intrinsics/token/token_execution_engine.go:227`: the retroactive tables are
  loaded only when the genesis state was just created. After a restart with stored
  seniorities they are empty, `GetAggregatedSeniority` is 0, and every announce of a key with
  seniority is ignored with "peer announced but has already been announced" (line 919). Run
  `token_announce`.
* `consensus/data/fragmentation/clock_frame.go:362` notes the shard of the first fragment
  instead of the one it appends, so a repetition of any other fragment is counted, the frame
  cannot be assembled and all its fragments are thrown away. Line 220 says "If sufficient
  fragments are available, the ClockFrame is returned." Run `fragment_duplicates`.

Observed while modelling, without a run of its own:

* Pruning can delete the staged copy of a queued frame, on which `data_time_reel.go:366`
  panics. It takes two queued frames of one number and a run of staged successors longer than
  MaxFrames. `QueueSound` therefore speaks of the numbers that pruning has not reached.
* A frame dropped by runLoop because the head has passed it leaves its `done` channel open:
  when gossip and the sync both queue frame n while n+1 is staged, the sync waits forever.
  `DoneClosed`, `SyncEnds` and `CatchesUp` except this case.
* `token_execution_engine.go:1136` and `:1363` use the reversed array of a min heap as a
  descending order, where `token_execution_engine_test.go:43` says "Seniority works from
  highest to lowest".
* `AssembleClockFrame` needs four fragments at least, although any `dataShardCount` above 0 is
  accepted: hence the assumption of `OrderIndependence`.
* Two handlers may both find a frame absent from the cache and process it twice, which the
  reel tolerates.
* The announcer's `frame - 100` is unsigned: a node that starts below frame 100 does not
  announce until the process is restarted above it. `CatchesUp` assumes a start above.
* A peer whose frame fails verification is not set aside, so syncWithMesh may ask it again and
  again; `SyncEnds` excepts this.
* A frame that does not verify is remembered by its output like any other, so a valid frame with
  the same output that comes while the entry is in the cache is ignored
  (`message_handler.go:230`). `RememberedIsHandled` says that no valid frame is lost to the
  cache in any other way; sync may still fetch it.
* `peer_messaging.go:193` returns "busy" with `preMidnightMintMx` locked.
* In the hypergraph, replicas that receive operations in different orders may differ when one
  refuses what the other accepts; `Convergence` compares what was executed. A vertex that is
  added twice counts twice in the size. A shard whose second vertex was the last to be inserted
  is read back with size 0, and the size may then become negative; `SizeCovers` says how far it
  can be off. A hyperedge's encoding cannot be decoded, and the
  reconciled sets of a shard may be nil after a reload.
* An `ErrInvalidBatch` in pebble's prepare returns before the batch is enqueued and keeps its
  unit of the semaphore.

## 6. Not modelled

* Cryptography and proof systems (pure functions; a proof is valid or not), the vendored
  libraries other than pebble's commit path, RPC, console, configuration, p2p wrappers
  (delivery is modelled where it is used), the stores that only encode keys.
* Secure channels: no engine of the node uses them.
* The master engine's executors and message passing, rate limiting over wall-clock windows,
  requests of other peers that read the stores, the worker clients of proving.
* In the token engine: the copy of the coins in the hypergraph, the announces and mints a node
  sends for itself, the creation of the genesis state, store migrations, errors of the store in
  the middle of a frame, the `lastProven` guard.
* In the hypergraph: commitments of the sets, reconciled sets per shard, encodings.
* In pebble: rotation and closing of the log, the minimal sync interval, large batches, block
  boundaries, direct writes, indices beyond 2^32.
* Leaks without a correctness property of their own: the goroutine per new head of
  `master_time_reel.go:230` that nobody receives from, the unregistration of
  `execution_registration.go:66` on an unbuffered channel, seniorities replaced in memory before
  the commit (`token_execution_engine.go:1165`), requests taken by `prove` before steps that can
  fail (`consensus_frames.go:101`).
