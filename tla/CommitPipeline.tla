--------------------------- MODULE CommitPipeline ---------------------------
(***************************************************************************)
(* The commit path of the embedded database below every store of the node: *)
(* pebble/commit.go (commitQueue, commitPipeline) and the sync queue and   *)
(* flush loop of pebble/record/log_writer.go, with the callbacks of db.go  *)
(* and ingest.go.                                                          *)
(*                                                                         *)
(* One goroutine commits one batch and goes by the batch's name. The loads,*)
(* stores and compare-and-swaps of the lock-free queue are steps of their  *)
(* own; a spin loop is a step that waits for its condition. The indices    *)
(* head and tail do not wrap: 2^32 operations are out of a model's reach.  *)
(***************************************************************************)
EXTENDS Integers, Sequences, FiniteSets

CONSTANTS
    Batch,
    NoBatch,       \* nil
    Slots,         \* record.SyncConcurrency
    Workloads,     \* which kinds of operation the batches may be
    Count,         \* Count[k]: how many sequence numbers an operation takes
    FirstSeqNum,   \* logSeqNum when the database is opened
    MaxSyncErrors  \* bound: failures of the log file's Sync

\* A Commit of an empty batch (which returns at once), one without syncWAL, with
\* it, with noSyncWait, and an AllocateSeqNum.
Kind == {"empty", "noSync", "sync", "noSyncWait", "ingest"}

ASSUME PipelineAssumption ==
    /\ NoBatch \notin Batch
    /\ Slots \in Nat \ {0}
    /\ Workloads \subseteq [Batch -> Kind]
    /\ Count \in [Kind -> Nat \ {0}]
    /\ FirstSeqNum \in Nat

VARIABLES
    kind,            \* the operation each goroutine performs; never changes
    pc,              \* where each goroutine is
    ingestSem, commitQueueSem, logSyncQSem,   \* who holds a unit of each
    mu,              \* who holds commitPipeline.mu
    head, tail,      \* the two halves of commitQueue.headTail
    slots,           \* commitQueue.slots
    logSeqNum, visibleSeqNum,
    pos,             \* the queue index a batch was enqueued at
    seqNum, applied, commit, fsyncWait, commitErr,   \* fields of the batches
    ptrs, got, cur,  \* locals: headTail as loaded, dequeued batch, a number
    memtable,        \* the batches whose mutations were applied
    wal,             \* the records of the log, as written
    syncQ,           \* LogWriter.flusher.syncQ
    durable,         \* how many records of the log are on disk
    flusher          \* flushLoop: its place, waiters and data it grabbed, f.err

queueVars == <<head, tail, slots, pos>>
semVars == <<ingestSem, commitQueueSem, logSyncQSem>>
localVars == <<ptrs, got, cur>>
logVars == <<wal, syncQ, durable, flusher>>
batchVars == <<seqNum, applied, commit, fsyncWait, commitErr>>
vars == <<kind, pc, semVars, mu, queueVars, logSeqNum, visibleSeqNum, batchVars,
          localVars, memtable, logVars>>

Places == {"start", "reserve", "reserveSync", "lock", "enqueue", "advance",
           "setSeqNum", "write", "drain", "apply", "mark", "load", "slot",
           "check", "cas", "clear", "ratchet", "publish", "done", "wait",
           "returned", "synced", "failed", "fatal"}

TypeOK ==
    /\ kind \in [Batch -> Kind]
    /\ pc \in [Batch -> Places]
    /\ ingestSem \subseteq Batch /\ commitQueueSem \subseteq Batch
    /\ logSyncQSem \subseteq Batch
    /\ mu \in Batch \cup {NoBatch}
    /\ head \in Nat /\ tail \in Nat
    /\ slots \in [0..(Slots - 1) -> Batch \cup {NoBatch}]
    /\ logSeqNum \in Nat /\ visibleSeqNum \in Nat
    /\ pos \in [Batch -> Int] /\ seqNum \in [Batch -> Nat]
    /\ applied \in [Batch -> BOOLEAN]
    /\ commit \in [Batch -> Int] /\ fsyncWait \in [Batch -> Int]
    /\ commitErr \in [Batch -> BOOLEAN]
    /\ ptrs \in [Batch -> [head : Nat, tail : Nat]]
    /\ got \in [Batch -> Batch \cup {NoBatch}]
    /\ cur \in [Batch -> Nat]
    /\ memtable \subseteq Batch
    /\ wal \in Seq(Batch) /\ syncQ \in Seq(Batch)
    /\ durable \in Nat
    /\ flusher \in [at : {"idle", "grab", "sync", "pop", "release"},
                    waiters : Nat, written : Nat, err : BOOLEAN,
                    by : Batch \cup {NoBatch}, errors : Nat]

Goto(b, place) == pc' = [pc EXCEPT ![b] = place]

Syncs(b) == kind[b] \in {"sync", "noSyncWait"}

\* SeqNum() + Count(): the first sequence number after the batch.
EndOf(b) == seqNum[b] + Count[kind[b]]

SlotOf(i) == i % Slots

NoPtrs == [head |-> 0, tail |-> 0]

Fatal == \E b \in Batch : pc[b] = "fatal"

-----------------------------------------------------------------------------
(* Reserving room: the semaphores, and the mutex under which batches are   *)
(* enqueued, numbered and written.                                         *)

\* DB.ingest: one AllocateSeqNum at a time.
ReserveIngest(b) ==
    /\ pc[b] = "start" /\ kind[b] = "ingest"
    /\ ingestSem = {}
    /\ ingestSem' = {b}
    /\ Goto(b, "reserve")
    /\ UNCHANGED <<kind, commitQueueSem, logSyncQSem, mu, queueVars, logSeqNum,
                   visibleSeqNum, batchVars, localVars, memtable, logVars>>

\* Fault: the number of batches in the queue is not limited.
ReserveUnlimited(b) ==
    /\ \/ pc[b] = "start" /\ kind[b] # "ingest"
       \/ pc[b] = "reserve"
    /\ commitQueueSem' = commitQueueSem \cup {b}
    /\ Goto(b, IF Syncs(b) THEN "reserveSync" ELSE "lock")
    /\ UNCHANGED <<kind, ingestSem, logSyncQSem, mu, queueVars, logSeqNum,
                   visibleSeqNum, batchVars, localVars, memtable, logVars>>

Reserve(b) ==
    /\ \/ pc[b] = "start" /\ kind[b] # "ingest"
       \/ pc[b] = "reserve"
    /\ Cardinality(commitQueueSem) < Slots - 1
    /\ commitQueueSem' = commitQueueSem \cup {b}
    /\ Goto(b, IF Syncs(b) THEN "reserveSync" ELSE "lock")
    /\ UNCHANGED <<kind, ingestSem, logSyncQSem, mu, queueVars, logSeqNum,
                   visibleSeqNum, batchVars, localVars, memtable, logVars>>

ReserveSync(b) ==
    /\ pc[b] = "reserveSync"
    /\ Cardinality(logSyncQSem) < Slots - 1
    /\ logSyncQSem' = logSyncQSem \cup {b}
    /\ Goto(b, "lock")
    /\ UNCHANGED <<kind, ingestSem, commitQueueSem, mu, queueVars, logSeqNum,
                   visibleSeqNum, batchVars, localVars, memtable, logVars>>

\* The wait group counts the publication and, when the caller waits for it,
\* the sync.
Lock(b) ==
    /\ pc[b] = "lock" /\ mu = NoBatch
    /\ mu' = b
    /\ commit' = [commit EXCEPT ![b] = IF kind[b] = "sync" THEN 2 ELSE 1]
    /\ fsyncWait' = [fsyncWait EXCEPT ![b] = IF kind[b] = "noSyncWait" THEN 1 ELSE 0]
    /\ Goto(b, "enqueue")
    /\ UNCHANGED <<kind, semVars, queueVars, logSeqNum, visibleSeqNum, seqNum,
                   applied, commitErr, localVars, memtable, logVars>>

\* commitQueue.enqueue, past its check that the queue is not full.
Enqueue(b) ==
    /\ pc[b] = "enqueue"
    /\ slots[SlotOf(head)] = NoBatch
    /\ slots' = [slots EXCEPT ![SlotOf(head)] = b]
    /\ pos' = [pos EXCEPT ![b] = head]
    /\ Goto(b, "advance")
    /\ UNCHANGED <<kind, semVars, mu, head, tail, logSeqNum, visibleSeqNum,
                   batchVars, localVars, memtable, logVars>>

AdvanceHead(b) ==
    /\ pc[b] = "advance"
    /\ head' = head + 1
    /\ Goto(b, "setSeqNum")
    /\ UNCHANGED <<kind, semVars, mu, tail, slots, pos, logSeqNum, visibleSeqNum,
                   batchVars, localVars, memtable, logVars>>

\* Fault: mu is released before the record is written.
SetSeqNumUnlocking(b) ==
    /\ pc[b] = "setSeqNum"
    /\ seqNum' = [seqNum EXCEPT ![b] = logSeqNum]
    /\ logSeqNum' = logSeqNum + Count[kind[b]]
    /\ cur' = [cur EXCEPT ![b] = IF kind[b] = "ingest" THEN logSeqNum ELSE @]
    /\ mu' = IF kind[b] = "ingest" THEN mu ELSE NoBatch
    /\ Goto(b, IF kind[b] = "ingest" THEN "drain" ELSE "write")
    /\ UNCHANGED <<kind, semVars, queueVars, visibleSeqNum, applied, commit,
                   fsyncWait, commitErr, ptrs, got, memtable, logVars>>

\* AllocateSeqNum leaves out the number 0, and remembers what logSeqNum was.
SetSeqNum(b) ==
    LET ingest == kind[b] = "ingest"
        skip == IF ingest /\ logSeqNum = 0 THEN 1 ELSE 0
    IN  /\ pc[b] = "setSeqNum"
        /\ seqNum' = [seqNum EXCEPT ![b] = logSeqNum + skip]
        /\ logSeqNum' = logSeqNum + Count[kind[b]] + skip
        /\ cur' = [cur EXCEPT ![b] = IF ingest THEN logSeqNum ELSE @]
        /\ Goto(b, IF ingest THEN "drain" ELSE "write")
        /\ UNCHANGED <<kind, semVars, mu, queueVars, visibleSeqNum, applied, commit,
                       fsyncWait, commitErr, ptrs, got, memtable, logVars>>

\* AllocateSeqNum, with mu held: wait until everything earlier is visible, then
\* the prepare callback.
Drain(b) ==
    /\ pc[b] = "drain" /\ visibleSeqNum = cur[b]
    /\ mu' = NoBatch
    /\ cur' = [cur EXCEPT ![b] = 0]
    /\ Goto(b, "apply")
    /\ UNCHANGED <<kind, semVars, queueVars, logSeqNum, visibleSeqNum, batchVars,
                   ptrs, got, memtable, logVars>>

\* syncQueue.push, past its check that the queue is not full.
Push(b) == Append(syncQ, b)

\* commitWrite and SyncRecord: the record is in the log's buffer before the
\* batch asks to be synced. Then mu is released.
WriteRecord(b) ==
    /\ pc[b] = "write"
    /\ wal' = Append(wal, b)
    /\ syncQ' = IF Syncs(b) THEN Push(b) ELSE syncQ
    /\ mu' = NoBatch
    /\ Goto(b, "apply")
    /\ UNCHANGED <<kind, semVars, queueVars, logSeqNum, visibleSeqNum, batchVars,
                   localVars, memtable, durable, flusher>>

-----------------------------------------------------------------------------
(* Applying and publishing, concurrently.                                  *)

Apply(b) ==
    /\ pc[b] = "apply"
    /\ memtable' = memtable \cup {b}
    /\ Goto(b, "mark")
    /\ UNCHANGED <<kind, semVars, mu, queueVars, logSeqNum, visibleSeqNum,
                   batchVars, localVars, logVars>>

MarkApplied(b) ==
    /\ pc[b] = "mark"
    /\ applied' = [applied EXCEPT ![b] = TRUE]
    /\ Goto(b, "load")
    /\ UNCHANGED <<kind, semVars, mu, queueVars, logSeqNum, visibleSeqNum, seqNum,
                   commit, fsyncWait, commitErr, localVars, memtable, logVars>>

\* The locals of dequeueApplied are gone.
LeaveDequeue(b) ==
    /\ ptrs' = [ptrs EXCEPT ![b] = NoPtrs]
    /\ got' = [got EXCEPT ![b] = NoBatch]

\* dequeueApplied, its loads.
LoadHeadTail(b) ==
    /\ pc[b] = "load"
    /\ IF head = tail
       THEN Goto(b, "wait") /\ UNCHANGED ptrs
       ELSE Goto(b, "slot") /\ ptrs' = [ptrs EXCEPT ![b] = [head |-> head, tail |-> tail]]
    /\ UNCHANGED <<kind, semVars, mu, queueVars, logSeqNum, visibleSeqNum,
                   batchVars, got, cur, memtable, logVars>>

LoadSlot(b) ==
    LET x == slots[SlotOf(ptrs[b].tail)]
    IN  /\ pc[b] = "slot"
        /\ IF x = NoBatch
           THEN Goto(b, "wait") /\ LeaveDequeue(b)
           ELSE Goto(b, "check") /\ got' = [got EXCEPT ![b] = x] /\ UNCHANGED ptrs
        /\ UNCHANGED <<kind, semVars, mu, queueVars, logSeqNum, visibleSeqNum,
                       batchVars, cur, memtable, logVars>>

\* Fault: a batch is dequeued before it was applied.
CheckAppliedNever(b) ==
    /\ pc[b] = "check"
    /\ Goto(b, "cas")
    /\ UNCHANGED <<kind, semVars, mu, queueVars, logSeqNum, visibleSeqNum,
                   batchVars, localVars, memtable, logVars>>

CheckApplied(b) ==
    /\ pc[b] = "check"
    /\ IF applied[got[b]]
       THEN Goto(b, "cas") /\ UNCHANGED <<ptrs, got>>
       ELSE Goto(b, "wait") /\ LeaveDequeue(b)
    /\ UNCHANGED <<kind, semVars, mu, queueVars, logSeqNum, visibleSeqNum,
                   batchVars, cur, memtable, logVars>>

\* Fault: a swap that failed is not tried again.
CompareAndSwapTailOnce(b) ==
    /\ pc[b] = "cas"
    /\ IF ptrs[b] = [head |-> head, tail |-> tail]
       THEN tail' = tail + 1 /\ Goto(b, "clear") /\ UNCHANGED <<ptrs, got>>
       ELSE UNCHANGED tail /\ Goto(b, "wait") /\ LeaveDequeue(b)
    /\ UNCHANGED <<kind, semVars, mu, head, slots, pos, logSeqNum, visibleSeqNum,
                   batchVars, cur, memtable, logVars>>

\* The whole word headTail is compared: a head that moved is a failure too.
CompareAndSwapTail(b) ==
    /\ pc[b] = "cas"
    /\ IF ptrs[b] = [head |-> head, tail |-> tail]
       THEN tail' = tail + 1 /\ Goto(b, "clear") /\ UNCHANGED <<ptrs, got>>
       ELSE UNCHANGED tail /\ Goto(b, "load") /\ LeaveDequeue(b)
    /\ UNCHANGED <<kind, semVars, mu, head, slots, pos, logSeqNum, visibleSeqNum,
                   batchVars, cur, memtable, logVars>>

ClearSlot(b) ==
    /\ pc[b] = "clear"
    /\ slots' = [slots EXCEPT ![SlotOf(ptrs[b].tail)] = NoBatch]
    /\ ptrs' = [ptrs EXCEPT ![b] = NoPtrs]
    /\ Goto(b, "ratchet")
    /\ UNCHANGED <<kind, semVars, mu, head, tail, pos, logSeqNum, visibleSeqNum,
                   batchVars, got, cur, memtable, logVars>>

LoadVisible(b) ==
    /\ pc[b] = "ratchet"
    /\ cur' = [cur EXCEPT ![b] = visibleSeqNum]
    /\ Goto(b, IF EndOf(got[b]) <= visibleSeqNum THEN "done" ELSE "publish")
    /\ UNCHANGED <<kind, semVars, mu, queueVars, logSeqNum, visibleSeqNum,
                   batchVars, ptrs, got, memtable, logVars>>

\* Fault: a swap that failed is taken for one somebody else made.
CompareAndSwapVisibleOnce(b) ==
    /\ pc[b] = "publish"
    /\ visibleSeqNum' = IF visibleSeqNum = cur[b] THEN EndOf(got[b]) ELSE visibleSeqNum
    /\ Goto(b, "done")
    /\ UNCHANGED <<kind, semVars, mu, queueVars, logSeqNum, batchVars, localVars,
                   memtable, logVars>>

CompareAndSwapVisible(b) ==
    /\ pc[b] = "publish"
    /\ IF visibleSeqNum = cur[b]
       THEN visibleSeqNum' = EndOf(got[b]) /\ Goto(b, "done")
       ELSE UNCHANGED visibleSeqNum /\ Goto(b, "ratchet")
    /\ UNCHANGED <<kind, semVars, mu, queueVars, logSeqNum, batchVars, localVars,
                   memtable, logVars>>

DoneCommit(b) ==
    /\ pc[b] = "done"
    /\ commit' = [commit EXCEPT ![got[b]] = @ - 1]
    /\ got' = [got EXCEPT ![b] = NoBatch]
    /\ cur' = [cur EXCEPT ![b] = 0]
    /\ Goto(b, "load")
    /\ UNCHANGED <<kind, semVars, mu, queueVars, logSeqNum, visibleSeqNum, seqNum,
                   applied, fsyncWait, commitErr, ptrs, memtable, logVars>>

\* commit.Wait, and the end of Commit or AllocateSeqNum. An error is fatal to
\* the process (applyInternal).
Return(b) ==
    /\ pc[b] = "wait" /\ commit[b] = 0
    /\ commitQueueSem' = commitQueueSem \ {b}
    /\ ingestSem' = ingestSem \ {b}
    /\ Goto(b, IF kind[b] = "sync" /\ commitErr[b] THEN "fatal" ELSE "returned")
    /\ UNCHANGED <<kind, logSyncQSem, mu, queueVars, logSeqNum, visibleSeqNum,
                   batchVars, localVars, memtable, logVars>>

\* Fault: SyncWait does not look at the error that the flush loop left.
SyncWaitBlind(b) ==
    /\ pc[b] = "returned" /\ kind[b] = "noSyncWait" /\ fsyncWait[b] = 0
    /\ Goto(b, "synced")
    /\ UNCHANGED <<kind, semVars, mu, queueVars, logSeqNum, visibleSeqNum,
                   batchVars, localVars, memtable, logVars>>

\* Batch.SyncWait, which the caller of ApplyNoSyncWait calls later: an error is
\* returned, and the process goes on.
SyncWait(b) ==
    /\ pc[b] = "returned" /\ kind[b] = "noSyncWait" /\ fsyncWait[b] = 0
    /\ Goto(b, IF commitErr[b] THEN "failed" ELSE "synced")
    /\ UNCHANGED <<kind, semVars, mu, queueVars, logSeqNum, visibleSeqNum,
                   batchVars, localVars, memtable, logVars>>

-----------------------------------------------------------------------------
(* flushLoop: grab the waiters, then the data, write and sync, then tell   *)
(* the waiters. An error stays: later waiters are told without a sync.     *)

LogUnchanged ==
    UNCHANGED <<kind, pc, ingestSem, commitQueueSem, mu, queueVars, logSeqNum,
                visibleSeqNum, seqNum, applied, localVars, memtable, wal>>

GrabWaiters ==
    /\ flusher.at = "idle" /\ syncQ # <<>>
    /\ flusher' = [flusher EXCEPT !.at = "grab", !.waiters = Len(syncQ)]
    /\ LogUnchanged
    /\ UNCHANGED <<logSyncQSem, commit, fsyncWait, commitErr, syncQ, durable>>

GrabData ==
    /\ flusher.at = "grab"
    /\ flusher' = IF flusher.err
                  THEN [flusher EXCEPT !.at = "pop"]
                  ELSE [flusher EXCEPT !.at = "sync", !.written = Len(wal)]
    /\ LogUnchanged
    /\ UNCHANGED <<logSyncQSem, commit, fsyncWait, commitErr, syncQ, durable>>

\* Fault: the waiters are counted after the data was grabbed.
WriteAndSyncAll ==
    /\ flusher.at = "sync"
    /\ \/ /\ durable' = flusher.written
          /\ flusher' = [flusher EXCEPT !.at = "pop", !.written = 0,
                                        !.waiters = Len(syncQ)]
       \/ /\ flusher.errors < MaxSyncErrors
          /\ flusher' = [flusher EXCEPT !.at = "pop", !.written = 0,
                                        !.err = TRUE, !.errors = @ + 1]
          /\ UNCHANGED durable
    /\ LogUnchanged
    /\ UNCHANGED <<logSyncQSem, commit, fsyncWait, commitErr, syncQ>>

\* flushPending up to the pop: Write and Sync succeed, or one fails.
WriteAndSync ==
    /\ flusher.at = "sync"
    /\ \/ /\ durable' = flusher.written
          /\ flusher' = [flusher EXCEPT !.at = "pop", !.written = 0]
       \/ /\ flusher.errors < MaxSyncErrors
          /\ flusher' = [flusher EXCEPT !.at = "pop", !.written = 0,
                                        !.err = TRUE, !.errors = @ + 1]
          /\ UNCHANGED durable
    /\ LogUnchanged
    /\ UNCHANGED <<logSyncQSem, commit, fsyncWait, commitErr, syncQ>>

\* syncQueue.pop, one waiter: the slot is free before the waiter wakes up, and
\* its unit of logSyncQSem is given back after that.
PopWaiter ==
    LET b == Head(syncQ)
    IN  /\ flusher.at = "pop" /\ flusher.waiters > 0
        /\ commitErr' = [commitErr EXCEPT ![b] = flusher.err]
        /\ syncQ' = Tail(syncQ)
        /\ IF kind[b] = "sync"
           THEN commit' = [commit EXCEPT ![b] = @ - 1] /\ UNCHANGED fsyncWait
           ELSE fsyncWait' = [fsyncWait EXCEPT ![b] = @ - 1] /\ UNCHANGED commit
        /\ flusher' = [flusher EXCEPT !.at = "release", !.waiters = @ - 1, !.by = b]
        /\ LogUnchanged
        /\ UNCHANGED <<logSyncQSem, durable>>

ReleaseSync ==
    /\ flusher.at = "release"
    /\ logSyncQSem' = logSyncQSem \ {flusher.by}
    /\ flusher' = [flusher EXCEPT !.at = IF flusher.waiters > 0 THEN "pop" ELSE "idle",
                                  !.by = NoBatch]
    /\ LogUnchanged
    /\ UNCHANGED <<commit, fsyncWait, commitErr, syncQ, durable>>

FlushLoop == GrabWaiters \/ GrabData \/ WriteAndSync \/ PopWaiter \/ ReleaseSync

-----------------------------------------------------------------------------
Init ==
    /\ kind \in Workloads
    /\ pc = [b \in Batch |-> IF kind[b] = "empty" THEN "returned" ELSE "start"]
    /\ ingestSem = {} /\ commitQueueSem = {} /\ logSyncQSem = {}
    /\ mu = NoBatch
    /\ head = 0 /\ tail = 0
    /\ slots = [i \in 0..(Slots - 1) |-> NoBatch]
    /\ logSeqNum = FirstSeqNum /\ visibleSeqNum = FirstSeqNum
    /\ pos = [b \in Batch |-> -1]
    /\ seqNum = [b \in Batch |-> 0]
    /\ applied = [b \in Batch |-> FALSE]
    /\ commit = [b \in Batch |-> 0] /\ fsyncWait = [b \in Batch |-> 0]
    /\ commitErr = [b \in Batch |-> FALSE]
    /\ ptrs = [b \in Batch |-> NoPtrs]
    /\ got = [b \in Batch |-> NoBatch]
    /\ cur = [b \in Batch |-> 0]
    /\ memtable = {}
    /\ wal = <<>> /\ syncQ = <<>> /\ durable = 0
    /\ flusher = [at |-> "idle", waiters |-> 0, written |-> 0, err |-> FALSE,
                  by |-> NoBatch, errors |-> 0]

Step(b) ==
    \/ ReserveIngest(b) \/ Reserve(b) \/ ReserveSync(b) \/ Lock(b) \/ Enqueue(b)
    \/ AdvanceHead(b) \/ SetSeqNum(b) \/ Drain(b) \/ WriteRecord(b) \/ Apply(b)
    \/ MarkApplied(b) \/ LoadHeadTail(b) \/ LoadSlot(b) \/ CheckApplied(b)
    \/ CompareAndSwapTail(b) \/ ClearSlot(b) \/ LoadVisible(b)
    \/ CompareAndSwapVisible(b) \/ DoneCommit(b) \/ Return(b) \/ SyncWait(b)

\* Everything that was asked for is done, or the process has ended.
Finished ==
    /\ \/ Fatal
       \/ \A b \in Batch :
             pc[b] \in IF kind[b] = "noSyncWait" THEN {"synced", "failed"} ELSE {"returned"}
    /\ UNCHANGED vars

Next ==
    \/ ~Fatal /\ \E b \in Batch : Step(b)
    \/ ~Fatal /\ FlushLoop
    \/ Finished

Spec == Init /\ [][Next]_vars

-----------------------------------------------------------------------------
(* Properties.                                                             *)

Numbered(b) ==
    /\ kind[b] # "empty"
    /\ pc[b] \notin {"start", "reserve", "reserveSync", "lock", "enqueue",
                     "advance", "setSeqNum"}

Queued(b) == pos[b] \in tail..(head - 1)

\* The visible sequence number never passes a batch whose mutations are not in
\* the memtable, although batches are applied in any order and published by
\* one another's goroutines: a reader sees no gap.
VisibleIsApplied ==
    \A b \in Batch : Numbered(b) /\ seqNum[b] < visibleSeqNum => b \in memtable

\* In dequeueApplied and publish, and due to look at the present tail (a look
\* at an earlier tail ends in a failed swap or in a wait).
LooksAtTail(b) ==
    \/ pc[b] \in {"load", "clear", "ratchet", "publish", "done"}
    \/ pc[b] \in {"slot", "check", "cas"} /\ ptrs[b].tail = tail

\* A batch that is at the tail of the queue and applied is always about to be
\* published by somebody: a goroutine that goes to wait leaves it neither
\* behind nor to a goroutine that also waits.
SomeonePublishes ==
    \A b \in Batch :
        Queued(b) /\ pos[b] = tail /\ applied[b] => \E c \in Batch : LooksAtTail(c)

\* The log holds the batches in sequence number order, without overlap.
LogInOrder ==
    \A i, j \in 1..Len(wal) : i < j => EndOf(wal[i]) <= seqNum[wal[j]]

\* What the caller asked to be synced, it was told is.
SyncReturned(b) ==
    \/ kind[b] = "sync" /\ pc[b] = "returned"
    \/ kind[b] = "noSyncWait" /\ pc[b] = "synced"

\* A Commit that returned is visible to reads, even when another goroutine
\* dequeued the batch and published it; a batch committed with Sync is on disk
\* when Commit returns, and one committed with ApplyNoSyncWait when SyncWait does
\* without an error.
KeptOnReturn ==
    \A b \in Batch :
        /\ kind[b] # "empty" /\ pc[b] \in {"returned", "synced", "failed"}
               => EndOf(b) <= visibleSeqNum
        /\ SyncReturned(b) => \E i \in 1..durable : wal[i] = b

\* Neither queue is full when a batch is added to it (the panics of
\* commitQueue.enqueue and of syncQueue.push): not the queue of pending batches
\* while dequeued ones are still being published, and not the queue of waiters
\* while commits with ApplyNoSyncWait have returned and still stand in it.
NeverFull ==
    \A b \in Batch :
        /\ pc[b] = "enqueue" => head < tail + Slots
        /\ pc[b] = "write" /\ Syncs(b) => Len(syncQ) < Slots
=============================================================================
