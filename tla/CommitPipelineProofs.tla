------------------------ MODULE CommitPipelineProofs ------------------------
(***************************************************************************)
(* Proofs about CommitPipeline, for any number of goroutines, any mix of   *)
(* operations and any number of slots.                                     *)
(*                                                                         *)
(* The inductive invariant ties the lock-free queue to the sequence        *)
(* numbers. Every index between tail and head has the batch enqueued there *)
(* in its slot, so the goroutine whose swap of the tail succeeds took the  *)
(* batch of that index, and that batch is applied; the mutex makes the     *)
(* order of indices the order of sequence numbers; so every batch below    *)
(* the visible sequence number was dequeued, hence applied.                *)
(***************************************************************************)
EXTENDS CommitPipeline, TLAPS

Dequeuing == {"clear", "ratchet", "publish", "done"}

Enqueued(b) ==
    /\ kind[b] # "empty"
    /\ pc[b] \notin {"start", "reserve", "reserveSync", "lock", "enqueue"}

Types ==
    /\ kind \in [Batch -> Kind]
    /\ pc \in [Batch -> Places]
    /\ mu \in Batch \cup {NoBatch}
    /\ head \in Nat /\ tail \in Nat
    /\ slots \in [0..(Slots - 1) -> Batch \cup {NoBatch}]
    /\ logSeqNum \in Nat /\ visibleSeqNum \in Nat
    /\ pos \in [Batch -> Int] /\ seqNum \in [Batch -> Nat]
    /\ applied \in [Batch -> BOOLEAN]
    /\ ptrs \in [Batch -> [head : Nat, tail : Nat]]
    /\ got \in [Batch -> Batch \cup {NoBatch}]
    /\ cur \in [Batch -> Nat]
    /\ memtable \subseteq Batch

Mutex ==
    \A b \in Batch :
        mu = b <=> pc[b] \in {"enqueue", "advance", "setSeqNum", "write", "drain"}

\* Where a goroutine stands says whether its batch is applied.
Applied ==
    \A b \in Batch :
        /\ applied[b] <=> /\ kind[b] # "empty"
                          /\ pc[b] \in {"load", "slot", "check", "cas", "wait",
                                        "returned", "synced", "failed", "fatal"} \cup Dequeuing
        /\ applied[b] \/ pc[b] = "mark" => b \in memtable
        /\ kind[b] = "empty" => pc[b] = "returned"

\* Each batch has an index of its own, below head once head was advanced.
Indices ==
    /\ tail <= head
    /\ \A b \in Batch :
          /\ ~Enqueued(b) => pos[b] = -1
          /\ Enqueued(b) => pos[b] \in Nat
          /\ Enqueued(b) /\ pc[b] # "advance" => pos[b] < head
          /\ pc[b] = "advance" => pos[b] = head
          /\ pc[b] = "setSeqNum" => pos[b] = head - 1

OwnIndex == \A b, c \in Batch : b # c /\ pos[b] = pos[c] => pos[b] = -1

\* The slots hold the batches between tail and head, the one about to join
\* them, and those that are being cleared.
Window ==
    \A p \in tail..(head - 1) :
        slots[SlotOf(p)] \in Batch /\ pos[slots[SlotOf(p)]] = p

Advancing == \A b \in Batch : pc[b] = "advance" => slots[SlotOf(head)] = b

Clearing ==
    \A c \in Batch :
        pc[c] = "clear" => /\ slots[SlotOf(ptrs[c].tail)] = got[c]
                           /\ pos[got[c]] = ptrs[c].tail

\* A goroutine in dequeueApplied, with what it loaded.
Looks(c) ==
    /\ pc[c] \in {"slot", "check", "cas"} =>
          /\ ptrs[c].tail <= tail
          /\ ptrs[c].tail < ptrs[c].head
          /\ ptrs[c].head <= head
    /\ pc[c] \in {"check", "cas"} =>
          /\ got[c] \in Batch
          /\ ptrs[c].tail = tail => got[c] = slots[SlotOf(tail)]
    /\ pc[c] = "cas" => applied[got[c]]

Looking == \A c \in Batch : Looks(c)

\* Goroutines that took a batch from the queue.
Taking ==
    \A c \in Batch : pc[c] \in Dequeuing =>
        got[c] \in Batch /\ pos[got[c]] \in Nat /\ pos[got[c]] < tail

TakenOnce ==
    \A c, d \in Batch :
        c # d /\ pc[c] \in Dequeuing /\ pc[d] \in Dequeuing => got[c] # got[d]

DequeuedIsApplied ==
    \A b \in Batch : pos[b] \in Nat /\ pos[b] < tail => applied[b]

\* The order of indices is the order of sequence numbers.
Below == \A b \in Batch : Numbered(b) => EndOf(b) <= logSeqNum

Ordered ==
    \A b, c \in Batch :
        Numbered(b) /\ Numbered(c) /\ pos[b] < pos[c] => EndOf(b) <= seqNum[c]

VisibleIsDequeued ==
    /\ visibleSeqNum <= logSeqNum
    /\ \A b \in Batch : Numbered(b) /\ seqNum[b] < visibleSeqNum => pos[b] < tail

Inv ==
    /\ Types /\ Mutex /\ Applied /\ Indices /\ OwnIndex
    /\ Window /\ Advancing /\ Clearing
    /\ Looking /\ Taking /\ TakenOnce /\ DequeuedIsApplied
    /\ Below /\ Ordered /\ VisibleIsDequeued

\* What flushLoop leaves alone.
coreVars == <<kind, pc, mu, queueVars, logSeqNum, visibleSeqNum, seqNum, applied,
              localVars, memtable>>

-----------------------------------------------------------------------------
LEMMA InitInv == Init => Inv
  BY PipelineAssumption
  DEF Init, Inv, Types, Mutex, Applied, Indices, OwnIndex, Window, Advancing,
      Clearing, Looking, Looks, Taking, TakenOnce, DequeuedIsApplied, Below, Ordered,
      VisibleIsDequeued, Enqueued, Numbered, EndOf, Places, Kind, NoPtrs,
      Dequeuing

LEMMA Transitive ==
    \A x, y, z \in Nat : x <= y /\ y <= z => x <= z /\ ~(z < x)
  OBVIOUS

LEMMA Irreflexive == \A x \in Int : ~(x < x)
  OBVIOUS

LEMMA SlotType == \A i \in Nat : SlotOf(i) \in 0..(Slots - 1)
  BY PipelineAssumption DEF SlotOf

LEMMA EndType == ASSUME Types, NEW b \in Batch PROVE EndOf(b) \in Nat
  <1>1. seqNum[b] \in Nat /\ Count[kind[b]] \in Nat
    BY Zenon, PipelineAssumption DEF Types
  <1> QED
    BY <1>1 DEF EndOf

-----------------------------------------------------------------------------
(* Steps that move one goroutine and leave the queue and the numbers alone. *)

LEMMA Move ==
    ASSUME Inv, NEW b \in Batch, Types', Mutex', Applied',
           UNCHANGED <<kind, head, tail, slots, pos, logSeqNum, visibleSeqNum, seqNum>>,
           \A c \in Batch \ {b} : /\ pc'[c] = pc[c] /\ ptrs'[c] = ptrs[c]
                                  /\ got'[c] = got[c],
           \A c \in Batch : applied[c] => applied'[c],
           pc[b] # "advance", pc'[b] \notin {"advance", "setSeqNum", "clear"},
           pc'[b] \in Dequeuing => pc[b] \in Dequeuing /\ got'[b] = got[b],
           Enqueued(b)' <=> Enqueued(b),
           Numbered(b)' <=> Numbered(b),
           Looks(b)'
    PROVE  Inv'
  <1>1. Indices' /\ OwnIndex' /\ Window'
    <2>1. \A c \in Batch : Enqueued(c)' <=> Enqueued(c)
      BY Zenon DEF Enqueued
    <2>2. \A c \in Batch : /\ pc'[c] = "advance" <=> pc[c] = "advance"
                           /\ pc'[c] = "setSeqNum" => pc[c] = "setSeqNum"
      BY Zenon
    <2> QED
      BY Zenon, <2>1, <2>2 DEF Inv, Indices, OwnIndex, Window
  <1>2. Advancing'
    BY Zenon DEF Inv, Advancing
  <1>3. Clearing'
    BY Zenon DEF Inv, Clearing
  <1>4. Looking'
    <2> SUFFICES ASSUME NEW c \in Batch, c # b PROVE Looks(c)'
      BY Zenon DEF Looking
    <2>1. Looks(c)
      BY Zenon DEF Inv, Looking
    <2>2. pc[c] \in {"check", "cas"} => got[c] \in Batch
      BY Zenon, <2>1 DEF Looks
    <2> QED
      BY Zenon, <2>1, <2>2 DEF Looks
  <1>5. Taking' /\ TakenOnce'
    BY DEF Inv, Taking, TakenOnce
  <1>6. DequeuedIsApplied'
    BY Zenon DEF Inv, DequeuedIsApplied
  <1>7. Below' /\ Ordered' /\ VisibleIsDequeued'
    <2>1. \A c \in Batch : Numbered(c)' <=> Numbered(c)
      BY Zenon DEF Numbered
    <2> QED
      BY Zenon, <2>1 DEF Inv, Below, Ordered, VisibleIsDequeued, EndOf
  <1> QED
    BY Zenon, <1>1, <1>2, <1>3, <1>4, <1>5, <1>6, <1>7 DEF Inv

LEMMA ReserveIngestStep == ASSUME Inv, NEW b \in Batch, ReserveIngest(b) PROVE Inv'
  <1>1. Types
    BY Zenon DEF Inv
  <1>2. /\ pc[b] = "start" /\ pc'[b] = "reserve"
        /\ \A c \in Batch \ {b} : pc'[c] = pc[c] /\ ptrs'[c] = ptrs[c] /\ got'[c] = got[c]
    BY Zenon, <1>1 DEF Types, ReserveIngest, Goto, queueVars, batchVars, localVars
  <1>3. UNCHANGED <<kind, mu, head, tail, slots, pos, logSeqNum, visibleSeqNum, seqNum, applied, ptrs, got, cur, memtable>>
    BY Zenon DEF ReserveIngest, queueVars, batchVars, localVars
  <1>4. Types'
    BY Zenon, <1>1, <1>3 DEF Types, ReserveIngest, Goto, queueVars, batchVars, localVars, Places
  <1>5. Mutex'
    BY Zenon, <1>1, <1>2, <1>3 DEF Inv, Mutex
  <1>6. Applied' /\ \A c \in Batch : applied[c] => applied'[c]
    BY Zenon, <1>1, <1>2, <1>3 DEF Inv, Applied, Dequeuing
  <1>7. Looks(b)'
    BY Zenon, <1>2 DEF Looks
  <1> QED
    BY Zenon, <1>1, <1>2, <1>3, <1>4, <1>5, <1>6, <1>7, Move
    DEF Dequeuing, Enqueued, Numbered, Inv, Applied

LEMMA ReserveStep == ASSUME Inv, NEW b \in Batch, Reserve(b) PROVE Inv'
  <1>1. Types
    BY Zenon DEF Inv
  <1>2. /\ pc[b] \in {"start", "reserve"} /\ pc'[b] \in {"reserveSync", "lock"}
        /\ \A c \in Batch \ {b} : pc'[c] = pc[c] /\ ptrs'[c] = ptrs[c] /\ got'[c] = got[c]
    BY Zenon, <1>1 DEF Types, Reserve, Goto, queueVars, batchVars, localVars
  <1>3. UNCHANGED <<kind, mu, head, tail, slots, pos, logSeqNum, visibleSeqNum, seqNum, applied, ptrs, got, cur, memtable>>
    BY Zenon DEF Reserve, queueVars, batchVars, localVars
  <1>4. Types'
    BY Zenon, <1>1, <1>3 DEF Types, Reserve, Goto, queueVars, batchVars, localVars, Places
  <1>5. Mutex'
    BY Zenon, <1>1, <1>2, <1>3 DEF Inv, Mutex
  <1>6. Applied' /\ \A c \in Batch : applied[c] => applied'[c]
    BY Zenon, <1>1, <1>2, <1>3 DEF Inv, Applied, Dequeuing
  <1>7. Looks(b)'
    BY Zenon, <1>2 DEF Looks
  <1> QED
    BY Zenon, <1>1, <1>2, <1>3, <1>4, <1>5, <1>6, <1>7, Move
    DEF Dequeuing, Enqueued, Numbered, Inv, Applied

LEMMA ReserveSyncStep == ASSUME Inv, NEW b \in Batch, ReserveSync(b) PROVE Inv'
  <1>1. Types
    BY Zenon DEF Inv
  <1>2. /\ pc[b] = "reserveSync" /\ pc'[b] = "lock"
        /\ \A c \in Batch \ {b} : pc'[c] = pc[c] /\ ptrs'[c] = ptrs[c] /\ got'[c] = got[c]
    BY Zenon, <1>1 DEF Types, ReserveSync, Goto, queueVars, batchVars, localVars
  <1>3. UNCHANGED <<kind, mu, head, tail, slots, pos, logSeqNum, visibleSeqNum, seqNum, applied, ptrs, got, cur, memtable>>
    BY Zenon DEF ReserveSync, queueVars, batchVars, localVars
  <1>4. Types'
    BY Zenon, <1>1, <1>3 DEF Types, ReserveSync, Goto, queueVars, batchVars, localVars, Places
  <1>5. Mutex'
    BY Zenon, <1>1, <1>2, <1>3 DEF Inv, Mutex
  <1>6. Applied' /\ \A c \in Batch : applied[c] => applied'[c]
    BY Zenon, <1>1, <1>2, <1>3 DEF Inv, Applied, Dequeuing
  <1>7. Looks(b)'
    BY Zenon, <1>2 DEF Looks
  <1> QED
    BY Zenon, <1>1, <1>2, <1>3, <1>4, <1>5, <1>6, <1>7, Move
    DEF Dequeuing, Enqueued, Numbered, Inv, Applied

LEMMA LockStep == ASSUME Inv, NEW b \in Batch, Lock(b) PROVE Inv'
  <1>1. Types
    BY Zenon DEF Inv
  <1>2. /\ pc[b] = "lock" /\ pc'[b] = "enqueue"
        /\ \A c \in Batch \ {b} : pc'[c] = pc[c] /\ ptrs'[c] = ptrs[c] /\ got'[c] = got[c]
    BY Zenon, <1>1 DEF Types, Lock, Goto, queueVars, batchVars, localVars
  <1>3. UNCHANGED <<kind, head, tail, slots, pos, logSeqNum, visibleSeqNum, seqNum, applied, ptrs, got, cur, memtable>>
    BY Zenon DEF Lock, queueVars, batchVars, localVars
  <1>4. Types'
    BY Zenon, <1>1, <1>3 DEF Types, Lock, Goto, queueVars, batchVars, localVars, Places
  <1>5. Mutex'
    BY Zenon, <1>1, <1>2, <1>3, PipelineAssumption DEF Inv, Mutex, Types, Lock
  <1>6. Applied' /\ \A c \in Batch : applied[c] => applied'[c]
    BY Zenon, <1>1, <1>2, <1>3 DEF Inv, Applied, Dequeuing
  <1>7. Looks(b)'
    BY Zenon, <1>2 DEF Looks
  <1> QED
    BY Zenon, <1>1, <1>2, <1>3, <1>4, <1>5, <1>6, <1>7, Move
    DEF Dequeuing, Enqueued, Numbered, Inv, Applied

LEMMA DrainStep == ASSUME Inv, NEW b \in Batch, Drain(b) PROVE Inv'
  <1>1. Types
    BY Zenon DEF Inv
  <1>2. /\ pc[b] = "drain" /\ pc'[b] = "apply"
        /\ \A c \in Batch \ {b} : pc'[c] = pc[c] /\ ptrs'[c] = ptrs[c] /\ got'[c] = got[c]
    BY Zenon, <1>1 DEF Types, Drain, Goto, queueVars, batchVars, localVars
  <1>3. UNCHANGED <<kind, head, tail, slots, pos, logSeqNum, visibleSeqNum, seqNum, applied, ptrs, got, memtable>>
    BY Zenon DEF Drain, queueVars, batchVars, localVars
  <1>4. Types'
    BY Zenon, <1>1, <1>3 DEF Types, Drain, Goto, queueVars, batchVars, localVars, Places
  <1>5. Mutex'
    <2>1. mu = b /\ mu' = NoBatch
      BY Zenon, <1>2 DEF Inv, Mutex, Drain
    <2> QED
      BY Zenon, <1>1, <1>2, <2>1, PipelineAssumption DEF Inv, Mutex
  <1>6. Applied' /\ \A c \in Batch : applied[c] => applied'[c]
    BY Zenon, <1>1, <1>2, <1>3 DEF Inv, Applied, Dequeuing
  <1>7. Looks(b)'
    BY Zenon, <1>2 DEF Looks
  <1> QED
    BY Zenon, <1>1, <1>2, <1>3, <1>4, <1>5, <1>6, <1>7, Move
    DEF Dequeuing, Enqueued, Numbered, Inv, Applied

LEMMA WriteRecordStep == ASSUME Inv, NEW b \in Batch, WriteRecord(b) PROVE Inv'
  <1>1. Types
    BY Zenon DEF Inv
  <1>2. /\ pc[b] = "write" /\ pc'[b] = "apply"
        /\ \A c \in Batch \ {b} : pc'[c] = pc[c] /\ ptrs'[c] = ptrs[c] /\ got'[c] = got[c]
    BY Zenon, <1>1 DEF Types, WriteRecord, Goto, queueVars, batchVars, localVars
  <1>3. UNCHANGED <<kind, head, tail, slots, pos, logSeqNum, visibleSeqNum, seqNum, applied, ptrs, got, cur, memtable>>
    BY Zenon DEF WriteRecord, queueVars, batchVars, localVars
  <1>4. Types'
    BY Zenon, <1>1, <1>3 DEF Types, WriteRecord, Goto, queueVars, batchVars, localVars, Places
  <1>5. Mutex'
    BY Zenon, <1>1, <1>2, <1>3, PipelineAssumption DEF Inv, Mutex, Types, WriteRecord
  <1>6. Applied' /\ \A c \in Batch : applied[c] => applied'[c]
    BY Zenon, <1>1, <1>2, <1>3 DEF Inv, Applied, Dequeuing
  <1>7. Looks(b)'
    BY Zenon, <1>2 DEF Looks
  <1> QED
    BY Zenon, <1>1, <1>2, <1>3, <1>4, <1>5, <1>6, <1>7, Move
    DEF Dequeuing, Enqueued, Numbered, Inv, Applied

LEMMA ApplyStep == ASSUME Inv, NEW b \in Batch, Apply(b) PROVE Inv'
  <1>1. Types
    BY Zenon DEF Inv
  <1>2. /\ pc[b] = "apply" /\ pc'[b] = "mark"
        /\ \A c \in Batch \ {b} : pc'[c] = pc[c] /\ ptrs'[c] = ptrs[c] /\ got'[c] = got[c]
    BY Zenon, <1>1 DEF Types, Apply, Goto, queueVars, batchVars, localVars
  <1>3. UNCHANGED <<kind, mu, head, tail, slots, pos, logSeqNum, visibleSeqNum, seqNum, applied, ptrs, got, cur>>
    BY Zenon DEF Apply, queueVars, batchVars, localVars
  <1>4. Types'
    BY Zenon, <1>1, <1>3 DEF Types, Apply, Goto, queueVars, batchVars, localVars, Places
  <1>5. Mutex'
    BY Zenon, <1>1, <1>2, <1>3 DEF Inv, Mutex
  <1>6. Applied' /\ \A c \in Batch : applied[c] => applied'[c]
    BY Zenon, <1>1, <1>2, <1>3 DEF Inv, Applied, Dequeuing, Types, Apply
  <1>7. Looks(b)'
    BY Zenon, <1>2 DEF Looks
  <1> QED
    BY Zenon, <1>1, <1>2, <1>3, <1>4, <1>5, <1>6, <1>7, Move
    DEF Dequeuing, Enqueued, Numbered, Inv, Applied

LEMMA MarkAppliedStep == ASSUME Inv, NEW b \in Batch, MarkApplied(b) PROVE Inv'
  <1>1. Types
    BY Zenon DEF Inv
  <1>2. /\ pc[b] = "mark" /\ pc'[b] = "load"
        /\ \A c \in Batch \ {b} : pc'[c] = pc[c] /\ ptrs'[c] = ptrs[c] /\ got'[c] = got[c]
    BY Zenon, <1>1 DEF Types, MarkApplied, Goto, queueVars, batchVars, localVars
  <1>3. UNCHANGED <<kind, mu, head, tail, slots, pos, logSeqNum, visibleSeqNum, seqNum, ptrs, got, cur, memtable>>
    BY Zenon DEF MarkApplied, queueVars, batchVars, localVars
  <1>4. Types'
    BY Zenon, <1>1, <1>3 DEF Types, MarkApplied, Goto, queueVars, batchVars, localVars, Places
  <1>5. Mutex'
    BY Zenon, <1>1, <1>2, <1>3 DEF Inv, Mutex
  <1>6. Applied' /\ \A c \in Batch : applied[c] => applied'[c]
    BY Zenon, <1>1, <1>2, <1>3 DEF Inv, Applied, Dequeuing, Types, MarkApplied
  <1>7. Looks(b)'
    BY Zenon, <1>2 DEF Looks
  <1> QED
    BY Zenon, <1>1, <1>2, <1>3, <1>4, <1>5, <1>6, <1>7, Move
    DEF Dequeuing, Enqueued, Numbered, Inv, Applied

LEMMA LoadHeadTailStep == ASSUME Inv, NEW b \in Batch, LoadHeadTail(b) PROVE Inv'
  <1>1. Types
    BY Zenon DEF Inv
  <1>2. /\ pc[b] = "load" /\ pc'[b] \in {"wait", "slot"}
        /\ \A c \in Batch \ {b} : pc'[c] = pc[c] /\ ptrs'[c] = ptrs[c] /\ got'[c] = got[c]
    BY Zenon, <1>1 DEF Types, LoadHeadTail, Goto, queueVars, batchVars, localVars
  <1>3. UNCHANGED <<kind, mu, head, tail, slots, pos, logSeqNum, visibleSeqNum, seqNum, applied, got, cur, memtable>>
    BY Zenon DEF LoadHeadTail, queueVars, batchVars, localVars
  <1>4. Types'
    <2>1. pc' \in [Batch -> Places]
      <3>1. \E p \in Places : pc' = [pc EXCEPT ![b] = p]
        BY Zenon DEF LoadHeadTail, Goto, Places
      <3> QED
        BY Zenon, <1>1, <3>1 DEF Types
    <2>2. ptrs' \in [Batch -> [head : Nat, tail : Nat]]
      <3>1. ptrs' = ptrs \/ \E p \in [head : Nat, tail : Nat] : ptrs' = [ptrs EXCEPT ![b] = p]
        BY Zenon, <1>1 DEF Types, LoadHeadTail, Goto
      <3> QED
        BY Zenon, <1>1, <3>1 DEF Types
    <2>3. got' \in [Batch -> Batch \cup {NoBatch}]
      <3>1. got' = got \/ \E x \in Batch \cup {NoBatch} : got' = [got EXCEPT ![b] = x]
        BY Zenon, <1>1, <1>3, SlotType DEF Types, LoadHeadTail, Goto
      <3> QED
        BY Zenon, <1>1, <3>1 DEF Types
    <2> QED
      BY Zenon, <1>1, <1>3, <2>1, <2>2, <2>3 DEF Types
  <1>5. Mutex'
    BY Zenon, <1>1, <1>2, <1>3 DEF Inv, Mutex
  <1>6. Applied' /\ \A c \in Batch : applied[c] => applied'[c]
    BY Zenon, <1>1, <1>2, <1>3 DEF Inv, Applied, Dequeuing
  <1>7. Looks(b)'
    <2>1. CASE head = tail
      BY Zenon, <1>1, <2>1 DEF Looks, Types, LoadHeadTail, Goto
    <2>2. CASE head # tail
      <3>1. ptrs'[b].tail = tail /\ ptrs'[b].head = head /\ pc'[b] = "slot"
        BY <1>1, <2>2 DEF Types, LoadHeadTail, Goto
      <3> QED
        BY SMTT(60), <1>1, <1>3, <2>2, <3>1 DEF Inv, Looks, Indices, Types
    <2> QED
      BY Zenon, <2>1, <2>2
  <1> QED
    BY Zenon, <1>1, <1>2, <1>3, <1>4, <1>5, <1>6, <1>7, Move
    DEF Dequeuing, Enqueued, Numbered, Inv, Applied

LEMMA LoadSlotStep == ASSUME Inv, NEW b \in Batch, LoadSlot(b) PROVE Inv'
  <1>1. Types
    BY Zenon DEF Inv
  <1>2. /\ pc[b] = "slot" /\ pc'[b] \in {"wait", "check"}
        /\ \A c \in Batch \ {b} : pc'[c] = pc[c] /\ ptrs'[c] = ptrs[c] /\ got'[c] = got[c]
    BY ZenonT(60), <1>1 DEF Types, LoadSlot, Goto, LeaveDequeue, NoPtrs, queueVars, batchVars, localVars
  <1>3. UNCHANGED <<kind, mu, head, tail, slots, pos, logSeqNum, visibleSeqNum, seqNum, applied, cur, memtable>>
    BY Zenon DEF LoadSlot, queueVars, batchVars, localVars
  <1>4. Types'
    <2>1. pc' \in [Batch -> Places]
      <3>1. \E p \in Places : pc' = [pc EXCEPT ![b] = p]
        BY Zenon DEF LoadSlot, Goto, Places
      <3> QED
        BY Zenon, <1>1, <3>1 DEF Types
    <2>2. ptrs' \in [Batch -> [head : Nat, tail : Nat]]
      <3>1. ptrs' = ptrs \/ \E p \in [head : Nat, tail : Nat] : ptrs' = [ptrs EXCEPT ![b] = p]
        BY Zenon, <1>1 DEF Types, LoadSlot, Goto, LeaveDequeue, NoPtrs
      <3> QED
        BY Zenon, <1>1, <3>1 DEF Types
    <2>3. got' \in [Batch -> Batch \cup {NoBatch}]
      <3>1. got' = got \/ \E x \in Batch \cup {NoBatch} : got' = [got EXCEPT ![b] = x]
        BY Zenon, <1>1, <1>3, SlotType DEF Types, LoadSlot, Goto, LeaveDequeue, NoPtrs
      <3> QED
        BY Zenon, <1>1, <3>1 DEF Types
    <2> QED
      BY Zenon, <1>1, <1>3, <2>1, <2>2, <2>3 DEF Types
  <1>5. Mutex'
    BY Zenon, <1>1, <1>2, <1>3 DEF Inv, Mutex
  <1>6. Applied' /\ \A c \in Batch : applied[c] => applied'[c]
    BY Zenon, <1>1, <1>2, <1>3 DEF Inv, Applied, Dequeuing
  <1>7. Looks(b)'
    <2>1. CASE slots[SlotOf(ptrs[b].tail)] = NoBatch
      BY Zenon, <1>1, <2>1 DEF Looks, Types, LoadSlot, Goto
    <2>2. CASE slots[SlotOf(ptrs[b].tail)] # NoBatch
      <3>1. /\ got'[b] = slots[SlotOf(ptrs[b].tail)] /\ ptrs' = ptrs
            /\ pc'[b] = "check"
        BY Zenon, <1>1, <2>2 DEF Types, LoadSlot, Goto
      <3>2. got'[b] \in Batch
        BY Zenon, <1>1, <2>2, <3>1, SlotType DEF Types
      <3> QED
        BY Zenon, <1>1, <1>2, <1>3, <3>1, <3>2 DEF Inv, Looking, Looks
    <2> QED
      BY Zenon, <2>1, <2>2
  <1> QED
    BY Zenon, <1>1, <1>2, <1>3, <1>4, <1>5, <1>6, <1>7, Move
    DEF Dequeuing, Enqueued, Numbered, Inv, Applied, Types, LoadSlot

LEMMA CheckAppliedStep == ASSUME Inv, NEW b \in Batch, CheckApplied(b) PROVE Inv'
  <1>1. Types
    BY Zenon DEF Inv
  <1>2. /\ pc[b] = "check" /\ pc'[b] \in {"wait", "cas"}
        /\ \A c \in Batch \ {b} : pc'[c] = pc[c] /\ ptrs'[c] = ptrs[c] /\ got'[c] = got[c]
    BY Zenon, <1>1 DEF Types, CheckApplied, Goto, LeaveDequeue, NoPtrs, queueVars, batchVars, localVars
  <1>3. UNCHANGED <<kind, mu, head, tail, slots, pos, logSeqNum, visibleSeqNum, seqNum, applied, cur, memtable>>
    BY Zenon DEF CheckApplied, queueVars, batchVars, localVars
  <1>4. Types'
    <2>1. pc' \in [Batch -> Places]
      <3>1. \E p \in Places : pc' = [pc EXCEPT ![b] = p]
        BY Zenon DEF CheckApplied, Goto, Places
      <3> QED
        BY Zenon, <1>1, <3>1 DEF Types
    <2>2. ptrs' \in [Batch -> [head : Nat, tail : Nat]]
      <3>1. ptrs' = ptrs \/ \E p \in [head : Nat, tail : Nat] : ptrs' = [ptrs EXCEPT ![b] = p]
        BY Zenon, <1>1 DEF Types, CheckApplied, Goto, LeaveDequeue, NoPtrs
      <3> QED
        BY Zenon, <1>1, <3>1 DEF Types
    <2>3. got' \in [Batch -> Batch \cup {NoBatch}]
      <3>1. got' = got \/ \E x \in Batch \cup {NoBatch} : got' = [got EXCEPT ![b] = x]
        BY Zenon, <1>1, <1>3, SlotType DEF Types, CheckApplied, Goto, LeaveDequeue, NoPtrs
      <3> QED
        BY Zenon, <1>1, <3>1 DEF Types
    <2> QED
      BY Zenon, <1>1, <1>3, <2>1, <2>2, <2>3 DEF Types
  <1>5. Mutex'
    BY Zenon, <1>1, <1>2, <1>3 DEF Inv, Mutex
  <1>6. Applied' /\ \A c \in Batch : applied[c] => applied'[c]
    BY Zenon, <1>1, <1>2, <1>3 DEF Inv, Applied, Dequeuing
  <1>7. Looks(b)'
    <2>1. CASE applied[got[b]]
      BY Zenon, <1>1, <1>2, <1>3, <2>1 DEF Inv, Looking, Looks, Indices, Types, CheckApplied, Goto, LeaveDequeue, NoPtrs
    <2>2. CASE ~(applied[got[b]])
      BY Zenon, <1>1, <1>2, <1>3, <2>2, SlotType DEF Inv, Looking, Looks, Indices, Types, CheckApplied, Goto, LeaveDequeue, NoPtrs
    <2> QED
      BY Zenon, <2>1, <2>2
  <1> QED
    BY Zenon, <1>1, <1>2, <1>3, <1>4, <1>5, <1>6, <1>7, Move
    DEF Dequeuing, Enqueued, Numbered, Inv, Applied, Types, CheckApplied

LEMMA LoadVisibleStep == ASSUME Inv, NEW b \in Batch, LoadVisible(b) PROVE Inv'
  <1>1. Types
    BY Zenon DEF Inv
  <1>2. /\ pc[b] = "ratchet" /\ pc'[b] \in {"publish", "done"}
        /\ \A c \in Batch \ {b} : pc'[c] = pc[c] /\ ptrs'[c] = ptrs[c] /\ got'[c] = got[c]
    BY Zenon, <1>1 DEF Types, LoadVisible, Goto, queueVars, batchVars, localVars
  <1>3. UNCHANGED <<kind, mu, head, tail, slots, pos, logSeqNum, visibleSeqNum, seqNum, applied, ptrs, got, memtable>>
    BY Zenon DEF LoadVisible, queueVars, batchVars, localVars
  <1>4. Types'
    BY Zenon, <1>1, <1>3 DEF Types, LoadVisible, Goto, queueVars, batchVars, localVars, Places
  <1>5. Mutex'
    BY Zenon, <1>1, <1>2, <1>3 DEF Inv, Mutex
  <1>6. Applied' /\ \A c \in Batch : applied[c] => applied'[c]
    BY Zenon, <1>1, <1>2, <1>3 DEF Inv, Applied, Dequeuing
  <1>7. Looks(b)'
    BY Zenon, <1>2 DEF Looks
  <1> QED
    BY Zenon, <1>1, <1>2, <1>3, <1>4, <1>5, <1>6, <1>7, Move
    DEF Dequeuing, Enqueued, Numbered, Inv, Applied

LEMMA DoneCommitStep == ASSUME Inv, NEW b \in Batch, DoneCommit(b) PROVE Inv'
  <1>1. Types
    BY Zenon DEF Inv
  <1>2. /\ pc[b] = "done" /\ pc'[b] = "load"
        /\ \A c \in Batch \ {b} : pc'[c] = pc[c] /\ ptrs'[c] = ptrs[c] /\ got'[c] = got[c]
    BY Zenon, <1>1 DEF Types, DoneCommit, Goto, queueVars, batchVars, localVars
  <1>3. UNCHANGED <<kind, mu, head, tail, slots, pos, logSeqNum, visibleSeqNum, seqNum, applied, ptrs, memtable>>
    BY Zenon DEF DoneCommit, queueVars, batchVars, localVars
  <1>4. Types'
    BY Zenon, <1>1, <1>3 DEF Types, DoneCommit, Goto, queueVars, batchVars, localVars, Places
  <1>5. Mutex'
    BY Zenon, <1>1, <1>2, <1>3 DEF Inv, Mutex
  <1>6. Applied' /\ \A c \in Batch : applied[c] => applied'[c]
    BY Zenon, <1>1, <1>2, <1>3 DEF Inv, Applied, Dequeuing
  <1>7. Looks(b)'
    BY Zenon, <1>2 DEF Looks
  <1> QED
    BY Zenon, <1>1, <1>2, <1>3, <1>4, <1>5, <1>6, <1>7, Move
    DEF Dequeuing, Enqueued, Numbered, Inv, Applied, Types, DoneCommit

LEMMA ReturnStep == ASSUME Inv, NEW b \in Batch, Return(b) PROVE Inv'
  <1>1. Types
    BY Zenon DEF Inv
  <1>2. /\ pc[b] = "wait" /\ pc'[b] \in {"returned", "fatal"}
        /\ \A c \in Batch \ {b} : pc'[c] = pc[c] /\ ptrs'[c] = ptrs[c] /\ got'[c] = got[c]
    BY Zenon, <1>1 DEF Types, Return, Goto, queueVars, batchVars, localVars
  <1>3. UNCHANGED <<kind, mu, head, tail, slots, pos, logSeqNum, visibleSeqNum, seqNum, applied, ptrs, got, cur, memtable>>
    BY Zenon DEF Return, queueVars, batchVars, localVars
  <1>4. Types'
    BY Zenon, <1>1, <1>3 DEF Types, Return, Goto, queueVars, batchVars, localVars, Places
  <1>5. Mutex'
    BY Zenon, <1>1, <1>2, <1>3 DEF Inv, Mutex
  <1>6. Applied' /\ \A c \in Batch : applied[c] => applied'[c]
    BY Zenon, <1>1, <1>2, <1>3 DEF Inv, Applied, Dequeuing
  <1>7. Looks(b)'
    BY Zenon, <1>2 DEF Looks
  <1> QED
    BY Zenon, <1>1, <1>2, <1>3, <1>4, <1>5, <1>6, <1>7, Move
    DEF Dequeuing, Enqueued, Numbered, Inv, Applied

LEMMA SyncWaitStep == ASSUME Inv, NEW b \in Batch, SyncWait(b) PROVE Inv'
  <1>1. Types
    BY Zenon DEF Inv
  <1>2. /\ pc[b] = "returned" /\ pc'[b] \in {"synced", "failed"}
        /\ \A c \in Batch \ {b} : pc'[c] = pc[c] /\ ptrs'[c] = ptrs[c] /\ got'[c] = got[c]
    BY Zenon, <1>1 DEF Types, SyncWait, Goto, queueVars, batchVars, localVars
  <1>3. UNCHANGED <<kind, mu, head, tail, slots, pos, logSeqNum, visibleSeqNum, seqNum, applied, ptrs, got, cur, memtable>>
    BY Zenon DEF SyncWait, queueVars, batchVars, localVars
  <1>4. Types'
    BY Zenon, <1>1, <1>3 DEF Types, SyncWait, Goto, queueVars, batchVars, localVars, Places
  <1>5. Mutex'
    BY Zenon, <1>1, <1>2, <1>3 DEF Inv, Mutex
  <1>6. Applied' /\ \A c \in Batch : applied[c] => applied'[c]
    BY Zenon, <1>1, <1>2, <1>3 DEF Inv, Applied, Dequeuing, Types, SyncWait
  <1>7. Looks(b)'
    BY Zenon, <1>2 DEF Looks
  <1> QED
    BY Zenon, <1>1, <1>2, <1>3, <1>4, <1>5, <1>6, <1>7, Move
    DEF Dequeuing, Enqueued, Numbered, Inv, Applied

-----------------------------------------------------------------------------
(* The steps that change the queue or the numbers.                         *)

LEMMA EnqueueStep == ASSUME Inv, NEW b \in Batch, Enqueue(b) PROVE Inv'
  <1>1. Types
    BY Zenon DEF Inv
  <1>2. /\ pc[b] = "enqueue" /\ pc'[b] = "advance" /\ pos'[b] = head
        /\ \A c \in Batch \ {b} : pc'[c] = pc[c] /\ pos'[c] = pos[c]
    BY Zenon, <1>1 DEF Types, Enqueue, Goto
  <1>3. UNCHANGED <<kind, mu, head, tail, logSeqNum, visibleSeqNum, seqNum, applied,
                    ptrs, got, cur, memtable>>
    BY Zenon DEF Enqueue, batchVars, localVars
  <1>4. /\ slots[SlotOf(head)] = NoBatch /\ slots'[SlotOf(head)] = b
        /\ \A i \in 0..(Slots - 1) : slots[i] # NoBatch => slots'[i] = slots[i]
    BY Zenon, <1>1, SlotType DEF Types, Enqueue
  <1>5. pos[b] = -1 /\ mu = b
    BY Zenon, <1>2 DEF Inv, Indices, Enqueued, Mutex
  <1>6. \A c \in Batch \ {b} : pc[c] \notin {"advance", "setSeqNum"}
    BY Zenon, <1>5 DEF Inv, Mutex
  <1>7. Types'
    <2>1. pc' \in [Batch -> Places]
      BY Zenon, <1>1 DEF Types, Enqueue, Goto, Places
    <2>2. slots' \in [0..(Slots - 1) -> Batch \cup {NoBatch}]
      BY Zenon, <1>1, SlotType DEF Types, Enqueue
    <2>3. pos' \in [Batch -> Int]
      BY <1>1 DEF Types, Enqueue
    <2> QED
      BY Zenon, <1>1, <1>3, <2>1, <2>2, <2>3 DEF Types
  <1>8. Mutex' /\ Applied'
    BY ZenonT(60), <1>2, <1>3 DEF Inv, Mutex, Applied, Dequeuing
  <1>9. Indices'
    BY ZenonT(60), <1>1, <1>2, <1>3, <1>6 DEF Inv, Indices, Enqueued, Applied, Types
  <1>10. OwnIndex'
    <2>1. ASSUME NEW c \in Batch \ {b} PROVE pos[c] # head
      <3>1. pos[c] = -1 \/ pos[c] < head
        BY Zenon, <1>6 DEF Inv, Indices
      <3> QED
        BY SMTT(30), <3>1 DEF Inv, Types
    <2> QED
      BY <1>2, <2>1 DEF Inv, OwnIndex
  <1>11. ASSUME NEW p \in tail..(head - 1)
         PROVE  /\ slots'[SlotOf(p)] = slots[SlotOf(p)]
                /\ slots[SlotOf(p)] \in Batch \ {b} /\ pos[slots[SlotOf(p)]] = p
    <2>1. p \in Nat /\ p # -1
      <3>1. tail \in Nat /\ head \in Nat
        BY Zenon, <1>1 DEF Types
      <3> QED
        BY <3>1
    <2>2. slots[SlotOf(p)] \in Batch /\ pos[slots[SlotOf(p)]] = p
      BY Zenon DEF Inv, Window
    <2>3. slots[SlotOf(p)] # NoBatch /\ SlotOf(p) \in 0..(Slots - 1)
      BY Zenon, <2>1, <2>2, SlotType, PipelineAssumption
    <2>4. slots[SlotOf(p)] # b
      BY Zenon, <1>5, <2>1, <2>2
    <2> QED
      BY Zenon, <1>4, <2>2, <2>3, <2>4
  <1>12. Window'
    <2> SUFFICES ASSUME NEW p \in tail..(head - 1)
                 PROVE  slots'[SlotOf(p)] \in Batch /\ pos'[slots'[SlotOf(p)]] = p
      BY Zenon, <1>3 DEF Window
    <2> QED
      BY ZenonT(60), <1>2, <1>11
  <1>13. Advancing'
    BY <1>2, <1>3, <1>4, <1>6 DEF Advancing
  <1>14. Clearing'
    <2> SUFFICES ASSUME NEW c \in Batch, pc'[c] = "clear"
                 PROVE  /\ slots'[SlotOf(ptrs[c].tail)] = got[c]
                        /\ pos'[got[c]] = ptrs[c].tail
      BY Zenon, <1>3 DEF Clearing
    <2>1. /\ slots[SlotOf(ptrs[c].tail)] = got[c] /\ pos[got[c]] = ptrs[c].tail
          /\ got[c] \in Batch /\ pos[got[c]] \in Nat
      BY Zenon, <1>2 DEF Inv, Clearing, Taking, Dequeuing
    <2>2. SlotOf(ptrs[c].tail) \in 0..(Slots - 1)
      BY Zenon, <1>1, SlotType DEF Types
    <2>3. got[c] # NoBatch /\ got[c] # b
      BY <1>5, <2>1, PipelineAssumption
    <2> QED
      BY Zenon, <1>2, <1>4, <2>1, <2>2, <2>3
  <1>15. Looking'
    <2> SUFFICES ASSUME NEW c \in Batch PROVE Looks(c)'
      BY Zenon DEF Looking
    <2>1. Looks(c)
      BY Zenon DEF Inv, Looking
    <2>2. pc[c] \in {"check", "cas"} /\ ptrs[c].tail = tail
            => slots'[SlotOf(tail)] = slots[SlotOf(tail)]
      <3> SUFFICES ASSUME pc[c] \in {"check", "cas"}, ptrs[c].tail = tail
                   PROVE  slots'[SlotOf(tail)] = slots[SlotOf(tail)]
        BY Zenon
      <3>1. tail < ptrs[c].head /\ ptrs[c].head <= head
        BY Zenon, <2>1 DEF Looks
      <3>2. ptrs[c].head \in Nat
        BY Zenon, <1>1 DEF Types
      <3>3. tail \in tail..(head - 1)
        BY SMTT(60), <1>1, <3>1, <3>2 DEF Types
      <3> QED
        BY Zenon, <1>11, <3>3
    <2> QED
      BY Zenon, <1>2, <1>3, <2>1, <2>2 DEF Looks
  <1>16. Taking' /\ TakenOnce'
    BY <1>2, <1>3, <1>5 DEF Inv, Taking, TakenOnce, Dequeuing
  <1>17. DequeuedIsApplied'
    <2>1. ~(pos'[b] < tail)
      BY <1>1, <1>2 DEF Inv, Indices, Types
    <2> QED
      BY Zenon, <1>2, <1>3, <2>1 DEF Inv, DequeuedIsApplied
  <1>18. Below' /\ Ordered' /\ VisibleIsDequeued'
    <2>1. \A c \in Batch : Numbered(c)' => Numbered(c) /\ c # b
      BY Zenon, <1>2, <1>3 DEF Numbered
    <2> QED
      BY Zenon, <1>2, <1>3, <2>1 DEF Inv, Below, Ordered, VisibleIsDequeued, EndOf
  <1> QED
    BY Zenon, <1>7, <1>8, <1>9, <1>10, <1>12, <1>13, <1>14, <1>15, <1>16, <1>17, <1>18
    DEF Inv

LEMMA AdvanceHeadStep == ASSUME Inv, NEW b \in Batch, AdvanceHead(b) PROVE Inv'
  <1>1. Types
    BY Zenon DEF Inv
  <1>2. /\ pc[b] = "advance" /\ pc'[b] = "setSeqNum" /\ head' = head + 1
        /\ \A c \in Batch \ {b} : pc'[c] = pc[c]
    BY Zenon, <1>1 DEF Types, AdvanceHead, Goto
  <1>3. UNCHANGED <<kind, mu, tail, slots, pos, logSeqNum, visibleSeqNum, seqNum,
                    applied, ptrs, got, cur, memtable>>
    BY Zenon DEF AdvanceHead, batchVars, localVars
  <1>4. \A c \in Batch \ {b} : pc[c] \notin {"advance", "setSeqNum"}
    BY Zenon, <1>2 DEF Inv, Mutex
  <1>5. Types'
    <2>1. pc' \in [Batch -> Places]
      BY Zenon, <1>1 DEF Types, AdvanceHead, Goto, Places
    <2>2. head' \in Nat
      BY <1>1, <1>2 DEF Types
    <2> QED
      BY Zenon, <1>1, <1>3, <2>1, <2>2 DEF Types
  <1>6. Mutex' /\ Applied' /\ OwnIndex'
    BY ZenonT(60), <1>2, <1>3 DEF Inv, Mutex, Applied, OwnIndex, Dequeuing
  <1>7. Indices'
    <2>1. Indices
      BY Zenon DEF Inv
    <2>2. tail' <= head'
      BY <1>1, <1>2, <1>3, <2>1 DEF Indices, Types
    <2>3. \A c \in Batch : pos[c] < head => pos[c] < head'
      BY SMTT(30), <1>1, <1>2 DEF Types
    <2>4. \A c \in Batch : Enqueued(c)' <=> Enqueued(c)
      BY Zenon, <1>2, <1>3 DEF Enqueued
    <2>5. pos[b] = head /\ head = head' - 1 /\ head < head' /\ Enqueued(b)
      BY <1>1, <1>2, <2>1 DEF Indices, Types, Enqueued
    <2> SUFFICES ASSUME NEW c \in Batch
                 PROVE  /\ ~Enqueued(c) => pos[c] = -1
                        /\ Enqueued(c) => pos[c] \in Nat
                        /\ Enqueued(c) /\ pc'[c] # "advance" => pos[c] < head'
                        /\ pc'[c] = "advance" => pos[c] = head'
                        /\ pc'[c] = "setSeqNum" => pos[c] = head' - 1
      BY Zenon, <1>3, <2>2, <2>4 DEF Indices
    <2>6. CASE c = b
      BY Zenon, <1>2, <2>1, <2>5, <2>6 DEF Indices
    <2>7. CASE c # b
      BY Zenon, <1>2, <1>4, <2>1, <2>3, <2>7 DEF Indices
    <2> QED
      BY Zenon, <2>6, <2>7
  <1>8. Window'
    <2>1. slots[SlotOf(head)] = b /\ pos[b] = head
      BY Zenon, <1>2 DEF Inv, Advancing, Indices
    <2>2. \A p \in tail'..(head' - 1) : p = head \/ p \in tail..(head - 1)
      BY <1>1, <1>2, <1>3 DEF Types
    <2> QED
      BY Zenon, <1>3, <2>1, <2>2 DEF Inv, Window
  <1>9. Advancing' /\ Clearing'
    BY Zenon, <1>2, <1>3, <1>4 DEF Inv, Advancing, Clearing
  <1>10. Looking'
    <2> SUFFICES ASSUME NEW c \in Batch PROVE Looks(c)'
      BY Zenon DEF Looking
    <2>1. Looks(c)
      BY Zenon DEF Inv, Looking
    <2>2. ptrs[c].head <= head => ptrs[c].head <= head'
      BY SMTT(60), <1>1, <1>2 DEF Types
    <2> QED
      BY Zenon, <1>2, <1>3, <2>1, <2>2 DEF Looks
  <1>11. Taking' /\ TakenOnce' /\ DequeuedIsApplied'
    BY Zenon, <1>2, <1>3 DEF Inv, Taking, TakenOnce, DequeuedIsApplied, Dequeuing
  <1>12. Below' /\ Ordered' /\ VisibleIsDequeued'
    <2>1. \A c \in Batch : Numbered(c)' <=> Numbered(c)
      BY Zenon, <1>2, <1>3 DEF Numbered
    <2> QED
      BY Zenon, <1>3, <2>1 DEF Inv, Below, Ordered, VisibleIsDequeued, EndOf
  <1> QED
    BY Zenon, <1>5, <1>6, <1>7, <1>8, <1>9, <1>10, <1>11, <1>12 DEF Inv

LEMMA SetSeqNumStep == ASSUME Inv, NEW b \in Batch, SetSeqNum(b) PROVE Inv'
  <1>1. Types
    BY Zenon DEF Inv
  <1>2. PICK skip \in {0, 1} :
           /\ seqNum' = [seqNum EXCEPT ![b] = logSeqNum + skip]
           /\ logSeqNum' = logSeqNum + Count[kind[b]] + skip
    BY Zenon DEF SetSeqNum
  <1>3. /\ pc[b] = "setSeqNum" /\ pc'[b] \in {"drain", "write"}
        /\ \A c \in Batch \ {b} : pc'[c] = pc[c]
    BY Zenon, <1>1 DEF Types, SetSeqNum, Goto
  <1>4. UNCHANGED <<kind, mu, head, tail, slots, pos, visibleSeqNum, applied, ptrs,
                    got, memtable>>
    BY Zenon DEF SetSeqNum, queueVars
  <1>5. Count[kind[b]] \in Nat /\ logSeqNum \in Nat /\ skip \in Nat
    BY <1>1, PipelineAssumption DEF Types
  <1>6. Types'
    <2>1. pc' \in [Batch -> Places]
      BY Zenon, <1>1 DEF Types, SetSeqNum, Goto, Places
    <2>2. seqNum' \in [Batch -> Nat] /\ logSeqNum' \in Nat
      <3>1. logSeqNum + skip \in Nat /\ logSeqNum' \in Nat
        BY <1>2, <1>5
      <3> QED
        BY Zenon, <1>1, <1>2, <3>1 DEF Types
    <2>3. cur' \in [Batch -> Nat]
      BY Zenon, <1>1 DEF Types, SetSeqNum
    <2> QED
      BY Zenon, <1>1, <1>4, <2>1, <2>2, <2>3 DEF Types
  <1>7. Mutex' /\ Applied' /\ OwnIndex' /\ Window'
    BY <1>3, <1>4 DEF Inv, Mutex, Applied, OwnIndex, Window, Dequeuing
  <1>8. Indices'
    BY Zenon, <1>3, <1>4 DEF Inv, Indices, Enqueued
  <1>9. Advancing' /\ Clearing'
    BY ZenonT(30), <1>3, <1>4 DEF Inv, Advancing, Clearing
  <1>10. Looking'
    BY Zenon, <1>3, <1>4 DEF Inv, Looking, Looks
  <1>11. Taking' /\ TakenOnce' /\ DequeuedIsApplied'
    BY Zenon, <1>3, <1>4 DEF Inv, Taking, TakenOnce, DequeuedIsApplied, Dequeuing
  <1>12. \A c \in Batch \ {b} : /\ Numbered(c)' <=> Numbered(c)
                                /\ EndOf(c)' = EndOf(c) /\ seqNum'[c] = seqNum[c]
    BY Zenon, <1>1, <1>2, <1>3, <1>4 DEF Numbered, EndOf, Types
  <1>13. EndOf(b)' = logSeqNum' /\ logSeqNum <= seqNum'[b] /\ logSeqNum <= logSeqNum'
    <2>1. seqNum'[b] = logSeqNum + skip
      BY Zenon, <1>1, <1>2 DEF Types
    <2> QED
      BY <1>2, <1>4, <1>5, <2>1 DEF EndOf
  <1>14. logSeqNum' \in Nat /\ seqNum'[b] \in Nat /\ \A c \in Batch : EndOf(c) \in Nat
    BY Zenon, <1>1, <1>6, EndType DEF Types
  <1>15. Below'
    <2>1. \A c \in Batch \ {b} : Numbered(c) => EndOf(c) <= logSeqNum'
      BY Zenon, <1>5, <1>13, <1>14, Transitive DEF Inv, Below
    <2> QED
      BY <1>12, <1>13, <1>14, <2>1 DEF Below
  <1>16. Ordered'
    <2> SUFFICES ASSUME NEW c \in Batch, NEW d \in Batch,
                        Numbered(c)', Numbered(d)', pos[c] < pos[d]
                 PROVE  EndOf(c)' <= seqNum'[d]
      BY Zenon, <1>4 DEF Ordered
    <2>1. CASE c # b /\ d # b
      BY Zenon, <1>12, <2>1 DEF Inv, Ordered
    <2>2. CASE c # b /\ d = b
      <3>1. EndOf(c) <= logSeqNum
        BY Zenon, <1>12, <2>2 DEF Inv, Below
      <3>2. EndOf(c) <= seqNum'[b]
        BY Zenon, <1>5, <1>13, <1>14, <3>1, Transitive
      <3> QED
        BY Zenon, <1>12, <2>2, <3>2
    <2>3. CASE c = b
      <3>1. pos[b] = head - 1
        BY Zenon, <1>3 DEF Inv, Indices
      <3>2. pos[d] < head /\ d # b
        <4>1. d # b /\ Numbered(d)
          <5>1. d # b
            BY Zenon, <1>1, <2>3, Irreflexive DEF Types
          <5> QED
            BY Zenon, <1>12, <5>1
        <4>2. Enqueued(d) /\ pc[d] # "advance"
          BY Zenon, <4>1 DEF Numbered, Enqueued
        <4> QED
          BY Zenon, <4>1, <4>2 DEF Inv, Indices
      <3>3. pos[d] \in Int
        BY Zenon, <1>1 DEF Types
      <3>4. FALSE
        BY <1>1, <2>3, <3>1, <3>2, <3>3 DEF Types
      <3> QED
        BY Zenon, <3>4
    <2> QED
      BY Zenon, <2>1, <2>2, <2>3
  <1>17. VisibleIsDequeued'
    <2>1. visibleSeqNum <= logSeqNum
      BY Zenon DEF Inv, VisibleIsDequeued
    <2>2. visibleSeqNum' <= logSeqNum' /\ ~(seqNum'[b] < visibleSeqNum')
      <3>1. visibleSeqNum \in Nat /\ logSeqNum \in Nat /\ visibleSeqNum' = visibleSeqNum
        BY Zenon, <1>1, <1>4 DEF Types
      <3> QED
        BY Zenon, <1>13, <1>14, <2>1, <3>1, Transitive
    <2> QED
      BY Zenon, <1>4, <1>12, <2>2 DEF Inv, VisibleIsDequeued
  <1> QED
    BY Zenon, <1>6, <1>7, <1>8, <1>9, <1>10, <1>11, <1>15, <1>16, <1>17 DEF Inv

\* The batch that a goroutine takes by moving the tail is the one that was
\* enqueued there.
LEMMA TakesTheTail ==
    ASSUME Inv, NEW b \in Batch, pc[b] = "cas",
           ptrs[b] = [head |-> head, tail |-> tail]
    PROVE  /\ tail < head /\ got[b] \in Batch /\ applied[got[b]]
           /\ got[b] = slots[SlotOf(tail)] /\ pos[got[b]] = tail
  <1>1. ptrs[b].head = head /\ ptrs[b].tail = tail
    OBVIOUS
  <1>2. /\ tail < head /\ got[b] \in Batch /\ applied[got[b]]
        /\ got[b] = slots[SlotOf(tail)]
    BY Zenon, <1>1 DEF Inv, Looking, Looks
  <1>3. tail \in tail..(head - 1)
    BY <1>2 DEF Inv, Types
  <1> QED
    BY Zenon, <1>2, <1>3 DEF Inv, Window

LEMMA CompareAndSwapTailStep ==
    ASSUME Inv, NEW b \in Batch, CompareAndSwapTail(b) PROVE Inv'
  <1>1. Types
    BY Zenon DEF Inv
  <1>2. /\ pc[b] = "cas" /\ pc'[b] \in {"clear", "load"}
        /\ \A c \in Batch \ {b} : pc'[c] = pc[c] /\ ptrs'[c] = ptrs[c] /\ got'[c] = got[c]
    BY SMTT(60), <1>1 DEF Types, CompareAndSwapTail, Goto, LeaveDequeue
  <1>3. UNCHANGED <<kind, mu, head, slots, pos, logSeqNum, visibleSeqNum, seqNum,
                    applied, cur, memtable>>
    BY Zenon DEF CompareAndSwapTail, batchVars
  <1>4. Types'
    <2>1. pc' \in [Batch -> Places]
      <3>1. \E p \in Places : pc' = [pc EXCEPT ![b] = p]
        BY Zenon DEF CompareAndSwapTail, Goto, Places
      <3> QED
        BY Zenon, <1>1, <3>1 DEF Types
    <2>2. ptrs' \in [Batch -> [head : Nat, tail : Nat]]
      <3>1. ptrs' = ptrs \/ \E p \in [head : Nat, tail : Nat] : ptrs' = [ptrs EXCEPT ![b] = p]
        BY Zenon DEF CompareAndSwapTail, LeaveDequeue, NoPtrs
      <3> QED
        BY Zenon, <1>1, <3>1 DEF Types
    <2>3. got' \in [Batch -> Batch \cup {NoBatch}]
      <3>1. got' = got \/ got' = [got EXCEPT ![b] = NoBatch]
        BY Zenon DEF CompareAndSwapTail, LeaveDequeue
      <3> QED
        BY Zenon, <1>1, <3>1 DEF Types
    <2>4. tail' \in Nat
      <3>1. tail' = tail \/ tail' = tail + 1
        BY Zenon DEF CompareAndSwapTail
      <3> QED
        BY <1>1, <3>1 DEF Types
    <2> QED
      BY Zenon, <1>1, <1>3, <2>1, <2>2, <2>3, <2>4 DEF Types
  <1>5. Mutex'
    BY Zenon, <1>2, <1>3 DEF Inv, Mutex
  <1>6. Applied' /\ \A c \in Batch : applied[c] => applied'[c]
    BY Zenon, <1>2, <1>3 DEF Inv, Applied, Dequeuing
  <1>7. CASE ptrs[b] # [head |-> head, tail |-> tail]
    <2>1. tail' = tail /\ pc'[b] = "load"
      BY Zenon, <1>1, <1>7 DEF Types, CompareAndSwapTail, Goto
    <2>2. Looks(b)'
      BY Zenon, <2>1 DEF Looks
    <2> QED
      BY Zenon, <1>2, <1>3, <1>4, <1>5, <1>6, <2>1, <2>2, Move
      DEF Dequeuing, Enqueued, Numbered
  <1>8. CASE ptrs[b] = [head |-> head, tail |-> tail]
    <2>1. /\ tail' = tail + 1 /\ pc'[b] = "clear" /\ ptrs' = ptrs /\ got' = got
          /\ ptrs[b].tail = tail
      BY <1>1, <1>8 DEF Types, CompareAndSwapTail, Goto
    <2>2. /\ tail < head /\ got[b] \in Batch /\ applied[got[b]]
          /\ got[b] = slots[SlotOf(tail)] /\ pos[got[b]] = tail
      BY Zenon, <1>2, <1>8, TakesTheTail
    <2>3. tail \in Nat /\ head \in Nat
      BY Zenon, <1>1 DEF Types
    <2>4. Indices' /\ OwnIndex'
      <3>1. tail' <= head
        BY <2>1, <2>2, <2>3
      <3> QED
        BY Zenon, <1>2, <1>3, <2>1, <3>1 DEF Inv, Indices, OwnIndex, Enqueued
    <2>5. Window'
      <3>1. \A p \in tail'..(head - 1) : p \in tail..(head - 1)
        BY <2>1, <2>3
      <3> QED
        BY Zenon, <1>3, <3>1 DEF Inv, Window
    <2>6. Advancing' /\ Clearing'
      BY <1>2, <1>3, <2>1, <2>2 DEF Inv, Advancing, Clearing
    <2>7. Looking'
      <3> SUFFICES ASSUME NEW c \in Batch PROVE Looks(c)'
        BY Zenon DEF Looking
      <3>1. Looks(c)
        BY Zenon DEF Inv, Looking
      <3>2. ptrs[c].tail \in Nat
        BY Zenon, <1>1 DEF Types
      <3>3. ptrs[c].tail <= tail => ptrs[c].tail <= tail' /\ ptrs[c].tail # tail'
        BY <2>1, <2>3, <3>2
      <3> QED
        BY Zenon, <1>2, <1>3, <2>1, <3>1, <3>3 DEF Looks
    <2>8. Taking'
      <3> SUFFICES ASSUME NEW c \in Batch, pc'[c] \in Dequeuing
                   PROVE  got[c] \in Batch /\ pos[got[c]] \in Nat /\ pos[got[c]] < tail'
        BY Zenon, <1>3, <2>1 DEF Taking
      <3>1. CASE c = b
        BY <2>1, <2>2, <2>3, <3>1
      <3>2. CASE c # b
        <4>1. got[c] \in Batch /\ pos[got[c]] \in Nat /\ pos[got[c]] < tail
          BY Zenon, <1>2, <3>2 DEF Inv, Taking
        <4> QED
          BY <2>1, <2>3, <4>1
      <3> QED
        BY Zenon, <3>1, <3>2
    <2>9. TakenOnce'
      <3>1. \A c \in Batch \ {b} : pc[c] \in Dequeuing => got[c] # got[b]
        <4> SUFFICES ASSUME NEW c \in Batch \ {b}, pc[c] \in Dequeuing
                     PROVE  got[c] # got[b]
          BY Zenon
        <4>1. pos[got[c]] \in Nat /\ pos[got[c]] < tail
          BY Zenon DEF Inv, Taking
        <4> QED
          BY <2>2, <2>3, <4>1
      <3> QED
        BY Zenon, <1>2, <2>1, <3>1 DEF Inv, TakenOnce
    <2>10. DequeuedIsApplied'
      <3> SUFFICES ASSUME NEW c \in Batch, pos[c] \in Nat, pos[c] < tail'
                   PROVE  applied[c]
        BY Zenon, <1>3 DEF DequeuedIsApplied
      <3>1. pos[c] < tail \/ pos[c] = tail
        BY <2>1, <2>3
      <3>2. CASE pos[c] = tail
        <4>1. pos[c] # -1
          BY <2>3, <3>2
        <4>2. c = got[b]
          BY Zenon, <2>2, <3>2, <4>1 DEF Inv, OwnIndex
        <4> QED
          BY Zenon, <2>2, <4>2
      <3>3. CASE pos[c] < tail
        BY Zenon, <3>3 DEF Inv, DequeuedIsApplied
      <3> QED
        BY Zenon, <3>1, <3>2, <3>3
    <2>11. Below' /\ Ordered' /\ VisibleIsDequeued'
      <3>1. \A c \in Batch : Numbered(c)' <=> Numbered(c)
        BY Zenon, <1>2, <1>3, <2>1 DEF Numbered
      <3>2. \A c \in Batch : pos[c] < tail => pos[c] < tail'
        BY SMTT(30), <1>1, <2>1, <2>3 DEF Types
      <3> QED
        BY Zenon, <1>3, <3>1, <3>2 DEF Inv, Below, Ordered, VisibleIsDequeued, EndOf
    <2> QED
      BY Zenon, <1>4, <1>5, <1>6, <2>4, <2>5, <2>6, <2>7, <2>8, <2>9, <2>10, <2>11 DEF Inv
  <1> QED
    BY Zenon, <1>7, <1>8

LEMMA ClearSlotStep == ASSUME Inv, NEW b \in Batch, ClearSlot(b) PROVE Inv'
  <1>1. Types
    BY Zenon DEF Inv
  <1>2. /\ pc[b] = "clear" /\ pc'[b] = "ratchet"
        /\ \A c \in Batch \ {b} : pc'[c] = pc[c] /\ ptrs'[c] = ptrs[c]
    BY Zenon, <1>1 DEF Types, ClearSlot, Goto
  <1>3. UNCHANGED <<kind, mu, head, tail, pos, logSeqNum, visibleSeqNum, seqNum,
                    applied, got, cur, memtable>>
    BY Zenon DEF ClearSlot, batchVars
  <1>4. /\ slots[SlotOf(ptrs[b].tail)] = got[b] /\ got[b] \in Batch
        /\ pos[got[b]] < tail
    BY Zenon, <1>2 DEF Inv, Clearing, Taking, Dequeuing
  <1>5. \A i \in 0..(Slots - 1) : slots[i] # got[b] => slots'[i] = slots[i]
    BY Zenon, <1>1, <1>4 DEF Types, ClearSlot
  <1>6. tail \in Nat /\ head \in Nat /\ tail <= head
    BY Zenon, <1>1 DEF Inv, Types, Indices
  <1>7. Types'
    <2>1. pc' \in [Batch -> Places]
      BY Zenon, <1>1 DEF Types, ClearSlot, Goto, Places
    <2>2. slots' \in [0..(Slots - 1) -> Batch \cup {NoBatch}]
      BY Zenon, <1>1 DEF Types, ClearSlot
    <2>3. ptrs' \in [Batch -> [head : Nat, tail : Nat]]
      BY Zenon, <1>1 DEF Types, ClearSlot, NoPtrs
    <2> QED
      BY Zenon, <1>1, <1>3, <2>1, <2>2, <2>3 DEF Types
  <1>8. Mutex' /\ Applied' /\ OwnIndex'
    BY <1>2, <1>3 DEF Inv, Mutex, Applied, OwnIndex, Dequeuing
  <1>9. Indices'
    BY Zenon, <1>2, <1>3 DEF Inv, Indices, Enqueued
  <1>10. ASSUME NEW p \in tail..(head - 1) PROVE slots'[SlotOf(p)] = slots[SlotOf(p)]
    <2>1. p \in Nat /\ ~(p < tail)
      BY <1>6
    <2>2. slots[SlotOf(p)] # got[b]
      BY Zenon, <1>4, <2>1 DEF Inv, Window
    <2> QED
      BY Zenon, <1>5, <2>1, <2>2, SlotType
  <1>11. Window'
    BY Zenon, <1>3, <1>10 DEF Inv, Window
  <1>12. Advancing'
    <2> SUFFICES ASSUME NEW c \in Batch, pc[c] = "advance", c # b
                 PROVE  slots'[SlotOf(head)] = c
      BY Zenon, <1>2, <1>3 DEF Advancing
    <2>1. slots[SlotOf(head)] = c /\ pos[c] = head
      BY Zenon DEF Inv, Advancing, Indices
    <2>2. c # got[b]
      BY <1>4, <1>6, <2>1
    <2> QED
      BY Zenon, <1>5, <1>6, <2>1, <2>2, SlotType
  <1>13. Clearing'
    <2> SUFFICES ASSUME NEW c \in Batch, pc[c] = "clear", c # b
                 PROVE  /\ slots'[SlotOf(ptrs[c].tail)] = got[c]
                        /\ pos[got[c]] = ptrs[c].tail
      BY Zenon, <1>2, <1>3 DEF Clearing
    <2>1. slots[SlotOf(ptrs[c].tail)] = got[c] /\ pos[got[c]] = ptrs[c].tail
      BY Zenon DEF Inv, Clearing
    <2>2. got[c] # got[b]
      BY Zenon, <1>2 DEF Inv, TakenOnce, Dequeuing
    <2>3. SlotOf(ptrs[c].tail) \in 0..(Slots - 1)
      BY Zenon, <1>1, SlotType DEF Types
    <2> QED
      BY Zenon, <1>5, <2>1, <2>2, <2>3
  <1>14. Looking'
    <2> SUFFICES ASSUME NEW c \in Batch, c # b PROVE Looks(c)'
      BY Zenon, <1>2 DEF Looking, Looks
    <2>1. Looks(c)
      BY Zenon DEF Inv, Looking
    <2>2. pc[c] \in {"check", "cas"} /\ ptrs[c].tail = tail => tail \in tail..(head - 1)
      <3>1. ptrs[c].head \in Nat /\ ptrs[c].tail \in Nat
        BY ZenonT(60), <1>1 DEF Types
      <3> QED
        BY <1>6, <2>1, <3>1 DEF Looks
    <2> QED
      BY Zenon, <1>2, <1>3, <1>10, <2>1, <2>2 DEF Looks
  <1>15. Taking' /\ TakenOnce' /\ DequeuedIsApplied'
    BY <1>2, <1>3 DEF Inv, Taking, TakenOnce, DequeuedIsApplied, Dequeuing
  <1>16. Below' /\ Ordered' /\ VisibleIsDequeued'
    <2>1. \A c \in Batch : Numbered(c)' <=> Numbered(c)
      BY Zenon, <1>2, <1>3 DEF Numbered
    <2> QED
      BY Zenon, <1>3, <2>1 DEF Inv, Below, Ordered, VisibleIsDequeued, EndOf
  <1> QED
    BY Zenon, <1>7, <1>8, <1>9, <1>11, <1>12, <1>13, <1>14, <1>15, <1>16 DEF Inv

LEMMA CompareAndSwapVisibleStep ==
    ASSUME Inv, NEW b \in Batch, CompareAndSwapVisible(b) PROVE Inv'
  <1>1. Types
    BY Zenon DEF Inv
  <1>2. /\ pc[b] = "publish" /\ pc'[b] \in {"ratchet", "done"}
        /\ \A c \in Batch \ {b} : pc'[c] = pc[c]
    BY Zenon, <1>1 DEF Types, CompareAndSwapVisible, Goto
  <1>3. UNCHANGED <<kind, mu, head, tail, slots, pos, logSeqNum, seqNum, applied,
                    ptrs, got, cur, memtable>>
    BY Zenon DEF CompareAndSwapVisible, queueVars, batchVars, localVars
  <1>4. got[b] \in Batch /\ pos[got[b]] \in Nat /\ pos[got[b]] < tail
    BY Zenon, <1>2 DEF Inv, Taking, Dequeuing
  <1>5. visibleSeqNum' = visibleSeqNum \/ visibleSeqNum' = EndOf(got[b])
    BY Zenon DEF CompareAndSwapVisible
  <1>6. Types'
    <2>1. pc' \in [Batch -> Places]
      <3>1. \E p \in Places : pc' = [pc EXCEPT ![b] = p]
        BY Zenon DEF CompareAndSwapVisible, Goto, Places
      <3> QED
        BY Zenon, <1>1, <3>1 DEF Types
    <2>2. visibleSeqNum' \in Nat
      BY ZenonT(60), <1>1, <1>4, <1>5, EndType DEF Types
    <2> QED
      BY Zenon, <1>1, <1>3, <2>1, <2>2 DEF Types
  <1>7. Mutex' /\ Applied' /\ OwnIndex' /\ Window'
    BY SMTT(60), <1>2, <1>3 DEF Inv, Mutex, Applied, OwnIndex, Window, Dequeuing
  <1>8. Indices' /\ Advancing' /\ Clearing'
    BY <1>2, <1>3 DEF Inv, Indices, Advancing, Clearing, Enqueued
  <1>9. Looking'
    BY Zenon, <1>2, <1>3 DEF Inv, Looking, Looks
  <1>10. Taking' /\ TakenOnce' /\ DequeuedIsApplied'
    BY <1>2, <1>3 DEF Inv, Taking, TakenOnce, DequeuedIsApplied, Dequeuing
  <1>11. \A c \in Batch : Numbered(c)' <=> Numbered(c)
    BY Zenon, <1>2, <1>3 DEF Numbered
  <1>12. Below' /\ Ordered'
    BY Zenon, <1>3, <1>11 DEF Inv, Below, Ordered, EndOf
  <1>13. VisibleIsDequeued'
    <2>1. CASE visibleSeqNum' = visibleSeqNum
      BY Zenon, <1>3, <1>11, <2>1 DEF Inv, VisibleIsDequeued
    <2>2. CASE visibleSeqNum' = EndOf(got[b])
      <3>1. Numbered(got[b])
        BY Zenon, <1>4 DEF Inv, DequeuedIsApplied, Applied, Numbered, Dequeuing
      <3>2. visibleSeqNum' <= logSeqNum
        BY Zenon, <1>4, <2>2, <3>1 DEF Inv, Below
      <3>3. ASSUME NEW c \in Batch, Numbered(c), seqNum[c] < visibleSeqNum'
            PROVE  pos[c] < tail
        <4>1. ~(EndOf(got[b]) <= seqNum[c])
          <5>1. EndOf(got[b]) \in Nat /\ seqNum[c] \in Nat
            BY Zenon, <1>1, <1>4, EndType DEF Types
          <5> QED
            BY <2>2, <3>3, <5>1
        <4>2. ~(pos[got[b]] < pos[c])
          BY Zenon, <1>4, <3>1, <3>3, <4>1 DEF Inv, Ordered
        <4>3. pos[c] \in Int /\ tail \in Nat
          BY Zenon, <1>1 DEF Types
        <4> QED
          BY <1>4, <4>2, <4>3
      <3> QED
        BY Zenon, <1>3, <1>11, <3>2, <3>3 DEF VisibleIsDequeued
    <2> QED
      BY Zenon, <1>5, <2>1, <2>2
  <1> QED
    BY Zenon, <1>6, <1>7, <1>8, <1>9, <1>10, <1>12, <1>13 DEF Inv

-----------------------------------------------------------------------------
LEMMA Unchanged == ASSUME Inv, UNCHANGED coreVars PROVE Inv'
  <1>1. UNCHANGED <<kind, pc, mu, head, tail, slots, pos, logSeqNum, visibleSeqNum,
                    seqNum, applied, ptrs, got, cur, memtable>>
    BY Zenon DEF coreVars, queueVars, localVars
  <1>2. Types' /\ Mutex' /\ Applied'
    BY Zenon, <1>1 DEF Inv, Types, Mutex, Applied
  <1>3. Indices' /\ OwnIndex' /\ Window' /\ Advancing' /\ Clearing'
    BY Zenon, <1>1 DEF Inv, Indices, OwnIndex, Window, Advancing, Clearing, Enqueued
  <1>4. Looking' /\ Taking' /\ TakenOnce' /\ DequeuedIsApplied'
    BY Zenon, <1>1 DEF Inv, Looking, Looks, Taking, TakenOnce, DequeuedIsApplied
  <1>5. Below' /\ Ordered' /\ VisibleIsDequeued'
    BY Zenon, <1>1 DEF Inv, Below, Ordered, VisibleIsDequeued, Numbered, EndOf
  <1> QED
    BY Zenon, <1>2, <1>3, <1>4, <1>5 DEF Inv

LEMMA OtherSteps == ASSUME FlushLoop \/ UNCHANGED vars PROVE UNCHANGED coreVars
  BY Zenon DEF FlushLoop, GrabWaiters, GrabData, WriteAndSync, PopWaiter, ReleaseSync,
         LogUnchanged, vars, coreVars, batchVars

LEMMA InvStep == Inv /\ [Next]_vars => Inv'
  <1> SUFFICES ASSUME Inv, [Next]_vars PROVE Inv'
    BY Zenon
  <1>1. CASE \E b \in Batch : Step(b)
    BY Zenon, <1>1, ReserveIngestStep, ReserveStep, ReserveSyncStep, LockStep, EnqueueStep,
       AdvanceHeadStep, SetSeqNumStep, DrainStep, WriteRecordStep, ApplyStep,
       MarkAppliedStep, LoadHeadTailStep, LoadSlotStep, CheckAppliedStep,
       CompareAndSwapTailStep, ClearSlotStep, LoadVisibleStep,
       CompareAndSwapVisibleStep, DoneCommitStep, ReturnStep, SyncWaitStep
    DEF Step
  <1>2. CASE FlushLoop \/ UNCHANGED vars
    BY Zenon, <1>2, OtherSteps, Unchanged
  <1> QED
    BY Zenon, <1>1, <1>2 DEF Next, Finished

\* The visible sequence number never passes a batch that is not applied.
THEOREM VisibleAlwaysApplied == Spec => []VisibleIsApplied
  <1>1. Inv => VisibleIsApplied
    <2> SUFFICES ASSUME Inv, NEW b \in Batch, Numbered(b), seqNum[b] < visibleSeqNum
                 PROVE  b \in memtable
      BY Zenon DEF VisibleIsApplied
    <2>1. pos[b] < tail
      BY Zenon DEF Inv, VisibleIsDequeued
    <2>2. pos[b] \in Nat
      BY Zenon DEF Inv, Indices, Enqueued, Numbered
    <2> QED
      BY Zenon, <2>1, <2>2 DEF Inv, DequeuedIsApplied, Applied
  <1> QED
    BY <1>1, InitInv, InvStep, PTL DEF Spec

-----------------------------------------------------------------------------
(* Nobody is left behind.                                                  *)

LEMMA OthersStay ==
    ASSUME Types, NEW b \in Batch, Step(b), NEW c \in Batch, c # b
    PROVE  pc'[c] = pc[c] /\ ptrs'[c] = ptrs[c]
  <1> USE DEF Types, Goto, localVars
  <1>1. CASE ReserveIngest(b) \/ Reserve(b) \/ ReserveSync(b) \/ Lock(b) \/ Enqueue(b)
    BY Zenon, <1>1 DEF ReserveIngest, Reserve, ReserveSync, Lock, Enqueue
  <1>2. CASE AdvanceHead(b) \/ SetSeqNum(b) \/ Drain(b) \/ WriteRecord(b)
    BY Zenon, <1>2 DEF AdvanceHead, SetSeqNum, Drain, WriteRecord
  <1>3. CASE Apply(b) \/ MarkApplied(b) \/ LoadHeadTail(b) \/ LoadSlot(b)
    BY SMTT(60), <1>3 DEF Apply, MarkApplied, LoadHeadTail, LoadSlot, LeaveDequeue
  <1>4. CASE CheckApplied(b) \/ CompareAndSwapTail(b) \/ ClearSlot(b)
    BY Zenon, <1>4 DEF CheckApplied, CompareAndSwapTail, ClearSlot, LeaveDequeue
  <1>5. CASE LoadVisible(b) \/ CompareAndSwapVisible(b) \/ DoneCommit(b)
    BY Zenon, <1>5 DEF LoadVisible, CompareAndSwapVisible, DoneCommit
  <1>6. CASE Return(b) \/ SyncWait(b)
    BY Zenon, <1>6 DEF Return, SyncWait
  <1> QED
    BY Zenon, <1>1, <1>2, <1>3, <1>4, <1>5, <1>6 DEF Step

\* Two batches at the tail are the same, and it is in the slot of the tail.
LEMMA TailSlot ==
    ASSUME Inv, NEW x \in Batch, Queued(x), pos[x] = tail
    PROVE  slots[SlotOf(tail)] = x
  <1>1. tail \in tail..(head - 1) /\ tail # -1
    BY DEF Queued, Inv, Types
  <1>2. slots[SlotOf(tail)] \in Batch /\ pos[slots[SlotOf(tail)]] = tail
    BY Zenon, <1>1 DEF Inv, Window
  <1> QED
    BY Zenon, <1>1, <1>2 DEF Inv, OwnIndex

\* A goroutine that leaves dequeueApplied to wait does not leave an applied
\* batch at the tail behind.
LEMMA NotLeftBehind ==
    ASSUME Inv, NEW b \in Batch, LooksAtTail(b),
           LoadHeadTail(b) \/ LoadSlot(b) \/ CheckApplied(b),
           NEW x \in Batch, Queued(x), pos[x] = tail, applied[x]
    PROVE  LooksAtTail(b)'
  <1>1. Types
    BY Zenon DEF Inv
  <1>2. CASE LoadHeadTail(b)
    <2>1. head # tail
      BY <1>1 DEF Queued, Types
    <2> QED
      BY <1>1, <1>2, <2>1 DEF Types, LoadHeadTail, Goto, LooksAtTail, queueVars
  <1>3. CASE LoadSlot(b)
    <2>1. ptrs[b].tail = tail
      BY Zenon, <1>3 DEF LoadSlot, LooksAtTail
    <2>2. slots[SlotOf(ptrs[b].tail)] # NoBatch
      BY Zenon, <2>1, TailSlot, PipelineAssumption
    <2> QED
      BY Zenon, <1>1, <1>3, <2>1, <2>2 DEF Types, LoadSlot, Goto, LooksAtTail, queueVars
  <1>4. CASE CheckApplied(b)
    <2>1. ptrs[b].tail = tail /\ pc[b] = "check"
      BY Zenon, <1>4 DEF CheckApplied, LooksAtTail
    <2>2. applied[got[b]]
      BY Zenon, <2>1, TailSlot DEF Inv, Looking, Looks
    <2> QED
      BY Zenon, <1>1, <1>4, <2>1, <2>2 DEF Types, CheckApplied, Goto, LooksAtTail, queueVars
  <1> QED
    BY Zenon, <1>2, <1>3, <1>4

LEMMA SomeonePublishesStep ==
    ASSUME Inv, SomeonePublishes, NEW b \in Batch, Step(b)
    PROVE  SomeonePublishes'
  <1>1. Types
    BY Zenon DEF Inv
  <1> SUFFICES ASSUME NEW x \in Batch, Queued(x)', pos'[x] = tail', applied'[x],
                      ~LooksAtTail(b)'
               PROVE  \E c \in Batch : LooksAtTail(c)'
    BY Zenon DEF SomeonePublishes
  <1>2. CASE MarkApplied(b) \/ CompareAndSwapTail(b) \/ ClearSlot(b) \/ LoadVisible(b)
             \/ CompareAndSwapVisible(b) \/ DoneCommit(b)
    <2>1. pc'[b] \in {"load", "clear", "ratchet", "publish", "done"}
      BY Zenon, <1>1, <1>2
      DEF Types, MarkApplied, CompareAndSwapTail, ClearSlot, LoadVisible,
          CompareAndSwapVisible, DoneCommit, Goto
    <2> QED
      BY Zenon, <2>1 DEF LooksAtTail
  <1>3. CASE ~(MarkApplied(b) \/ CompareAndSwapTail(b) \/ ClearSlot(b)
               \/ LoadVisible(b) \/ CompareAndSwapVisible(b) \/ DoneCommit(b))
    <2>1. tail' = tail /\ applied' = applied
      BY Zenon, <1>3
      DEF Step, ReserveIngest, Reserve, ReserveSync, Lock, Enqueue, AdvanceHead,
          SetSeqNum, Drain, WriteRecord, Apply, LoadHeadTail, LoadSlot, CheckApplied,
          Return, SyncWait, queueVars, batchVars
    <2>2. Queued(x) /\ pos[x] = tail
      <3>1. CASE Enqueue(b) \/ AdvanceHead(b)
        <4>1. ~applied[b] /\ x # b
          BY Zenon, <2>1, <3>1 DEF Inv, Applied, Dequeuing, Enqueue, AdvanceHead
        <4>2. pos'[x] = pos[x] /\ pos[x] = tail
          BY Zenon, <1>1, <2>1, <3>1, <4>1 DEF Types, Enqueue, AdvanceHead
        <4>3. pos[x] < head
          BY Zenon, <2>1, <4>2 DEF Inv, Applied, Indices, Enqueued, Dequeuing, Types
        <4> QED
          BY <1>1, <4>2, <4>3 DEF Queued, Types
      <3>2. CASE ~(Enqueue(b) \/ AdvanceHead(b))
        <4>1. UNCHANGED <<pos, head>>
          BY Zenon, <1>3, <3>2
          DEF Step, ReserveIngest, Reserve, ReserveSync, Lock, SetSeqNum, Drain,
              WriteRecord, Apply, LoadHeadTail, LoadSlot, CheckApplied, Return,
              SyncWait, queueVars
        <4> QED
          BY Zenon, <2>1, <4>1 DEF Queued
      <3> QED
        BY ZenonT(60), <3>1, <3>2
    <2>3. PICK c \in Batch : LooksAtTail(c)
      BY Zenon, <2>1, <2>2 DEF SomeonePublishes
    <2>4. c # b
      <3> SUFFICES ASSUME LooksAtTail(b) PROVE FALSE
        BY Zenon, <2>3
      <3>1. LoadHeadTail(b) \/ LoadSlot(b) \/ CheckApplied(b)
        BY Zenon, <1>3
        DEF LooksAtTail, Step, ReserveIngest, Reserve, ReserveSync, Lock, Enqueue,
            AdvanceHead, SetSeqNum, Drain, WriteRecord, Apply, Return, SyncWait
      <3> QED
        BY Zenon, <2>1, <2>2, <3>1, NotLeftBehind
    <2> QED
      BY Zenon, <1>1, <2>1, <2>3, <2>4, OthersStay DEF LooksAtTail
  <1> QED
    BY Zenon, <1>2, <1>3

\* An applied batch at the tail of the queue always has a goroutine that is
\* about to publish it.
THEOREM SomeoneAlwaysPublishes == Spec => []SomeonePublishes
  <1>1. Init => SomeonePublishes
    BY Zenon DEF Init, SomeonePublishes
  <1>2. Inv /\ SomeonePublishes /\ [Next]_vars => SomeonePublishes'
    <2> SUFFICES ASSUME Inv, SomeonePublishes, [Next]_vars PROVE SomeonePublishes'
      BY Zenon
    <2>1. CASE \E b \in Batch : Step(b)
      BY Zenon, <2>1, SomeonePublishesStep
    <2>2. CASE FlushLoop \/ UNCHANGED vars
      BY Zenon, <2>2, OtherSteps
      DEF coreVars, queueVars, localVars, SomeonePublishes, Queued, LooksAtTail
    <2> QED
      BY Zenon, <2>1, <2>2 DEF Next, Finished
  <1> QED
    BY <1>1, <1>2, InitInv, InvStep, PTL DEF Spec

-----------------------------------------------------------------------------
(* The log: its records have increasing indices, all below the index of    *)
(* the goroutine that holds the mutex and will write the next one.         *)

Numbering == {"advance", "setSeqNum", "write", "drain"}

LogInv ==
    /\ wal \in Seq(Batch)
    /\ \A i \in 1..Len(wal) : Numbered(wal[i]) /\ pc[wal[i]] \notin Numbering
    /\ \A i, j \in 1..Len(wal) : i < j => pos[wal[i]] < pos[wal[j]]
    /\ \A b \in Batch : pc[b] \in Numbering =>
          \A i \in 1..Len(wal) : pos[wal[i]] < pos[b]

LEMMA LogInvStep ==
    ASSUME Inv, LogInv, NEW b \in Batch, Step(b)
    PROVE  LogInv'
  <1>1. Types
    BY Zenon DEF Inv
  <1>2. \A c \in Batch \ {b} : pc'[c] = pc[c]
    BY Zenon, <1>1, OthersStay
  <1>3. kind' = kind /\ kind[b] # "empty"
    <2>1. pc[b] # "returned" \/ kind[b] = "noSyncWait"
      BY Zenon DEF Step, ReserveIngest, Reserve, ReserveSync, Lock, Enqueue, AdvanceHead,
             SetSeqNum, Drain, WriteRecord, Apply, MarkApplied, LoadHeadTail,
             LoadSlot, CheckApplied, CompareAndSwapTail, ClearSlot, LoadVisible,
             CompareAndSwapVisible, DoneCommit, Return, SyncWait
    <2>2. kind' = kind
      BY ZenonT(60) DEF Step, ReserveIngest, Reserve, ReserveSync, Lock, Enqueue, AdvanceHead,
             SetSeqNum, Drain, WriteRecord, Apply, MarkApplied, LoadHeadTail,
             LoadSlot, CheckApplied, CompareAndSwapTail, ClearSlot, LoadVisible,
             CompareAndSwapVisible, DoneCommit, Return, SyncWait
    <2> QED
      BY Zenon, <2>1, <2>2 DEF Inv, Applied
  <1>4. \A i \in 1..Len(wal) : wal[i] \in Batch
    BY SMTT(30) DEF LogInv
  <1>5. CASE Enqueue(b)
    <2>1. pc[b] = "enqueue" /\ wal' = wal /\ pos'[b] = head
          /\ \A c \in Batch \ {b} : pos'[c] = pos[c]
      BY Zenon, <1>1, <1>5 DEF Enqueue, logVars, Types
    <2>2. \A i \in 1..Len(wal) : wal[i] # b
      BY Zenon, <2>1 DEF LogInv, Numbered
    <2>3. \A c \in Batch \ {b} : pc[c] \notin Numbering
      BY Zenon, <2>1 DEF Inv, Mutex, Numbering
    <2>4. \A i \in 1..Len(wal) : pos[wal[i]] < head
      <3> SUFFICES ASSUME NEW i \in 1..Len(wal) PROVE pos[wal[i]] < head
        BY Zenon
      <3>1. Numbered(wal[i])
        BY Zenon DEF LogInv
      <3> QED
        BY Zenon, <1>4, <3>1 DEF Inv, Indices, Numbered, Enqueued
    <2> QED
      BY <1>2, <1>3, <1>4, <2>1, <2>2, <2>3, <2>4 DEF LogInv, Numbered
  <1>6. CASE WriteRecord(b)
    <2>1. /\ pc[b] = "write" /\ pc'[b] = "apply" /\ wal' = Append(wal, b)
          /\ pos' = pos
      BY Zenon, <1>1, <1>6 DEF WriteRecord, Goto, Types, queueVars
    <2>2. wal \in Seq(Batch)
      BY Zenon DEF LogInv
    <2>3. /\ wal' \in Seq(Batch) /\ Len(wal') = Len(wal) + 1 /\ Len(wal) \in Nat
          /\ wal'[Len(wal) + 1] = b
          /\ \A i \in 1..Len(wal) : wal'[i] = wal[i]
      BY <2>1, <2>2
    <2>4. \A i \in 1..Len(wal) : wal[i] # b
      BY Zenon, <2>1 DEF LogInv, Numbering
    <2>5. \A i \in 1..Len(wal') : i \in 1..Len(wal) \/ i = Len(wal) + 1
      BY <2>3
    <2>6. ASSUME NEW x \in Batch, NEW i \in 1..Len(wal'), wal'[i] = x
          PROVE  Numbered(x)' /\ pc'[x] \notin Numbering
      <3>1. Numbered(b)' /\ pc'[b] \notin Numbering
        BY Zenon, <1>3, <2>1 DEF Numbered, Numbering
      <3>2. ASSUME i \in 1..Len(wal)
            PROVE  Numbered(x)' /\ pc'[x] \notin Numbering
        <4>1. Numbered(x) /\ pc[x] \notin Numbering
          BY Zenon, <2>3, <2>6, <3>2 DEF LogInv
        <4>2. pc'[x] = pc[x]
          BY Zenon, <1>2, <2>3, <2>4, <2>6, <3>2
        <4> QED
          BY Zenon, <1>3, <4>1, <4>2 DEF Numbered
      <3> QED
        BY Zenon, <2>3, <2>5, <2>6, <3>1, <3>2
    <2>7. \A i, j \in 1..Len(wal') : i < j => pos[wal'[i]] < pos[wal'[j]]
      <3> SUFFICES ASSUME NEW i \in 1..Len(wal'), NEW j \in 1..Len(wal'), i < j
                   PROVE  pos[wal'[i]] < pos[wal'[j]]
        BY Zenon
      <3>1. i \in 1..Len(wal)
        BY <2>3, <2>5
      <3>2. CASE j \in 1..Len(wal)
        BY Zenon, <2>3, <3>1, <3>2 DEF LogInv
      <3>3. CASE j = Len(wal) + 1
        BY Zenon, <2>1, <2>3, <3>1, <3>3 DEF LogInv, Numbering
      <3> QED
        BY Zenon, <2>5, <3>2, <3>3
    <2>8. \A c \in Batch : pc'[c] \notin Numbering
      BY Zenon, <1>2, <2>1 DEF Inv, Mutex, Numbering
    <2>9. \A i \in 1..Len(wal') : wal'[i] \in Batch
      BY <2>3
    <2>10. \A i \in 1..Len(wal') : Numbered(wal[i])' /\ pc'[wal'[i]] \notin Numbering
      BY Zenon, <2>6, <2>9 DEF Numbered
    <2> QED
      BY Zenon, <2>1, <2>3, <2>7, <2>8, <2>10 DEF LogInv
  <1>7. CASE ~Enqueue(b) /\ ~WriteRecord(b)
    <2>1. UNCHANGED <<pos, wal>>
      BY Zenon, <1>7
      DEF Step, ReserveIngest, Reserve, ReserveSync, Lock, AdvanceHead, SetSeqNum,
          Drain, Apply, MarkApplied, LoadHeadTail, LoadSlot, CheckApplied,
          CompareAndSwapTail, ClearSlot, LoadVisible, CompareAndSwapVisible,
          DoneCommit, Return, SyncWait, queueVars, logVars
    <2>2. pc'[b] \in Numbering => pc[b] \in Numbering
      BY ZenonT(60), <1>1, <1>7
      DEF Numbering, Types, Goto, Step, ReserveIngest, Reserve, ReserveSync, Lock,
          AdvanceHead, SetSeqNum, Drain, Apply, MarkApplied, LoadHeadTail, LoadSlot,
          CheckApplied, CompareAndSwapTail, ClearSlot, LoadVisible,
          CompareAndSwapVisible, DoneCommit, Return, SyncWait
    <2>3. Numbered(b) => Numbered(b)'
      <3> USE <1>1, <1>3 DEF Numbered, Types, Goto
      <3>1. CASE \/ ReserveIngest(b) \/ Reserve(b) \/ ReserveSync(b) \/ Lock(b)
                 \/ AdvanceHead(b) \/ SetSeqNum(b)
        BY Zenon, <3>1 DEF ReserveIngest, Reserve, ReserveSync, Lock, AdvanceHead, SetSeqNum
      <3>2. CASE \/ Drain(b) \/ Apply(b) \/ MarkApplied(b) \/ LoadHeadTail(b)
                 \/ LoadSlot(b) \/ CheckApplied(b) \/ CompareAndSwapTail(b)
        BY ZenonT(60), <3>2 DEF Drain, Apply, MarkApplied, LoadHeadTail, LoadSlot,
                           CheckApplied, CompareAndSwapTail, LeaveDequeue
      <3>3. CASE \/ ClearSlot(b) \/ LoadVisible(b) \/ CompareAndSwapVisible(b)
                 \/ DoneCommit(b) \/ Return(b) \/ SyncWait(b)
        BY ZenonT(60), <3>3 DEF ClearSlot, LoadVisible, CompareAndSwapVisible, DoneCommit,
                           Return, SyncWait
      <3> QED
        BY Zenon, <1>7, <3>1, <3>2, <3>3 DEF Step
    <2>4. \A c \in Batch : /\ pc'[c] \in Numbering => pc[c] \in Numbering
                           /\ Numbered(c) => Numbered(c)'
      BY Zenon, <1>2, <1>3, <2>2, <2>3 DEF Numbered
    <2> QED
      BY Zenon, <1>4, <2>1, <2>4 DEF LogInv
  <1> QED
    BY Zenon, <1>5, <1>6, <1>7

\* The log holds the batches in the order of their sequence numbers.
THEOREM LogAlwaysInOrder == Spec => []LogInOrder
  <1>1. Init => LogInv
    BY DEF Init, LogInv, Numbering
  <1>2. Inv /\ LogInv /\ [Next]_vars => LogInv'
    <2> SUFFICES ASSUME Inv, LogInv, [Next]_vars PROVE LogInv'
      BY Zenon
    <2>1. CASE \E b \in Batch : Step(b)
      BY Zenon, <2>1, LogInvStep
    <2>2. CASE FlushLoop \/ UNCHANGED vars
      <3>1. UNCHANGED <<kind, pc, pos, wal>>
        BY Zenon, <2>2
        DEF FlushLoop, GrabWaiters, GrabData, WriteAndSync, PopWaiter, ReleaseSync,
            LogUnchanged, vars, queueVars, logVars
      <3> QED
        BY Zenon, <3>1 DEF LogInv, Numbered
    <2> QED
      BY Zenon, <2>1, <2>2 DEF Next, Finished
  <1>3. Inv /\ LogInv => LogInOrder
    <2> SUFFICES ASSUME Ordered, LogInv,
                        NEW i \in 1..Len(wal), NEW j \in 1..Len(wal), i < j
                 PROVE  EndOf(wal[i]) <= seqNum[wal[j]]
      BY Zenon DEF Inv, LogInOrder
    <2>1. wal \in Seq(Batch)
      BY Zenon DEF LogInv
    <2>2. wal[i] \in Batch /\ wal[j] \in Batch
      BY <2>1
    <2> QED
      BY Zenon, <2>2 DEF LogInv, Ordered
  <1> QED
    BY <1>1, <1>2, <1>3, InitInv, InvStep, PTL DEF Spec

-----------------------------------------------------------------------------
(* What a Commit that returned may rely on, for any number of goroutines,  *)
(* slots and failures of the log.                                          *)
(*                                                                         *)
(* The invariant is extended by what the wait groups count: exactly one    *)
(* for a batch that is not yet published, and one for a batch that still   *)
(* waits for the log. So a wait that ends means that the batch was taken   *)
(* from the queue by a goroutine that is done with it, and that flushLoop  *)
(* has popped it from the sync queue, in front of which only records that  *)
(* were on disk, or an error, could bring it.                              *)

\* Sequences: their elements, their domain, their head and tail, and one element more.
LEMMA ElementOfSeq ==
    ASSUME NEW S, NEW seq \in Seq(S), NEW n \in 1 .. Len(seq) PROVE seq[n] \in S
  BY SMT

LEMMA LenProperties ==
    ASSUME NEW S, NEW seq \in Seq(S)
    PROVE  Len(seq) \in Nat /\ seq \in [1 .. Len(seq) -> S] /\ DOMAIN seq = 1 .. Len(seq)
  BY SMT

LEMMA HeadTailProperties ==
    ASSUME NEW S, NEW s \in Seq(S), s # <<>>
    PROVE  /\ Head(s) \in S /\ Tail(s) \in Seq(S) /\ Len(Tail(s)) = Len(s) - 1
           /\ \A i \in 1 .. Len(Tail(s)) : Tail(s)[i] = s[i + 1]
  BY SMT

LEMMA AppendProperties ==
    ASSUME NEW S, NEW seq \in Seq(S), NEW elt \in S
    PROVE  /\ Append(seq, elt) \in Seq(S) /\ Append(seq, elt) # <<>>
           /\ Len(Append(seq, elt)) = Len(seq) + 1
           /\ \A i \in 1 .. Len(seq) : Append(seq, elt)[i] = seq[i]
           /\ Append(seq, elt)[Len(seq) + 1] = elt
  BY SMT

Free == {"start", "reserve"}
Held == {"reserveSync", "lock"}
Writing == {"enqueue", "advance", "setSeqNum", "write"}
Ended == {"returned", "synced", "failed", "fatal"}

Flusher == [at : {"idle", "grab", "sync", "pop", "release"},
            waiters : Nat, written : Nat, err : BOOLEAN,
            by : Batch \cup {NoBatch}, errors : Nat]

LogTypes ==
    /\ commit \in [Batch -> Int] /\ fsyncWait \in [Batch -> Int]
    /\ commitErr \in [Batch -> BOOLEAN]
    /\ wal \in Seq(Batch) /\ syncQ \in Seq(Batch)
    /\ durable \in Nat
    /\ flusher \in Flusher

\* Taken from the queue, by a goroutine that is not done with it.
Taken(b) == \E c \in Batch : pc[c] \in Dequeuing /\ got[c] = b
Publishing(b) ==
    \E c \in Batch : pc[c] \in {"clear", "ratchet", "publish"} /\ got[c] = b

Unpublished(b) == pc[b] = "enqueue" \/ tail <= pos[b] \/ Taken(b)

Waiting(b) == \E i \in 1..Len(syncQ) : syncQ[i] = b
Unsynced(b) == Syncs(b) /\ (pc[b] \in Writing \/ Waiting(b))

One(P) == IF P THEN 1 ELSE 0

\* What the wait groups of the batches count.
Counting ==
    \A b \in Batch :
        /\ commit[b] = One(Unpublished(b)) + One(kind[b] = "sync" /\ Unsynced(b))
        /\ fsyncWait[b] = One(kind[b] = "noSyncWait" /\ Unsynced(b))

Written(b) ==
    kind[b] \notin {"empty", "ingest"} /\ pc[b] \notin Free \cup Held \cup Writing
Recorded(b, n) == \E i \in 1..n : wal[i] = b

SyncQueue ==
    /\ \A i, j \in 1..Len(syncQ) : syncQ[i] = syncQ[j] => i = j
    /\ \A i \in 1..Len(syncQ) : Syncs(syncQ[i]) /\ Written(syncQ[i])
    /\ \A b \in Batch : Written(b) => Recorded(b, Len(wal))

\* The waiters flushLoop grabbed are covered by the data it grabs after them.
Flushing ==
    /\ durable <= Len(wal)
    /\ flusher.waiters <= Len(syncQ)
    /\ flusher.at = "sync" =>
          /\ durable <= flusher.written /\ flusher.written <= Len(wal)
          /\ \A i \in 1..flusher.waiters : Recorded(syncQ[i], flusher.written)
    /\ flusher.at \in {"pop", "release"} /\ ~flusher.err =>
          \A i \in 1..flusher.waiters : Recorded(syncQ[i], durable)

SyncedIsKept ==
    \A b \in Batch :
        Syncs(b) /\ Written(b) /\ ~Waiting(b) => commitErr[b] \/ Recorded(b, durable)

\* A batch that left the queue is visible, or about to be.
Published ==
    \A b \in Batch :
        pos[b] \in Nat /\ pos[b] < tail => EndOf(b) <= visibleSeqNum \/ Publishing(b)

\* Publishing makes the visible sequence number larger.
Rising == \A c \in Batch : pc[c] = "publish" => cur[c] < EndOf(got[c])

Returned ==
    \A b \in Batch :
        kind[b] # "empty" /\ pc[b] \in Ended => pos[b] < tail /\ EndOf(b) <= visibleSeqNum

Kept ==
    \A b \in Batch : SyncReturned(b) => Recorded(b, durable)

LogSide == LogTypes /\ SyncQueue /\ Flushing /\ SyncedIsKept
QueueSide == Published /\ Rising /\ Returned
\* All of it, but for the semaphore.
CommitInv == Counting /\ LogSide /\ QueueSide /\ Kept

-----------------------------------------------------------------------------
Middle == {"drain", "apply", "mark", "load", "slot", "check", "cas", "wait"}

LEMMA Regions ==
    \A p : /\ p \in Free => p \notin Held \cup Writing \cup Middle \cup Dequeuing \cup Ended
           /\ p \in Held => p \notin Writing \cup Middle \cup Dequeuing \cup Ended
           /\ p \in Writing => p \notin Middle \cup Dequeuing \cup Ended
           /\ p \in Middle => p \notin Dequeuing \cup Ended
           /\ p \in Dequeuing => p \notin Ended
  BY SMT DEF Free, Held, Writing, Middle, Dequeuing, Ended

LEMMA EnqueueRegion == "enqueue" \in Writing
  BY SMT DEF Writing

LEMMA CountingKept ==
    ASSUME Counting, UNCHANGED <<kind, commit, fsyncWait>>,
           \A c \in Batch : /\ Unpublished(c)' <=> Unpublished(c)
                            /\ Unsynced(c)' <=> Unsynced(c)
    PROVE  Counting'
  BY Zenon DEF Counting, One

LEMMA LogSideKept ==
    ASSUME LogSide, UNCHANGED <<kind, commitErr, wal, syncQ, durable, flusher>>,
           commit' \in [Batch -> Int], fsyncWait' \in [Batch -> Int],
           \A c \in Batch : Written(c)' <=> Written(c)
    PROVE  LogSide'
  <1>1. LogTypes'
    BY Zenon DEF LogSide, LogTypes
  <1>2. \A i \in 1..Len(syncQ) : syncQ[i] \in Batch
    BY Zenon, ElementOfSeq DEF LogSide, LogTypes
  <1>3. SyncQueue'
    BY Zenon, <1>2 DEF LogSide, SyncQueue, Syncs, Recorded
  <1>4. Flushing'
    BY Zenon DEF LogSide, Flushing, Recorded
  <1>5. SyncedIsKept'
    BY Zenon DEF LogSide, SyncedIsKept, Syncs, Recorded, Waiting
  <1> QED
    BY Zenon, <1>1, <1>3, <1>4, <1>5 DEF LogSide

LEMMA QueueSideKept ==
    ASSUME QueueSide, UNCHANGED <<kind, tail, visibleSeqNum>>,
           \A c \in Batch : Publishing(c) => Publishing(c)',
           \A c \in Batch : pc'[c] = "publish" =>
               /\ pc[c] = "publish" /\ got'[c] = got[c] /\ cur'[c] = cur[c]
               /\ EndOf(got[c])' = EndOf(got[c]),
           \A c \in Batch : pos'[c] \in Nat /\ pos'[c] < tail =>
               pos'[c] = pos[c] /\ EndOf(c)' = EndOf(c),
           \A c \in Batch : kind[c] # "empty" /\ pc'[c] \in Ended =>
               pc[c] \in Ended /\ pos'[c] = pos[c] /\ EndOf(c)' = EndOf(c)
    PROVE  QueueSide'
  <1>1. Published'
    BY Zenon DEF QueueSide, Published
  <1>2. Rising'
    <2> SUFFICES ASSUME NEW c \in Batch, pc'[c] = "publish"
                 PROVE  (cur[c] < EndOf(got[c]))'
      BY Zenon DEF Rising
    <2>1. cur[c] < EndOf(got[c])
      BY Zenon DEF QueueSide, Rising
    <2> QED
      BY Zenon, <2>1
  <1>3. Returned'
    BY Zenon DEF QueueSide, Returned
  <1> QED
    BY Zenon, <1>1, <1>2, <1>3 DEF QueueSide

LEMMA KeptKept ==
    ASSUME Kept, UNCHANGED kind,
           \A c \in Batch : pc'[c] \in Ended => pc'[c] = pc[c],
           \A c \in Batch : Recorded(c, durable) => Recorded(c, durable)'
    PROVE  Kept'
  <1>1. {"returned", "synced"} \subseteq Ended
    BY SMT DEF Ended
  <1> QED
    BY Zenon, <1>1 DEF Kept, SyncReturned

-----------------------------------------------------------------------------
\* A step of b that neither locks, enqueues, numbers, writes, takes, publishes
\* nor returns.
QuietStep(b) ==
    /\ UNCHANGED <<kind, tail, pos, seqNum, visibleSeqNum, commit, fsyncWait,
                   commitErr, wal, syncQ, durable, flusher>>
    /\ \A c \in Batch \ {b} : pc'[c] = pc[c] /\ got'[c] = got[c] /\ cur'[c] = cur[c]
    /\ \/ pc[b] \in Free \cup Held /\ pc'[b] \in Free \cup Held
       \/ /\ pc[b] \in Writing \ {"enqueue"}
          /\ pc'[b] \in Writing \ {"enqueue"}
       \/ pc[b] \in Middle /\ pc'[b] \in Middle
       \/ /\ pc[b] \in {"clear", "ratchet"} /\ pc'[b] \in {"clear", "ratchet"}
          /\ got'[b] = got[b]

LEMMA QuietKeeps ==
    ASSUME CommitInv, NEW b \in Batch, QuietStep(b)
    PROVE  CommitInv'
  <1> DEFINE Swaps == {"clear", "ratchet"}
  <1>1. Swaps \subseteq Dequeuing /\ "publish" \notin Swaps
    BY SMTT(30) DEF Dequeuing
  <1>2. \A c \in Batch : /\ pc'[c] \in Free \cup Held <=> pc[c] \in Free \cup Held
                         /\ pc'[c] \in Writing <=> pc[c] \in Writing
                         /\ pc'[c] = "enqueue" <=> pc[c] = "enqueue"
                         /\ pc'[c] \in Dequeuing <=> pc[c] \in Dequeuing
                         /\ pc[c] \in Dequeuing => got'[c] = got[c]
                         /\ pc'[c] \in Swaps <=> pc[c] \in Swaps
                         /\ pc'[c] \in Ended \/ pc[c] \in Ended => pc'[c] = pc[c]
                         /\ pc'[c] = "publish" <=> pc[c] = "publish"
                         /\ pc[c] = "publish" => cur'[c] = cur[c]
    BY SMT DEF QuietStep, Free, Held, Writing, Middle, Dequeuing, Ended
  <1>4. Counting'
    <2>1. \A c \in Batch : Taken(c)' <=> Taken(c)
      BY Zenon, <1>2 DEF Taken
    <2>2. \A c \in Batch : Unpublished(c)' <=> Unpublished(c)
      BY Zenon, <1>2, <2>1 DEF Unpublished, QuietStep
    <2>3. \A c \in Batch : Unsynced(c)' <=> Unsynced(c)
      BY Zenon, <1>2 DEF Unsynced, QuietStep, Syncs, Waiting
    <2> QED
      BY Zenon, <2>2, <2>3, CountingKept DEF CommitInv, QuietStep
  <1>5. LogSide'
    <2>1. \A c \in Batch : Written(c)' <=> Written(c)
      BY Zenon, <1>2 DEF Written, QuietStep
    <2> QED
      BY Zenon, <2>1, LogSideKept DEF CommitInv, QuietStep, LogSide, LogTypes
  <1>6. QueueSide'
    <2>1. UNCHANGED <<kind, tail, pos, seqNum, visibleSeqNum>>
      BY Zenon DEF QuietStep
    <2>2. \A c \in Batch : Publishing(c) => Publishing(c)'
      BY Zenon, <1>1, <1>2 DEF Publishing, Dequeuing
    <2>3. \A c : EndOf(c)' = EndOf(c)
      BY Zenon, <2>1 DEF EndOf
    <2> QED
      BY Zenon, <1>2, <2>1, <2>2, <2>3, QueueSideKept DEF CommitInv, Dequeuing
  <1>7. Kept'
    BY Zenon, <1>2, KeptKept DEF CommitInv, QuietStep, Recorded
  <1> QED
    BY Zenon, <1>4, <1>5, <1>6, <1>7 DEF CommitInv

LEMMA QuietSteps ==
    ASSUME Types, NEW b \in Batch,
           \/ ReserveIngest(b) \/ Reserve(b) \/ ReserveSync(b) \/ AdvanceHead(b) \/ Drain(b)
           \/ Apply(b) \/ MarkApplied(b) \/ LoadHeadTail(b) \/ LoadSlot(b)
           \/ CheckApplied(b) \/ ClearSlot(b)
           \/ CompareAndSwapTail(b) /\ UNCHANGED tail
    PROVE  QuietStep(b)
  <1> USE DEF Types, Goto, queueVars, localVars, batchVars, logVars, semVars
  <1>1. CASE ReserveIngest(b)
    BY SMTT(30), <1>1 DEF QuietStep, ReserveIngest, Free
  <1>11. CASE Reserve(b)
    BY SMTT(60), <1>11 DEF QuietStep, Reserve, Free, Held
  <1>2. CASE ReserveSync(b)
    BY SMTT(60), <1>2 DEF QuietStep, ReserveSync, Held
  <1>3. CASE AdvanceHead(b)
    BY SMTT(60), <1>3 DEF QuietStep, AdvanceHead, Writing
  <1>4. CASE Drain(b)
    BY SMTT(60), <1>4 DEF QuietStep, Drain, Middle
  <1>5. CASE Apply(b) \/ MarkApplied(b)
    BY SMTT(60), <1>5 DEF QuietStep, Apply, MarkApplied, Middle
  <1>6. CASE LoadHeadTail(b)
    BY SMTT(60), <1>6 DEF QuietStep, LoadHeadTail, Middle
  <1>7. CASE LoadSlot(b)
    BY SMTT(60), <1>7 DEF QuietStep, LoadSlot, LeaveDequeue, Middle
  <1>8. CASE CheckApplied(b)
    BY SMTT(60), <1>8 DEF QuietStep, CheckApplied, LeaveDequeue, Middle
  <1>9. CASE ClearSlot(b)
    BY SMTT(60), <1>9 DEF QuietStep, ClearSlot
  <1>10. CASE CompareAndSwapTail(b) /\ UNCHANGED tail
    BY SMT, <1>10 DEF QuietStep, CompareAndSwapTail, LeaveDequeue, Middle
  <1> QED
    BY ZenonT(60), <1>1, <1>2, <1>3, <1>4, <1>5, <1>6, <1>7, <1>8, <1>9, <1>10, <1>11

-----------------------------------------------------------------------------
(* The steps that count.                                                   *)

LEMMA LockKeeps ==
    ASSUME Inv, CommitInv, NEW b \in Batch, Lock(b)
    PROVE  CommitInv'
  <1>1. /\ pc[b] = "lock" /\ pc'[b] = "enqueue"
        /\ UNCHANGED <<kind, tail, pos, seqNum, visibleSeqNum, got, cur, commitErr,
                       wal, syncQ, durable, flusher>>
        /\ \A c \in Batch \ {b} : pc'[c] = pc[c]
    BY Zenon DEF Lock, Inv, Types, Goto, queueVars, localVars, logVars
  <1>2. /\ \A c \in Batch \ {b} : commit'[c] = commit[c] /\ fsyncWait'[c] = fsyncWait[c]
        /\ commit'[b] = IF kind[b] = "sync" THEN 2 ELSE 1
        /\ fsyncWait'[b] = IF kind[b] = "noSyncWait" THEN 1 ELSE 0
        /\ commit' \in [Batch -> Int] /\ fsyncWait' \in [Batch -> Int]
    <2>1. commit \in [Batch -> Int] /\ fsyncWait \in [Batch -> Int]
      BY ZenonT(30) DEF CommitInv, LogSide, LogTypes
    <2>2. /\ commit' = [commit EXCEPT ![b] = IF kind[b] = "sync" THEN 2 ELSE 1]
          /\ fsyncWait' = [fsyncWait EXCEPT ![b] = IF kind[b] = "noSyncWait" THEN 1 ELSE 0]
      BY Zenon DEF Lock
    <2> HIDE DEF CommitInv, Inv, Lock
    <2> QED
      BY SMT, <2>1, <2>2
  <1>3. /\ "lock" \in Held /\ "lock" \notin Free \cup Writing \cup Dequeuing \cup Ended
        /\ "enqueue" \in Writing
        /\ "enqueue" \notin Free \cup Held \cup Dequeuing \cup Ended
    BY SMT DEF Free, Held, Writing, Dequeuing, Ended
  <1>4. \A c \in Batch : /\ Taken(c)' <=> Taken(c)
                         /\ Publishing(c)' <=> Publishing(c)
    BY Zenon, <1>1, <1>3 DEF Taken, Publishing, Dequeuing
  <1>5. Counting'
    <2>1. ASSUME NEW c \in Batch, c # b
          PROVE  (Unpublished(c)' <=> Unpublished(c)) /\ (Unsynced(c)' <=> Unsynced(c))
      BY Zenon, <1>1, <1>4, <2>1 DEF Unpublished, Unsynced, Syncs, Waiting
    <2>2. Unpublished(b)' /\ (Unsynced(b)' <=> Syncs(b))
      BY Zenon, <1>1, <1>3 DEF Unpublished, Unsynced, Syncs
    <2>3. kind[b] \in {"sync", "noSyncWait"} <=> Syncs(b)
      BY Zenon DEF Syncs
    <2>4. /\ commit'[b] = One(Unpublished(b)') + One((kind[b] = "sync" /\ Unsynced(b))')
          /\ fsyncWait'[b] = One((kind[b] = "noSyncWait" /\ Unsynced(b))')
      BY SMT, <1>1, <1>2, <2>2, <2>3 DEF One
    <2> QED
      BY ZenonT(60), <1>1, <1>2, <2>1, <2>4 DEF Counting, One, CommitInv
  <1>6. LogSide'
    <2>1. \A c \in Batch : Written(c)' <=> Written(c)
      BY Zenon, <1>1, <1>3 DEF Written
    <2> QED
      BY Zenon, <1>1, <1>2, <2>1, LogSideKept DEF CommitInv
  <1>7. QueueSide'
    <2>1. \A c : EndOf(c)' = EndOf(c)
      BY Zenon, <1>1 DEF EndOf
    <2>2. \A c \in Batch : /\ pc'[c] \in Ended => pc[c] \in Ended
                           /\ pc'[c] = "publish" => pc[c] = "publish"
      BY Zenon, <1>1, <1>3 DEF Dequeuing
    <2> QED
      BY Zenon, <1>1, <1>4, <2>1, <2>2, QueueSideKept DEF CommitInv
  <1>8. Kept'
    BY Zenon, <1>1, <1>3, KeptKept DEF CommitInv, Recorded
  <1> QED
    BY Zenon, <1>5, <1>6, <1>7, <1>8 DEF CommitInv

LEMMA EnqueueKeeps ==
    ASSUME Inv, CommitInv, NEW b \in Batch, Enqueue(b)
    PROVE  CommitInv'
  <1>1. /\ pc[b] = "enqueue" /\ pc'[b] = "advance"
        /\ UNCHANGED <<kind, tail, seqNum, visibleSeqNum, got, cur, commit, fsyncWait,
                       commitErr, wal, syncQ, durable, flusher>>
        /\ \A c \in Batch \ {b} : pc'[c] = pc[c] /\ pos'[c] = pos[c]
        /\ pos'[b] = head
    BY Zenon DEF Enqueue, Inv, Types, Goto, localVars, logVars, batchVars
  <1>2. tail <= head /\ ~(head < tail)
    BY DEF Inv, Indices, Types
  <1>3. \A p \in {"enqueue", "advance"} :
            p \in Writing /\ p \notin Free \cup Held \cup Dequeuing \cup Ended
    BY SMT DEF Free, Held, Writing, Dequeuing, Ended
  <1>4. \A c \in Batch : /\ Taken(c)' <=> Taken(c)
                         /\ Publishing(c)' <=> Publishing(c)
    BY Zenon, <1>1, <1>3 DEF Taken, Publishing, Dequeuing
  <1>5. Counting'
    <2>1. ASSUME NEW c \in Batch PROVE Unpublished(c)' <=> Unpublished(c)
      BY Zenon, <1>1, <1>2, <1>4 DEF Unpublished
    <2>2. ASSUME NEW c \in Batch PROVE Unsynced(c)' <=> Unsynced(c)
      BY Zenon, <1>1, <1>3 DEF Unsynced, Syncs, Waiting
    <2> QED
      BY Zenon, <1>1, <2>1, <2>2, CountingKept DEF CommitInv
  <1>6. LogSide'
    <2>1. \A c \in Batch : Written(c)' <=> Written(c)
      BY Zenon, <1>1, <1>3 DEF Written
    <2> QED
      BY Zenon, <1>1, <2>1, LogSideKept DEF CommitInv, LogSide, LogTypes
  <1>7. QueueSide'
    <2>1. \A c : EndOf(c)' = EndOf(c)
      BY Zenon, <1>1 DEF EndOf
    <2>2. \A c \in Batch : /\ pc'[c] \in Ended => c # b /\ pc[c] \in Ended
                           /\ pc'[c] = "publish" => pc[c] = "publish"
      BY Zenon, <1>1, <1>3 DEF Dequeuing
    <2> QED
      BY Zenon, <1>1, <1>2, <1>4, <2>1, <2>2, QueueSideKept DEF CommitInv
  <1>8. Kept'
    BY Zenon, <1>1, <1>3, KeptKept DEF CommitInv, Recorded
  <1> QED
    BY Zenon, <1>5, <1>6, <1>7, <1>8 DEF CommitInv

LEMMA SetSeqNumKeeps ==
    ASSUME Inv, CommitInv, NEW b \in Batch, SetSeqNum(b)
    PROVE  CommitInv'
  <1>1. /\ pc[b] = "setSeqNum"
        /\ pc'[b] = IF kind[b] = "ingest" THEN "drain" ELSE "write"
        /\ UNCHANGED <<kind, tail, pos, visibleSeqNum, got, commit, fsyncWait,
                       commitErr, wal, syncQ, durable, flusher>>
        /\ \A c \in Batch \ {b} : /\ pc'[c] = pc[c] /\ seqNum'[c] = seqNum[c]
                                  /\ cur'[c] = cur[c]
    BY Zenon DEF SetSeqNum, Inv, Types, Goto, queueVars, logVars
  <1>2. ~(pos[b] < tail)
    <2>1. ~applied[b] /\ Enqueued(b)
      BY SMT, <1>1 DEF Inv, Applied, Enqueued, Dequeuing
    <2> QED
      BY Zenon, <2>1 DEF Inv, DequeuedIsApplied, Indices
  <1>3. /\ "setSeqNum" \in Writing /\ "write" \in Writing
        /\ \A p \in {"setSeqNum", "write"} : p \notin Free \cup Held
        /\ \A p \in {"setSeqNum", "write", "drain"} : p \notin Dequeuing \cup Ended
        /\ "drain" \notin Writing
        /\ \A p \in {"setSeqNum", "write", "drain"} : p # "enqueue"
    BY SMT DEF Free, Held, Writing, Dequeuing, Ended
  <1>4. \A c \in Batch : /\ Taken(c)' <=> Taken(c)
                         /\ Publishing(c)' <=> Publishing(c)
    BY Zenon, <1>1, <1>3 DEF Taken, Publishing, Dequeuing
  <1>5. Counting'
    <2>1. ASSUME NEW c \in Batch PROVE Unpublished(c)' <=> Unpublished(c)
      BY Zenon, <1>1, <1>3, <1>4 DEF Unpublished
    <2>2. Syncs(b) => kind[b] # "ingest"
      BY SMT DEF Syncs
    <2>3. ASSUME NEW c \in Batch PROVE Unsynced(c)' <=> Unsynced(c)
      BY Zenon, <1>1, <1>3, <2>2 DEF Unsynced, Syncs, Waiting
    <2> QED
      BY Zenon, <1>1, <2>1, <2>3, CountingKept DEF CommitInv
  <1>6. LogSide'
    <2>1. \A c \in Batch : Written(c)' <=> Written(c)
      BY Zenon, <1>1, <1>3 DEF Written
    <2> QED
      BY Zenon, <1>1, <2>1, LogSideKept DEF CommitInv, LogSide, LogTypes
  <1>7. QueueSide'
    <2>1. \A c \in Batch : c # b => EndOf(c)' = EndOf(c)
      BY Zenon, <1>1 DEF EndOf
    <2>2. \A c \in Batch : /\ pc'[c] \in Ended => c # b /\ pc[c] \in Ended
                           /\ pc'[c] = "publish" => c # b /\ pc[c] = "publish"
      BY Zenon, <1>1, <1>3 DEF Dequeuing
    <2>3. ASSUME NEW c \in Batch, pc'[c] = "publish"
          PROVE  EndOf(got[c])' = EndOf(got[c])
      <3>1. got[c] \in Batch /\ got[c] # b
        BY Zenon, <1>2, <2>2, <2>3 DEF Inv, Taking, Dequeuing
      <3> QED
        BY Zenon, <1>1, <3>1 DEF EndOf
    <2> QED
      BY Zenon, <1>1, <1>2, <1>4, <2>1, <2>2, <2>3, QueueSideKept DEF CommitInv
  <1>8. Kept'
    BY Zenon, <1>1, <1>3, KeptKept DEF CommitInv, Recorded
  <1> QED
    BY Zenon, <1>5, <1>6, <1>7, <1>8 DEF CommitInv

LEMMA Appended ==
    ASSUME NEW q \in Seq(Batch), NEW x \in Batch
    PROVE  /\ Append(q, x) \in Seq(Batch)
           /\ Len(q) \in Nat /\ Len(Append(q, x)) = Len(q) + 1
           /\ \A i \in 1..(Len(q) + 1) : i \in 1..Len(q) \/ i = Len(q) + 1
           /\ \A i \in 1..Len(q) : i \in 1..(Len(q) + 1) /\ Append(q, x)[i] = q[i]
           /\ Len(q) + 1 \in 1..(Len(q) + 1) /\ Append(q, x)[Len(q) + 1] = x
           /\ \A n \in Nat : n <= Len(q) => n <= Len(q) + 1
  <1>1. Len(q) \in Nat
    BY Zenon, LenProperties
  <1>2. /\ \A i \in 1..(Len(q) + 1) : i \in 1..Len(q) \/ i = Len(q) + 1
        /\ \A i \in 1..Len(q) : i \in 1..(Len(q) + 1)
        /\ Len(q) + 1 \in 1..(Len(q) + 1)
        /\ \A n \in Nat : n <= Len(q) => n <= Len(q) + 1
    BY <1>1
  <1>3. /\ Append(q, x) \in Seq(Batch) /\ Len(Append(q, x)) = Len(q) + 1
        /\ \A i \in 1..Len(q) : Append(q, x)[i] = q[i]
        /\ Append(q, x)[Len(q) + 1] = x
    BY SMT, AppendProperties
  <1> QED
    BY Zenon, <1>1, <1>2, <1>3

LEMMA Less == \A n \in Nat : n # -1
  OBVIOUS

LEMMA Prefix == \A m, n \in Nat : m <= n => 1..m \subseteq 1..n
  OBVIOUS

LEMMA WriteRecordKeeps ==
    ASSUME Inv, CommitInv, NEW b \in Batch, WriteRecord(b)
    PROVE  CommitInv'
  <1>1. /\ pc[b] = "write" /\ pc'[b] = "apply"
        /\ UNCHANGED <<kind, tail, pos, seqNum, visibleSeqNum, got, cur, commit,
                       fsyncWait, commitErr, durable, flusher>>
        /\ \A c \in Batch \ {b} : pc'[c] = pc[c]
        /\ wal' = Append(wal, b)
        /\ syncQ' = IF Syncs(b) THEN Append(syncQ, b) ELSE syncQ
    BY Zenon DEF WriteRecord, Push, Inv, Types, Goto, queueVars, localVars, batchVars
  <1>2. /\ LogTypes /\ SyncQueue /\ Flushing /\ SyncedIsKept
        /\ wal \in Seq(Batch) /\ syncQ \in Seq(Batch) /\ durable \in Nat
        /\ flusher.waiters \in Nat /\ flusher.written \in Nat
        /\ Len(wal) \in Nat /\ Len(syncQ) \in Nat
    <2>1. LogTypes /\ SyncQueue /\ Flushing /\ SyncedIsKept
      BY Zenon DEF CommitInv, LogSide
    <2>2. flusher.waiters \in Nat /\ flusher.written \in Nat
      BY SMT, <2>1 DEF LogTypes, Flusher
    <2> QED
      BY Zenon, <2>1, <2>2, LenProperties DEF LogTypes
  <1>3. /\ "write" \in Writing
        /\ \A p \in {"write", "apply"} : p \notin Free \cup Held \cup Dequeuing \cup Ended
        /\ "apply" \notin Writing
        /\ \A p \in {"write", "apply"} : p # "enqueue"
    BY SMT DEF Free, Held, Writing, Dequeuing, Ended
  <1>4. \A c \in Batch : /\ Taken(c)' <=> Taken(c)
                         /\ Publishing(c)' <=> Publishing(c)
    BY Zenon, <1>1, <1>3 DEF Taken, Publishing, Dequeuing
  <1>5. /\ \A n \in Nat, c \in Batch : n <= Len(wal) /\ Recorded(c, n) => Recorded(c, n)'
        /\ Recorded(b, Len(wal))' /\ Len(wal) <= Len(wal')
        /\ \A c \in Batch : Recorded(c, Len(wal)) => Recorded(c, Len(wal))'
    <2>1. /\ Len(wal') = Len(wal) + 1
          /\ \A i \in 1..Len(wal) : i \in 1..Len(wal') /\ wal'[i] = wal[i]
          /\ Len(wal') \in 1..Len(wal') /\ wal'[Len(wal')] = b
      <3>1. wal' = Append(wal, b) /\ wal \in Seq(Batch)
        BY Zenon, <1>1, <1>2
      <3>2. Len(wal') = Len(wal) + 1
        BY Zenon, <3>1, Appended
      <3>3. \A i \in 1..Len(wal) : i \in 1..(Len(wal) + 1) /\ wal'[i] = wal[i]
        BY Zenon, <3>1, Appended
      <3>4. Len(wal) + 1 \in 1..(Len(wal) + 1) /\ wal'[Len(wal) + 1] = b
        BY Zenon, <3>1, Appended
      <3> QED
        BY Zenon, <3>2, <3>3, <3>4
    <2>2. Len(wal) <= Len(wal')
      BY <1>2, <2>1
    <2>3. ASSUME NEW n \in Nat, NEW c \in Batch, n <= Len(wal), Recorded(c, n)
          PROVE  Recorded(c, n)'
      <3>1. 1..n \subseteq 1..Len(wal)
        BY Zenon, <1>2, <2>3, Prefix
      <3> QED
        BY Zenon, <2>1, <2>3, <3>1 DEF Recorded
    <2>4. Recorded(b, Len(wal))'
      BY Zenon, <2>1 DEF Recorded
    <2>5. \A c \in Batch : Recorded(c, Len(wal)) => Recorded(c, Len(wal))'
      BY Zenon, <2>1 DEF Recorded
    <2> QED
      BY Zenon, <2>2, <2>3, <2>4, <2>5
  <1>6. /\ \A c \in Batch : Written(c) => Written(c)'
        /\ \A c \in Batch : c # b => (Written(c)' <=> Written(c))
        /\ ~Written(b)
    BY Zenon, <1>1, <1>3 DEF Written
  <1>7. ~Waiting(b)
    BY Zenon, <1>2, <1>6 DEF SyncQueue, Waiting
  <1>8. /\ syncQ' \in Seq(Batch)
        /\ \A i \in 1..Len(syncQ') : \/ i \in 1..Len(syncQ) /\ syncQ'[i] = syncQ[i]
                                     \/ i = Len(syncQ) + 1 /\ syncQ'[i] = b /\ Syncs(b)
        /\ \A i \in 1..Len(syncQ) : i \in 1..Len(syncQ') /\ syncQ'[i] = syncQ[i]
        /\ Len(syncQ) <= Len(syncQ')
        /\ Syncs(b) => Waiting(b)'
    <2>1. CASE Syncs(b)
      <3>1. syncQ' = Append(syncQ, b)
        BY Zenon, <1>1, <2>1
      <3>2. /\ syncQ' \in Seq(Batch) /\ Len(syncQ') = Len(syncQ) + 1
            /\ \A i \in 1..Len(syncQ') : i \in 1..Len(syncQ) \/ i = Len(syncQ) + 1
            /\ \A i \in 1..Len(syncQ) : i \in 1..Len(syncQ') /\ syncQ'[i] = syncQ[i]
            /\ Len(syncQ') \in 1..Len(syncQ') /\ syncQ'[Len(syncQ) + 1] = b
        BY ZenonT(60), <1>2, <3>1, Appended
      <3>3. Len(syncQ) <= Len(syncQ')
        BY <1>2, <3>2
      <3> QED
        BY Zenon, <2>1, <3>2, <3>3 DEF Waiting
    <2>2. CASE ~Syncs(b)
      <3>1. Len(syncQ) <= Len(syncQ)
        BY <1>2
      <3> QED
        BY Zenon, <1>1, <1>2, <2>2, <3>1
    <2> QED
      BY Zenon, <2>1, <2>2
  <1>9. /\ \A c \in Batch : c # b => (Waiting(c)' <=> Waiting(c))
        /\ Waiting(b)' <=> Syncs(b)
    BY Zenon, <1>7, <1>8 DEF Waiting
  <1>10. Counting'
    <2>1. ASSUME NEW c \in Batch PROVE Unpublished(c)' <=> Unpublished(c)
      BY Zenon, <1>1, <1>3, <1>4 DEF Unpublished
    <2>2. ASSUME NEW c \in Batch PROVE Unsynced(c)' <=> Unsynced(c)
      BY Zenon, <1>1, <1>3, <1>9 DEF Unsynced, Syncs
    <2> QED
      BY Zenon, <1>1, <2>1, <2>2, CountingKept DEF CommitInv
  <1>11. LogSide'
    <2>1. wal' \in Seq(Batch) /\ Len(wal') \in Nat /\ Len(syncQ') \in Nat
      BY Zenon, <1>1, <1>2, <1>8, Appended, LenProperties
    <2>2. LogTypes'
      BY Zenon, <1>1, <1>2, <1>8, <2>1 DEF LogTypes
    <2>3. SyncQueue'
      <3>1. ASSUME NEW i \in 1..Len(syncQ'), NEW j \in 1..Len(syncQ'), syncQ'[i] = syncQ'[j]
            PROVE  i = j
        BY Zenon, <1>2, <1>7, <1>8, <3>1 DEF SyncQueue, Waiting
      <3>2. ASSUME NEW i \in 1..Len(syncQ')
            PROVE  Syncs(syncQ[i])' /\ Written(syncQ[i])'
        <4>1. CASE i \in 1..Len(syncQ) /\ syncQ'[i] = syncQ[i]
          <5>1. syncQ[i] \in Batch
            BY Zenon, <1>2, <4>1, ElementOfSeq
          <5>2. Syncs(syncQ[i]) /\ Written(syncQ[i])
            BY Zenon, <1>2, <4>1 DEF SyncQueue
          <5> QED
            BY Zenon, <1>1, <1>6, <4>1, <5>1, <5>2 DEF Syncs
        <4>2. CASE i = Len(syncQ) + 1 /\ syncQ'[i] = b /\ Syncs(b)
          <5>1. Written(b)'
            BY Zenon, <1>1, <1>3, <4>2 DEF Syncs, Written
          <5> QED
            BY Zenon, <1>1, <4>2, <5>1 DEF Syncs
        <4> QED
          BY Zenon, <1>8, <3>2, <4>1, <4>2
      <3>3. \A c \in Batch : Written(c)' => Recorded(c, Len(wal))'
        BY Zenon, <1>2, <1>5, <1>6 DEF SyncQueue
      <3> QED
        BY Zenon, <3>1, <3>2, <3>3 DEF SyncQueue
    <2>4. Flushing'
      <3>1. durable <= Len(wal') /\ flusher.waiters <= Len(syncQ')
        BY Zenon, <1>2, <1>5, <1>8, <2>1, Transitive DEF Flushing
      <3>2. ASSUME NEW i \in 1..flusher.waiters, NEW n \in Nat, n <= Len(wal),
                   Recorded(syncQ[i], n)
            PROVE  \E j \in 1..n : wal'[j] = syncQ'[i]
        <4>1. i \in 1..Len(syncQ)
          BY Zenon, <1>2, Prefix DEF Flushing
        <4>2. syncQ[i] \in Batch /\ syncQ'[i] = syncQ[i]
          BY Zenon, <1>2, <1>8, <4>1, ElementOfSeq
        <4>3. PICK x \in Batch : x = syncQ[i]
          BY Zenon, <4>2
        <4>4. Recorded(x, n)'
          BY Zenon, <1>5, <3>2, <4>3
        <4> QED
          BY Zenon, <4>2, <4>3, <4>4 DEF Recorded
      <3>3. ASSUME flusher.at = "sync"
            PROVE  /\ durable <= flusher.written /\ flusher.written <= Len(wal')
                   /\ \A i \in 1..flusher.waiters :
                         \E j \in 1..flusher.written : wal'[j] = syncQ'[i]
        <4>1. /\ durable <= flusher.written /\ flusher.written <= Len(wal)
              /\ \A i \in 1..flusher.waiters : Recorded(syncQ[i], flusher.written)
          BY Zenon, <1>2, <3>3 DEF Flushing
        <4> QED
          BY Zenon, <1>2, <1>5, <2>1, <3>2, <4>1, Transitive
      <3>4. ASSUME flusher.at \in {"pop", "release"}, ~flusher.err
            PROVE  \A i \in 1..flusher.waiters : \E j \in 1..durable : wal'[j] = syncQ'[i]
        BY Zenon, <1>2, <3>2, <3>4 DEF Flushing
      <3> QED
        BY Zenon, <1>1, <3>1, <3>3, <3>4 DEF Flushing, Recorded
    <2>5. SyncedIsKept'
      <3> SUFFICES ASSUME NEW c \in Batch, Syncs(c)', Written(c)', ~Waiting(c)'
                   PROVE  commitErr'[c] \/ Recorded(c, durable)'
        BY Zenon DEF SyncedIsKept
      <3>1. c # b /\ Syncs(c) /\ Written(c) /\ ~Waiting(c)
        BY Zenon, <1>1, <1>6, <1>9 DEF Syncs
      <3>2. commitErr[c] \/ Recorded(c, durable)
        BY Zenon, <1>2, <3>1 DEF SyncedIsKept
      <3>3. Recorded(c, durable) => Recorded(c, durable)'
        BY ZenonT(60), <1>1, <1>2, <1>5 DEF Flushing, Recorded
      <3> QED
        BY Zenon, <1>1, <3>2, <3>3
    <2> QED
      BY Zenon, <2>2, <2>3, <2>4, <2>5 DEF LogSide
  <1>12. QueueSide'
    <2>1. \A c : EndOf(c)' = EndOf(c)
      BY Zenon, <1>1 DEF EndOf
    <2>2. \A c \in Batch : /\ pc'[c] \in Ended => pc[c] \in Ended
                           /\ pc'[c] = "publish" => pc[c] = "publish"
      BY Zenon, <1>1, <1>3 DEF Dequeuing
    <2> QED
      BY Zenon, <1>1, <1>4, <2>1, <2>2, QueueSideKept DEF CommitInv
  <1>13. Kept'
    <2>1. \A c \in Batch : Recorded(c, durable) => Recorded(c, durable)'
      BY ZenonT(60), <1>1, <1>2, <1>5 DEF Flushing, Recorded
    <2> QED
      BY Zenon, <1>1, <1>3, <2>1, KeptKept DEF CommitInv
  <1> QED
    BY Zenon, <1>10, <1>11, <1>12, <1>13 DEF CommitInv

\* Steps of b in dequeueApplied and publish leave the log alone.
LEMMA LogUntouched ==
    ASSUME CommitInv, NEW b \in Batch, kind' = kind,
           UNCHANGED <<commitErr, wal, syncQ, durable, flusher>>,
           commit' \in [Batch -> Int], fsyncWait' \in [Batch -> Int],
           \A c \in Batch \ {b} : pc'[c] = pc[c],
           pc[b] \in Middle \cup Dequeuing, pc'[b] \in Middle \cup Dequeuing
    PROVE  /\ LogSide' /\ Kept'
           /\ \A c \in Batch : Unsynced(c)' <=> Unsynced(c)
           /\ \A c \in Batch : pc'[c] = "enqueue" <=> pc[c] = "enqueue"
           /\ \A c \in Batch : pc'[c] \in Ended => c # b /\ pc[c] \in Ended
  <1>1. \A p \in Middle \cup Dequeuing :
            p \notin Free \cup Held \cup Writing \cup Ended
    BY Zenon, Regions
  <1>2. LogSide'
    <2>1. \A c \in Batch : Written(c)' <=> Written(c)
      BY Zenon, <1>1 DEF Written
    <2> QED
      BY Zenon, <2>1, LogSideKept DEF CommitInv
  <1>3. Kept'
    BY Zenon, <1>1, KeptKept DEF CommitInv, Recorded
  <1>4. \A c \in Batch : Unsynced(c)' <=> Unsynced(c)
    BY Zenon, <1>1 DEF Unsynced, Syncs, Waiting
  <1>5. \A c \in Batch : pc'[c] = "enqueue" <=> pc[c] = "enqueue"
    BY Zenon, <1>1, EnqueueRegion
  <1> QED
    BY Zenon, <1>1, <1>2, <1>3, <1>4, <1>5

LEMMA TakeTailKeeps ==
    ASSUME Inv, CommitInv, NEW b \in Batch, CompareAndSwapTail(b), tail' # tail
    PROVE  CommitInv'
  <1>1. /\ pc[b] = "cas" /\ pc'[b] = "clear" /\ tail' = tail + 1
        /\ ptrs[b] = [head |-> head, tail |-> tail]
        /\ UNCHANGED <<kind, pos, seqNum, visibleSeqNum, got, cur, commit, fsyncWait,
                       commitErr, wal, syncQ, durable, flusher>>
        /\ \A c \in Batch \ {b} : pc'[c] = pc[c]
    BY Zenon DEF CompareAndSwapTail, Inv, Types, Goto, logVars, batchVars
  <1>2. /\ got[b] \in Batch /\ pos[got[b]] = tail
        /\ tail \in Nat /\ tail # -1 /\ pos \in [Batch -> Int]
    <2>1. tail \in Nat /\ pos \in [Batch -> Int]
      BY Zenon DEF Inv, Types
    <2> QED
      BY Zenon, <1>1, <2>1, TakesTheTail, Less
  <1>3. PICK x \in Batch : x = got[b]
    BY Zenon, <1>2
  <1>4. \A c \in Batch : c # x => pos[c] # tail
    BY Zenon, <1>2, <1>3 DEF Inv, OwnIndex
  <1>5. /\ "cas" \in Middle /\ "cas" \notin Dequeuing
        /\ "clear" \in Dequeuing /\ "clear" # "publish"
    BY SMTT(60) DEF Middle, Dequeuing
  <1>6. \A c \in Batch : /\ pos[c] \in Int
                         /\ c # x => (tail' <= pos[c] <=> tail <= pos[c])
                         /\ c # x => (pos[c] < tail' <=> pos[c] < tail)
                         /\ tail <= pos[c] => ~(pos[c] < tail)
    BY SMT, <1>1, <1>2, <1>4
  <1>7. /\ \A c \in Batch : c # x => (Taken(c)' <=> Taken(c))
        /\ Taken(x)' /\ Publishing(x)'
        /\ \A c \in Batch : Publishing(c) => Publishing(c)'
    BY Zenon, <1>1, <1>3, <1>5 DEF Taken, Publishing
  <1>8. tail <= pos[x]
    BY SMT, <1>2, <1>3
  <1>9. /\ LogSide' /\ Kept'
        /\ \A c \in Batch : Unsynced(c)' <=> Unsynced(c)
        /\ \A c \in Batch : pc'[c] = "enqueue" <=> pc[c] = "enqueue"
        /\ \A c \in Batch : pc'[c] \in Ended => c # b /\ pc[c] \in Ended
    BY Zenon, <1>1, <1>5, LogUntouched DEF CommitInv, LogSide, LogTypes
  <1>10. Counting'
    <2>1. \A c \in Batch : Unpublished(c)' <=> Unpublished(c)
      BY Zenon, <1>1, <1>6, <1>7, <1>8, <1>9 DEF Unpublished
    <2> QED
      BY Zenon, <1>1, <1>9, <2>1, CountingKept DEF CommitInv
  <1>11. QueueSide'
    <2>1. \A c : EndOf(c)' = EndOf(c)
      BY Zenon, <1>1 DEF EndOf
    <2>2. Published'
      BY Zenon, <1>1, <1>6, <1>7, <2>1 DEF CommitInv, QueueSide, Published
    <2>3. Rising'
      BY ZenonT(60), <1>1, <1>5, <2>1 DEF CommitInv, QueueSide, Rising, EndOf
    <2>4. \A c \in Batch : pos[c] < tail => pos[c] < tail'
      BY SMT, <1>1, <1>2
    <2>5. Returned'
      BY Zenon, <1>1, <1>9, <2>1, <2>4 DEF CommitInv, QueueSide, Returned
    <2> QED
      BY Zenon, <2>2, <2>3, <2>5 DEF QueueSide
  <1> QED
    BY Zenon, <1>9, <1>10, <1>11 DEF CommitInv

LEMMA LoadVisibleKeeps ==
    ASSUME Inv, CommitInv, NEW b \in Batch, LoadVisible(b)
    PROVE  CommitInv'
  <1>1. /\ pc[b] = "ratchet" /\ cur'[b] = visibleSeqNum
        /\ pc'[b] = IF EndOf(got[b]) <= visibleSeqNum THEN "done" ELSE "publish"
        /\ UNCHANGED <<kind, tail, pos, seqNum, visibleSeqNum, got, commit, fsyncWait,
                       commitErr, wal, syncQ, durable, flusher>>
        /\ \A c \in Batch \ {b} : pc'[c] = pc[c] /\ cur'[c] = cur[c]
    BY Zenon DEF LoadVisible, Inv, Types, Goto, queueVars, logVars, batchVars
  <1>2. \A p \in {"ratchet", "done", "publish"} : p \in Dequeuing
    BY SMT DEF Dequeuing
  <1>3. /\ LogSide' /\ Kept'
        /\ \A c \in Batch : Unsynced(c)' <=> Unsynced(c)
        /\ \A c \in Batch : pc'[c] = "enqueue" <=> pc[c] = "enqueue"
        /\ \A c \in Batch : pc'[c] \in Ended => c # b /\ pc[c] \in Ended
    BY Zenon, <1>1, <1>2, LogUntouched DEF CommitInv, LogSide, LogTypes
  <1>4. Counting'
    <2>1. \A c \in Batch : Taken(c)' <=> Taken(c)
      BY Zenon, <1>1, <1>2 DEF Taken
    <2>2. \A c \in Batch : Unpublished(c)' <=> Unpublished(c)
      BY Zenon, <1>1, <1>3, <2>1 DEF Unpublished
    <2> QED
      BY Zenon, <1>1, <1>3, <2>2, CountingKept DEF CommitInv
  <1>5. QueueSide'
    <2>1. \A c : EndOf(c)' = EndOf(c)
      BY Zenon, <1>1 DEF EndOf
    <2>2. \A c \in Batch : Publishing(c) => Publishing(c)' \/ EndOf(c) <= visibleSeqNum
      BY Zenon, <1>1 DEF Publishing
    <2>3. Published'
      BY Zenon, <1>1, <2>1, <2>2 DEF CommitInv, QueueSide, Published
    <2>4. pc'[b] = "publish" => visibleSeqNum < EndOf(got[b])
      <3>1. got[b] \in Batch /\ Types
        BY Zenon, <1>1, <1>2 DEF Inv, Taking
      <3>2. EndOf(got[b]) \in Nat /\ visibleSeqNum \in Nat
        BY Zenon, <3>1, EndType DEF Types
      <3> QED
        BY SMT, <1>1, <3>2
    <2>5. Rising'
      BY Zenon, <1>1, <2>1, <2>4 DEF CommitInv, QueueSide, Rising, EndOf
    <2>6. Returned'
      BY Zenon, <1>1, <1>3, <2>1 DEF CommitInv, QueueSide, Returned
    <2> QED
      BY Zenon, <2>3, <2>5, <2>6 DEF QueueSide
  <1> QED
    BY Zenon, <1>3, <1>4, <1>5 DEF CommitInv

LEMMA PublishKeeps ==
    ASSUME Inv, CommitInv, NEW b \in Batch, CompareAndSwapVisible(b)
    PROVE  CommitInv'
  <1>1. /\ pc[b] = "publish"
        /\ \/ visibleSeqNum = cur[b] /\ visibleSeqNum' = EndOf(got[b]) /\ pc'[b] = "done"
           \/ visibleSeqNum' = visibleSeqNum /\ pc'[b] = "ratchet"
        /\ UNCHANGED <<kind, tail, pos, seqNum, got, cur, commit, fsyncWait, commitErr,
                       wal, syncQ, durable, flusher>>
        /\ \A c \in Batch \ {b} : pc'[c] = pc[c]
    BY Zenon DEF CompareAndSwapVisible, Inv, Types, Goto, queueVars, localVars,
                 logVars, batchVars
  <1>2. \A p \in {"ratchet", "done", "publish"} : p \in Dequeuing
    BY SMT DEF Dequeuing
  <1>3. /\ LogSide' /\ Kept'
        /\ \A c \in Batch : Unsynced(c)' <=> Unsynced(c)
        /\ \A c \in Batch : pc'[c] = "enqueue" <=> pc[c] = "enqueue"
        /\ \A c \in Batch : pc'[c] \in Ended => c # b /\ pc[c] \in Ended
    BY Zenon, <1>1, <1>2, LogUntouched DEF CommitInv, LogSide, LogTypes
  <1>4. Counting'
    <2>1. \A c \in Batch : Taken(c)' <=> Taken(c)
      BY Zenon, <1>1, <1>2 DEF Taken
    <2>2. \A c \in Batch : Unpublished(c)' <=> Unpublished(c)
      BY Zenon, <1>1, <1>3, <2>1 DEF Unpublished
    <2> QED
      BY Zenon, <1>1, <1>3, <2>2, CountingKept DEF CommitInv
  <1>5. /\ got[b] \in Batch /\ EndOf(got[b]) \in Nat
        /\ visibleSeqNum \in Nat /\ visibleSeqNum' \in Nat
        /\ visibleSeqNum <= visibleSeqNum'
    <2>1. got[b] \in Batch /\ Types
      BY Zenon, <1>1, <1>2 DEF Inv, Taking
    <2>2. EndOf(got[b]) \in Nat /\ visibleSeqNum \in Nat
      BY Zenon, <2>1, EndType DEF Types
    <2>3. cur[b] < EndOf(got[b])
      BY Zenon, <1>1 DEF CommitInv, QueueSide, Rising
    <2> QED
      BY SMT, <1>1, <2>1, <2>2, <2>3
  <1>6. \A c \in Batch : EndOf(c) <= visibleSeqNum => EndOf(c) <= visibleSeqNum'
    BY Zenon, <1>5, EndType, Transitive DEF Inv
  <1>7. QueueSide'
    <2>1. \A c : EndOf(c)' = EndOf(c)
      BY Zenon, <1>1 DEF EndOf
    <2>2. EndOf(got[b]) <= EndOf(got[b])
      BY SMT, <1>5
    <2>3. \A c \in Batch : Publishing(c) => Publishing(c)' \/ EndOf(c) <= visibleSeqNum'
      BY Zenon, <1>1, <2>2 DEF Publishing
    <2>4. Published'
      BY Zenon, <1>1, <1>6, <2>1, <2>3 DEF CommitInv, QueueSide, Published
    <2>5. Rising'
      BY Zenon, <1>1, <2>1 DEF CommitInv, QueueSide, Rising, EndOf
    <2>6. Returned'
      BY Zenon, <1>1, <1>3, <1>6, <2>1 DEF CommitInv, QueueSide, Returned
    <2> QED
      BY Zenon, <2>4, <2>5, <2>6 DEF QueueSide
  <1> QED
    BY Zenon, <1>3, <1>4, <1>7 DEF CommitInv

LEMMA DoneCommitKeeps ==
    ASSUME Inv, CommitInv, NEW b \in Batch, DoneCommit(b)
    PROVE  CommitInv'
  <1>1. PICK x \in Batch : x = got[b]
    BY Zenon DEF DoneCommit, Inv, Taking, Dequeuing
  <1>2. /\ pc[b] = "done" /\ pc'[b] = "load" /\ got'[b] = NoBatch
        /\ commit' = [commit EXCEPT ![x] = @ - 1]
        /\ UNCHANGED <<kind, tail, pos, seqNum, visibleSeqNum, fsyncWait, commitErr,
                       wal, syncQ, durable, flusher>>
        /\ \A c \in Batch \ {b} : pc'[c] = pc[c] /\ got'[c] = got[c] /\ cur'[c] = cur[c]
    BY Zenon, <1>1 DEF DoneCommit, Inv, Types, Goto, queueVars, logVars
  <1>3. /\ commit \in [Batch -> Int] /\ commit' \in [Batch -> Int]
        /\ fsyncWait' \in [Batch -> Int]
        /\ \A c \in Batch \ {x} : commit'[c] = commit[c]
        /\ commit'[x] = commit[x] - 1
    BY SMT, <1>2 DEF CommitInv, LogSide, LogTypes
  <1>4. /\ "done" \in Dequeuing /\ "load" \in Middle /\ "load" \notin Dequeuing
        /\ "done" \notin {"clear", "ratchet", "publish"}
        /\ "load" \notin {"clear", "ratchet", "publish"}
    BY SMT DEF Dequeuing, Middle
  <1>5. /\ LogSide' /\ Kept'
        /\ \A c \in Batch : Unsynced(c)' <=> Unsynced(c)
        /\ \A c \in Batch : pc'[c] = "enqueue" <=> pc[c] = "enqueue"
        /\ \A c \in Batch : pc'[c] \in Ended => c # b /\ pc[c] \in Ended
    BY ZenonT(60), <1>2, <1>3, <1>4, LogUntouched
  <1>6. Counting'
    <2>1. /\ Taken(x) /\ ~Taken(x)'
          /\ \A c \in Batch : c # x => (Taken(c)' <=> Taken(c))
      <3>1. Taken(x)
        BY Zenon, <1>1, <1>2, <1>4 DEF Taken
      <3>2. ~Taken(x)'
        <4>1. ASSUME NEW c \in Batch, c # b, pc[c] \in Dequeuing PROVE got[c] # x
          BY Zenon, <1>1, <1>2, <1>4, <4>1 DEF Inv, TakenOnce
        <4> QED
          BY Zenon, <1>2, <1>4, <4>1 DEF Taken
      <3>3. ASSUME NEW c \in Batch, c # x PROVE Taken(c)' <=> Taken(c)
        BY Zenon, <1>1, <1>2, <1>4, <3>3 DEF Taken
      <3> QED
        BY Zenon, <3>1, <3>2, <3>3
    <2>2. ~(tail <= pos[x]) /\ pc[x] # "enqueue"
      <3>1. pos[x] \in Nat /\ pos[x] < tail /\ tail \in Nat
        BY Zenon, <1>1, <1>2, <1>4 DEF Inv, Taking, Types
      <3>2. pos[x] # -1 /\ ~(tail <= pos[x])
        BY SMT, <3>1
      <3> QED
        BY Zenon, <3>2 DEF Inv, Indices, Enqueued
    <2>3. /\ Unpublished(x) /\ ~Unpublished(x)'
          /\ \A c \in Batch : c # x => (Unpublished(c)' <=> Unpublished(c))
      BY Zenon, <1>2, <1>5, <2>1, <2>2 DEF Unpublished
    <2>4. commit[x] = 1 + One(kind[x] = "sync" /\ Unsynced(x))
      BY Zenon, <2>3 DEF CommitInv, Counting, One
    <2>5. commit'[x] = 0 + One(kind[x] = "sync" /\ Unsynced(x))
      BY SMT, <1>3, <2>4 DEF One
    <2>6. ASSUME NEW c \in Batch
          PROVE  /\ commit'[c] = One(Unpublished(c)') + One(kind'[c] = "sync" /\ Unsynced(c)')
                 /\ fsyncWait'[c] = One(kind'[c] = "noSyncWait" /\ Unsynced(c)')
      <3>1. CASE c = x
        BY Zenon, <1>2, <1>5, <2>3, <2>5, <3>1 DEF CommitInv, Counting, One
      <3>2. CASE c # x
        BY Zenon, <1>2, <1>3, <1>5, <2>3, <3>2 DEF CommitInv, Counting, One
      <3> QED
        BY Zenon, <3>1, <3>2
    <2> QED
      BY Zenon, <2>6 DEF Counting, One
  <1>7. QueueSide'
    <2>1. \A c : EndOf(c)' = EndOf(c)
      BY Zenon, <1>2 DEF EndOf
    <2>2. \A c \in Batch : Publishing(c) => Publishing(c)'
      BY Zenon, <1>2, <1>4 DEF Publishing
    <2>3. \A c \in Batch : pc'[c] = "publish" => c # b /\ pc[c] = "publish"
      BY Zenon, <1>2, <1>4
    <2>4. ASSUME NEW c \in Batch, pc'[c] = "publish" PROVE EndOf(got[c])' = EndOf(got[c])
      BY Zenon, <1>2, <2>3, <2>4 DEF EndOf
    <2> QED
      BY ZenonT(60), <1>2, <1>5, <2>1, <2>2, <2>3, <2>4, QueueSideKept DEF CommitInv
  <1> QED
    BY Zenon, <1>5, <1>6, <1>7 DEF CommitInv

\* A wait that ended: the batch is published, and it does not wait for the log.
LEMMA WaitEnded ==
    ASSUME CommitInv, NEW b \in Batch
    PROVE  /\ commit[b] = 0 => ~Unpublished(b) /\ ~(kind[b] = "sync" /\ Unsynced(b))
           /\ fsyncWait[b] = 0 => ~(kind[b] = "noSyncWait" /\ Unsynced(b))
  BY SMT DEF CommitInv, Counting, One

LEMMA ReturnKeeps ==
    ASSUME Inv, CommitInv, NEW b \in Batch, Return(b) \/ SyncWait(b)
    PROVE  CommitInv'
  <1>1. /\ UNCHANGED <<kind, tail, pos, seqNum, visibleSeqNum, got, cur, commit,
                       fsyncWait, commitErr, wal, syncQ, durable, flusher>>
        /\ \A c \in Batch \ {b} : pc'[c] = pc[c]
    BY ZenonT(60) DEF Return, SyncWait, Inv, Types, Goto, queueVars, localVars, logVars,
                 batchVars
  <1>2. /\ pc[b] \in {"wait", "returned"} /\ pc'[b] \in Ended
        /\ kind[b] # "empty"
    BY SMT DEF Return, SyncWait, Inv, Types, Goto, Ended, Applied
  <1>3. \A p \in {"wait"} \cup Ended : p \notin Free \cup Held \cup Writing \cup Dequeuing
    BY SMT DEF Free, Held, Writing, Dequeuing, Ended
  <1>4. pc[b] \in {"wait"} \cup Ended
    BY SMT, <1>2 DEF Ended
  <1>5. \A c \in Batch : /\ Taken(c)' <=> Taken(c)
                         /\ Publishing(c)' <=> Publishing(c)
                         /\ Written(c)' <=> Written(c)
                         /\ Unsynced(c)' <=> Unsynced(c)
                         /\ pc'[c] = "enqueue" <=> pc[c] = "enqueue"
                         /\ pc'[c] = "publish" <=> pc[c] = "publish"
    BY Zenon, <1>1, <1>2, <1>3, <1>4, EnqueueRegion
    DEF Taken, Publishing, Written, Unsynced, Syncs, Waiting, Dequeuing
  <1>6. Counting'
    <2>1. \A c \in Batch : Unpublished(c)' <=> Unpublished(c)
      BY Zenon, <1>1, <1>5 DEF Unpublished
    <2> QED
      BY Zenon, <1>1, <1>5, <2>1, CountingKept DEF CommitInv
  <1>7. LogSide'
    BY Zenon, <1>1, <1>5, LogSideKept DEF CommitInv, LogSide, LogTypes
  <1>8. pos[b] < tail /\ EndOf(b) <= visibleSeqNum
    <2>1. CASE Return(b)
      <3>1. ~Unpublished(b) /\ pc[b] = "wait"
        BY Zenon, <2>1, WaitEnded DEF Return
      <3>2. Enqueued(b)
        BY SMT, <1>2, <3>1 DEF Enqueued
      <3>3. pos[b] \in Nat /\ tail \in Nat
        BY Zenon, <3>2 DEF Inv, Indices, Types
      <3>4. pos[b] < tail
        BY SMT, <3>1, <3>3 DEF Unpublished
      <3>5. ~Publishing(b)
        BY Zenon, <3>1 DEF Unpublished, Taken, Publishing, Dequeuing
      <3> QED
        BY Zenon, <3>3, <3>4, <3>5 DEF CommitInv, QueueSide, Published
    <2>2. CASE SyncWait(b)
      BY Zenon, <1>2, <2>2 DEF SyncWait, CommitInv, QueueSide, Returned, Ended
    <2> QED
      BY Zenon, <2>1, <2>2
  <1>9. QueueSide'
    <2>1. \A c : EndOf(c)' = EndOf(c)
      BY Zenon, <1>1 DEF EndOf
    <2>2. Published'
      BY Zenon, <1>1, <1>5, <2>1 DEF CommitInv, QueueSide, Published
    <2>3. Rising'
      BY Zenon, <1>1, <1>5, <2>1 DEF CommitInv, QueueSide, Rising, EndOf
    <2>4. Returned'
      BY Zenon, <1>1, <1>8, <2>1 DEF CommitInv, QueueSide, Returned
    <2> QED
      BY Zenon, <2>2, <2>3, <2>4 DEF QueueSide
  <1>10. ASSUME \/ kind[b] = "sync" /\ pc'[b] = "returned"
                \/ kind[b] = "noSyncWait" /\ pc'[b] = "synced"
         PROVE  Recorded(b, durable)
    <2>1. Syncs(b) /\ ~Unsynced(b) /\ ~commitErr[b]
      <3>1. CASE Return(b)
        <4>1. commit[b] = 0
          BY ZenonT(60), <3>1 DEF Return
        <4>2. pc' = [pc EXCEPT ![b] = IF kind[b] = "sync" /\ commitErr[b] THEN "fatal" ELSE "returned"]
          BY Zenon, <3>1 DEF Return, Goto
        <4>3. b \in DOMAIN pc
          BY Zenon DEF Inv, Types
        <4>4. pc'[b] = IF kind[b] = "sync" /\ commitErr[b] THEN "fatal" ELSE "returned"
          BY Zenon, <4>2, <4>3
        <4>5. pc'[b] # "fatal" /\ (pc'[b] = "synced" => pc'[b] # "returned")
          BY SMT, <1>10
        <4>6. pc'[b] = "returned"
          BY Zenon, <4>4, <4>5
        <4>7. kind[b] = "sync"
          BY Zenon, <1>10, <4>5, <4>6
        <4>8. ~commitErr[b]
          BY Zenon, <4>4, <4>5, <4>7
        <4> QED
          BY Zenon, <4>1, <4>7, <4>8, WaitEnded DEF Syncs
      <3>2. CASE SyncWait(b)
        <4>1. fsyncWait[b] = 0 /\ kind[b] = "noSyncWait"
          BY ZenonT(60), <3>2 DEF SyncWait
        <4>2. pc' = [pc EXCEPT ![b] = IF commitErr[b] THEN "failed" ELSE "synced"]
          BY Zenon, <3>2 DEF SyncWait, Goto
        <4>3. b \in DOMAIN pc
          BY Zenon DEF Inv, Types
        <4>4. pc'[b] = IF commitErr[b] THEN "failed" ELSE "synced"
          BY Zenon, <4>2, <4>3
        <4>5. pc'[b] # "failed"
          BY SMT, <1>10
        <4>6. ~commitErr[b]
          BY Zenon, <4>4, <4>5
        <4> QED
          BY Zenon, <4>1, <4>6, WaitEnded DEF Syncs
      <3> QED
        BY Zenon, <3>1, <3>2
    <2>2. kind[b] \notin {"empty", "ingest"}
      BY SMT, <2>1 DEF Syncs
    <2>3. Written(b)
      BY Zenon, <1>3, <1>4, <2>2 DEF Written
    <2>4. ~Waiting(b)
      BY Zenon, <2>1 DEF Unsynced
    <2> QED
      BY Zenon, <2>1, <2>3, <2>4 DEF CommitInv, LogSide, SyncedIsKept
  <1>11. Kept'
    BY Zenon, <1>1, <1>10 DEF CommitInv, Kept, SyncReturned, Recorded
  <1> QED
    BY Zenon, <1>6, <1>7, <1>9, <1>11 DEF CommitInv

-----------------------------------------------------------------------------
(* flushLoop.                                                              *)

LEMMA QueueUntouched ==
    ASSUME CommitInv, LogUnchanged
    PROVE  /\ QueueSide'
           /\ \A c \in Batch : /\ Unpublished(c)' <=> Unpublished(c)
                               /\ Written(c)' <=> Written(c)
                               /\ Syncs(c)' <=> Syncs(c)
  <1>1. UNCHANGED <<kind, pc, tail, pos, seqNum, visibleSeqNum, got, cur, wal>>
    BY Zenon DEF LogUnchanged, queueVars, localVars
  <1>2. QueueSide'
    BY Zenon, <1>1 DEF CommitInv, QueueSide, Published, Rising, Returned, Publishing, EndOf
  <1>3. \A c \in Batch : /\ Unpublished(c)' <=> Unpublished(c)
                         /\ Written(c)' <=> Written(c)
                         /\ Syncs(c)' <=> Syncs(c)
    BY Zenon, <1>1 DEF Unpublished, Taken, Written, Syncs
  <1> QED
    BY Zenon, <1>2, <1>3

\* The types of flushLoop, with the facts about lengths the steps need.
LEMMA FlusherTypes ==
    ASSUME CommitInv
    PROVE  /\ LogTypes /\ SyncQueue /\ Flushing /\ SyncedIsKept
           /\ Len(wal) \in Nat /\ Len(syncQ) \in Nat /\ durable \in Nat
           /\ flusher.waiters \in Nat /\ flusher.written \in Nat
           /\ flusher.err \in BOOLEAN /\ flusher.errors \in Nat
           /\ flusher \in Flusher
  <1>1. LogTypes /\ SyncQueue /\ Flushing /\ SyncedIsKept
    BY Zenon DEF CommitInv, LogSide
  <1>2. /\ flusher.waiters \in Nat /\ flusher.written \in Nat
        /\ flusher.err \in BOOLEAN /\ flusher.errors \in Nat
    BY SMT, <1>1 DEF LogTypes, Flusher
  <1> QED
    BY Zenon, <1>1, <1>2, LenProperties DEF LogTypes

LEMMA FlushFrame ==
    ASSUME CommitInv, LogUnchanged, UNCHANGED <<commit, fsyncWait, commitErr, syncQ>>,
           durable' \in Nat, durable <= durable', LogTypes', Flushing'
    PROVE  CommitInv'
  <1>1. UNCHANGED <<kind, pc, wal>>
    BY Zenon DEF LogUnchanged
  <1>2. /\ LogTypes /\ SyncQueue /\ Flushing /\ SyncedIsKept /\ durable \in Nat
        /\ \A i \in 1..Len(syncQ) : syncQ[i] \in Batch
    BY Zenon, FlusherTypes, ElementOfSeq DEF LogTypes
  <1>3. \A c \in Batch : Waiting(c)' <=> Waiting(c)
    BY Zenon DEF Waiting
  <1>4. Counting'
    <2>1. \A c \in Batch : Unsynced(c)' <=> Unsynced(c)
      BY Zenon, <1>1, <1>3 DEF Unsynced, Syncs
    <2> QED
      BY Zenon, <1>1, <2>1, QueueUntouched, CountingKept DEF CommitInv
  <1>5. \A c \in Batch : Recorded(c, durable) => Recorded(c, durable)'
    <2>1. 1..durable \subseteq 1..durable'
      BY Zenon, <1>2, Prefix
    <2> QED
      BY Zenon, <1>1, <2>1 DEF Recorded
  <1>6. SyncQueue'
    BY Zenon, <1>1, <1>2, QueueUntouched DEF SyncQueue, Recorded
  <1>7. SyncedIsKept'
    BY Zenon, <1>2, <1>3, <1>5, QueueUntouched DEF SyncedIsKept
  <1>8. Kept'
    BY Zenon, <1>1, <1>5, KeptKept DEF CommitInv
  <1> QED
    BY Zenon, <1>4, <1>6, <1>7, <1>8, QueueUntouched DEF CommitInv, LogSide

LEMMA GrabWaitersKeeps == ASSUME CommitInv, GrabWaiters PROVE CommitInv'
  <1>1. /\ LogUnchanged /\ UNCHANGED <<commit, fsyncWait, commitErr, syncQ, durable, wal>>
        /\ flusher' = [flusher EXCEPT !.at = "grab", !.waiters = Len(syncQ)]
    BY Zenon DEF GrabWaiters, LogUnchanged
  <1>2. LogTypes'
    <2>1. flusher \in Flusher /\ Len(syncQ) \in Nat /\ Len(wal) \in Nat
      BY Zenon, FlusherTypes
    <2>2. flusher' \in Flusher
      BY Zenon, <1>1, <2>1 DEF Flusher
    <2>3. durable' \in Nat
      BY Zenon, <1>1, FlusherTypes
    <2> QED
      BY Zenon, <1>1, <2>2, <2>3, FlusherTypes DEF LogTypes
  <1>3. flusher'.at = "grab" /\ flusher'.waiters = Len(syncQ)
    <2>1. flusher \in Flusher
      BY Zenon, FlusherTypes
    <2> QED
      BY SMT, <1>1, <2>1 DEF Flusher
  <1>4. durable <= Len(wal) /\ Len(syncQ) <= Len(syncQ) /\ durable <= durable
    BY SMT, FlusherTypes DEF Flushing
  <1>5. Flushing'
    BY Zenon, <1>1, <1>3, <1>4 DEF Flushing
  <1> QED
    BY Zenon, <1>1, <1>2, <1>4, <1>5, FlusherTypes, FlushFrame

LEMMA GrabDataKeeps == ASSUME CommitInv, GrabData PROVE CommitInv'
  <1>1. /\ LogUnchanged /\ UNCHANGED <<commit, fsyncWait, commitErr, syncQ, durable, wal>>
        /\ flusher' = IF flusher.err
                      THEN [flusher EXCEPT !.at = "pop"]
                      ELSE [flusher EXCEPT !.at = "sync", !.written = Len(wal)]
    BY Zenon DEF GrabData, LogUnchanged
  <1>2. LogTypes'
    <2>1. flusher \in Flusher /\ Len(syncQ) \in Nat /\ Len(wal) \in Nat
      BY Zenon, FlusherTypes
    <2>2. flusher' \in Flusher
      BY Zenon, <1>1, <2>1 DEF Flusher
    <2>3. durable' \in Nat
      BY Zenon, <1>1, FlusherTypes
    <2> QED
      BY Zenon, <1>1, <2>2, <2>3, FlusherTypes DEF LogTypes
  <1>3. /\ flusher'.waiters = flusher.waiters /\ flusher'.err = flusher.err
        /\ flusher'.at = IF flusher.err THEN "pop" ELSE "sync"
        /\ flusher'.at = "sync" => flusher'.written = Len(wal)
    <2>1. flusher \in Flusher
      BY Zenon, FlusherTypes
    <2> QED
      BY SMTT(60), <1>1, <2>1 DEF Flusher
  <1>4. /\ durable <= Len(wal) /\ Len(wal) <= Len(wal) /\ durable <= durable
        /\ 1..flusher.waiters \subseteq 1..Len(syncQ)
    BY SMT, FlusherTypes DEF Flushing
  <1>5. \A i \in 1..flusher.waiters : Recorded(syncQ[i], Len(wal))
    BY Zenon, <1>4, FlusherTypes, ElementOfSeq DEF SyncQueue, LogTypes
  <1>6. Flushing'
    <2>1. flusher.waiters <= Len(syncQ)
      BY Zenon, FlusherTypes DEF Flushing
    <2>2. CASE flusher.err
      <3>1. flusher'.at # "sync"
        BY SMT, <1>3, <2>2
      <3> QED
        BY ZenonT(60), <1>1, <1>3, <1>4, <2>1, <2>2, <3>1 DEF Flushing
    <2>3. CASE ~flusher.err
      <3>1. flusher'.at \notin {"pop", "release"} /\ flusher'.written = Len(wal)
        BY SMT, <1>3, <2>3
      <3> QED
        BY ZenonT(60), <1>1, <1>3, <1>4, <1>5, <2>1, <3>1 DEF Flushing, Recorded
    <2> QED
      BY Zenon, <2>2, <2>3
  <1> QED
    BY Zenon, <1>1, <1>2, <1>4, <1>6, FlusherTypes, FlushFrame

LEMMA SyncSucceeds ==
    ASSUME NEW f \in Flusher, NEW g, g = [f EXCEPT !.at = "pop", !.written = 0]
    PROVE  g \in Flusher /\ g.at = "pop" /\ g.waiters = f.waiters
  <1>1. 0 \in Nat
    OBVIOUS
  <1> QED
    BY Zenon, <1>1 DEF Flusher

LEMMA SyncFails ==
    ASSUME NEW f \in Flusher, NEW g,
           g = [f EXCEPT !.at = "pop", !.written = 0, !.err = TRUE, !.errors = @ + 1]
    PROVE  g \in Flusher /\ g.at = "pop" /\ g.waiters = f.waiters /\ g.err
  <1>1. PICK n \in Nat : n = f.errors + 1
    BY SMT DEF Flusher
  <1>2. g = [f EXCEPT !.at = "pop", !.written = 0, !.err = TRUE, !.errors = n]
    BY Zenon, <1>1 DEF Flusher
  <1>3. 0 \in Nat
    OBVIOUS
  <1> QED
    BY Zenon, <1>2, <1>3 DEF Flusher

LEMMA WriteAndSyncKeeps == ASSUME CommitInv, WriteAndSync PROVE CommitInv'
  <1>1. /\ LogUnchanged /\ UNCHANGED <<commit, fsyncWait, commitErr, syncQ, wal>>
        /\ flusher.at = "sync"
        /\ \/ /\ durable' = flusher.written
              /\ flusher' = [flusher EXCEPT !.at = "pop", !.written = 0]
           \/ /\ durable' = durable
              /\ flusher' = [flusher EXCEPT !.at = "pop", !.written = 0,
                                            !.err = TRUE, !.errors = @ + 1]
    BY Zenon DEF WriteAndSync, LogUnchanged
  <1>2. /\ flusher' \in Flusher /\ flusher'.waiters = flusher.waiters
        /\ flusher'.at = "pop"
        /\ durable' = flusher.written \/ (durable' = durable /\ flusher'.err)
    <2>1. flusher \in Flusher
      BY Zenon, FlusherTypes
    <2>2. CASE /\ durable' = flusher.written
               /\ flusher' = [flusher EXCEPT !.at = "pop", !.written = 0]
      BY Zenon, <2>1, <2>2, SyncSucceeds
    <2>3. CASE /\ durable' = durable
               /\ flusher' = [flusher EXCEPT !.at = "pop", !.written = 0,
                                             !.err = TRUE, !.errors = @ + 1]
      BY Zenon, <2>1, <2>3, SyncFails
    <2> QED
      BY Zenon, <1>1, <2>2, <2>3
  <1>3. LogTypes'
    <2>1. durable' \in Nat
      BY Zenon, <1>2, FlusherTypes
    <2> QED
      BY Zenon, <1>1, <1>2, <2>1, FlusherTypes DEF LogTypes
  <1>4. /\ durable <= flusher.written /\ flusher.written <= Len(wal)
        /\ \A i \in 1..flusher.waiters : Recorded(syncQ[i], flusher.written)
    BY Zenon, <1>1, FlusherTypes DEF Flushing
  <1>5. durable' \in Nat /\ durable <= durable' /\ durable' <= Len(wal)
    BY SMT, <1>2, <1>4, FlusherTypes DEF Flushing
  <1>6. Flushing'
    <2>1. flusher.waiters <= Len(syncQ) /\ flusher'.at # "sync"
      BY Zenon, <1>2, FlusherTypes DEF Flushing
    <2> QED
      BY Zenon, <1>1, <1>2, <1>4, <1>5, <2>1 DEF Flushing, Recorded
  <1> QED
    BY Zenon, <1>1, <1>3, <1>5, <1>6, FlushFrame

LEMMA ReleaseSyncKeeps == ASSUME CommitInv, ReleaseSync PROVE CommitInv'
  <1>1. /\ LogUnchanged /\ UNCHANGED <<commit, fsyncWait, commitErr, syncQ, durable, wal>>
        /\ flusher.at = "release"
        /\ flusher' = [flusher EXCEPT !.at = IF flusher.waiters > 0 THEN "pop" ELSE "idle",
                                      !.by = NoBatch]
    BY Zenon DEF ReleaseSync, LogUnchanged
  <1>2. LogTypes'
    <2>1. flusher \in Flusher /\ Len(syncQ) \in Nat /\ Len(wal) \in Nat
      BY Zenon, FlusherTypes
    <2>2. flusher' \in Flusher
      BY Zenon, <1>1, <2>1 DEF Flusher
    <2>3. durable' \in Nat
      BY Zenon, <1>1, FlusherTypes
    <2> QED
      BY Zenon, <1>1, <2>2, <2>3, FlusherTypes DEF LogTypes
  <1>3. /\ flusher'.waiters = flusher.waiters /\ flusher'.at \in {"pop", "idle"}
        /\ flusher'.err = flusher.err
    <2>1. flusher \in Flusher
      BY Zenon, FlusherTypes
    <2> QED
      BY SMTT(60), <1>1, <2>1 DEF Flusher
  <1>4. durable <= durable
    BY SMT, FlusherTypes
  <1>5. "pop" # "sync" /\ "idle" # "sync"
    OBVIOUS
  <1>6. Flushing'
    BY Zenon, <1>1, <1>3, <1>5, FlusherTypes DEF Flushing, Recorded
  <1> QED
    BY Zenon, <1>1, <1>2, <1>4, <1>6, FlusherTypes, FlushFrame

LEMMA PopWaiterKeeps == ASSUME Inv, CommitInv, PopWaiter PROVE CommitInv'
  <1>1. /\ LogTypes /\ SyncQueue /\ Flushing /\ SyncedIsKept
        /\ wal \in Seq(Batch) /\ syncQ \in Seq(Batch)
        /\ Len(wal) \in Nat /\ Len(syncQ) \in Nat /\ durable \in Nat
        /\ flusher.waiters \in Nat /\ flusher.err \in BOOLEAN /\ flusher \in Flusher
    BY Zenon, FlusherTypes DEF LogTypes
  <1>2. /\ flusher.at = "pop" /\ 0 < flusher.waiters
        /\ flusher.waiters <= Len(syncQ) /\ 0 < Len(syncQ)
    BY SMTT(30), <1>1 DEF PopWaiter, Flushing
  <1>3. 1 \in 1..Len(syncQ) /\ 1 \in 1..flusher.waiters
    BY SMT, <1>1, <1>2
  <1>4. PICK x \in Batch : x = syncQ[1]
    BY Zenon, <1>1, <1>3, ElementOfSeq
  <1>5. /\ LogUnchanged /\ UNCHANGED <<kind, pc, wal, durable>>
        /\ commitErr' = [commitErr EXCEPT ![x] = flusher.err]
        /\ syncQ' = Tail(syncQ)
        /\ IF kind[x] = "sync"
           THEN commit' = [commit EXCEPT ![x] = @ - 1] /\ fsyncWait' = fsyncWait
           ELSE fsyncWait' = [fsyncWait EXCEPT ![x] = @ - 1] /\ commit' = commit
        /\ flusher' = [flusher EXCEPT !.at = "release", !.waiters = @ - 1, !.by = x]
    <2>1. Head(syncQ) = x
      BY SMTT(30), <1>1, <1>2, <1>4
    <2> QED
      BY Zenon, <2>1 DEF PopWaiter, LogUnchanged
  <1>6. /\ syncQ' \in Seq(Batch) /\ Len(syncQ') = Len(syncQ) - 1
        /\ \A i \in 1..Len(syncQ') : i + 1 \in 1..Len(syncQ) /\ syncQ'[i] = syncQ[i + 1]
        /\ \A i \in 1..Len(syncQ) : i = 1 \/ (i - 1 \in 1..Len(syncQ') /\ syncQ'[i - 1] = syncQ[i])
    <2>1. syncQ # <<>>
      BY SMT, <1>2
    <2>2. /\ Tail(syncQ) \in Seq(Batch) /\ Len(Tail(syncQ)) = Len(syncQ) - 1
          /\ \A i \in 1..Len(Tail(syncQ)) : Tail(syncQ)[i] = syncQ[i + 1]
      BY Zenon, <1>1, <2>1, HeadTailProperties
    <2>3. /\ \A i \in 1..(Len(syncQ) - 1) : i + 1 \in 1..Len(syncQ)
          /\ \A i \in 1..Len(syncQ) : i = 1 \/ (i - 1 \in 1..(Len(syncQ) - 1) /\ (i - 1) + 1 = i)
      BY SMT, <1>1, <1>2
    <2>4. /\ syncQ' \in Seq(Batch) /\ Len(syncQ') = Len(syncQ) - 1
          /\ \A i \in 1..(Len(syncQ) - 1) : syncQ'[i] = syncQ[i + 1]
      BY Zenon, <1>5, <2>2
    <2>5. ASSUME NEW i \in 1..Len(syncQ), i # 1
          PROVE  i - 1 \in 1..Len(syncQ') /\ syncQ'[i - 1] = syncQ[i]
      BY Zenon, <2>3, <2>4, <2>5
    <2>6. \A i \in 1..(Len(syncQ) - 1) : i + 1 \in 1..Len(syncQ) /\ syncQ'[i] = syncQ[i + 1]
      BY Zenon, <2>3, <2>4
    <2>7. \A i \in 1..Len(syncQ') : i + 1 \in 1..Len(syncQ) /\ syncQ'[i] = syncQ[i + 1]
      BY Zenon, <2>4, <2>6
    <2> QED
      BY Zenon, <2>4, <2>5, <2>7
  <1>7. /\ flusher' \in Flusher /\ flusher'.at = "release"
        /\ flusher'.waiters = flusher.waiters - 1 /\ flusher'.err = flusher.err
    <2>1. PICK n \in Nat : n = flusher.waiters - 1
      BY SMT, <1>1, <1>2
    <2>2. flusher' = [flusher EXCEPT !.at = "release", !.waiters = n, !.by = x]
      BY Zenon, <1>1, <1>5, <2>1 DEF Flusher
    <2>3. flusher' \in Flusher
      BY Zenon, <1>1, <2>2 DEF Flusher
    <2>4. /\ flusher'.at = "release" /\ flusher'.waiters = n
          /\ flusher'.err = flusher.err
      BY Zenon, <1>1, <2>2 DEF Flusher
    <2> QED
      BY Zenon, <2>1, <2>3, <2>4
  <1>8. /\ \A c \in Batch : c # x => (Waiting(c)' <=> Waiting(c))
        /\ Waiting(x) /\ ~Waiting(x)'
    <2>1. Waiting(x)
      BY Zenon, <1>3, <1>4 DEF Waiting
    <2>2. ~Waiting(x)'
      <3> SUFFICES ASSUME NEW i \in 1..Len(syncQ'), syncQ'[i] = x PROVE FALSE
        BY Zenon DEF Waiting
      <3>1. i + 1 \in 1..Len(syncQ) /\ syncQ[i + 1] = x
        BY Zenon, <1>6
      <3>2. i + 1 = 1
        BY Zenon, <1>1, <1>3, <1>4, <3>1 DEF SyncQueue
      <3>3. i \in Nat /\ 0 < i
        BY SMT, <1>1, <1>6
      <3> QED
        BY SMT, <3>2, <3>3
    <2>3. ASSUME NEW c \in Batch, c # x PROVE Waiting(c)' <=> Waiting(c)
      <3>1. ASSUME NEW i \in 1..Len(syncQ'), syncQ'[i] = c PROVE Waiting(c)
        BY Zenon, <1>6, <3>1 DEF Waiting
      <3>2. ASSUME NEW i \in 1..Len(syncQ), syncQ[i] = c PROVE Waiting(c)'
        <4>1. i - 1 \in 1..Len(syncQ') /\ syncQ'[i - 1] = c
          BY Zenon, <1>4, <1>6, <2>3, <3>2
        <4> QED
          BY Zenon, <4>1 DEF Waiting
      <3> QED
        BY Zenon, <3>1, <3>2 DEF Waiting
    <2> QED
      BY Zenon, <2>1, <2>2, <2>3
  <1>9. Syncs(x) /\ Written(x) /\ pc[x] \notin Writing
    BY Zenon, <1>1, <1>3, <1>4 DEF SyncQueue, Written
  <1>10. commit' \in [Batch -> Int] /\ fsyncWait' \in [Batch -> Int]
    BY SMT, <1>1, <1>5 DEF LogTypes
  <1>11. Counting'
    <2>1. ASSUME NEW c \in Batch, c # x
          PROVE  /\ commit'[c] = commit[c] /\ fsyncWait'[c] = fsyncWait[c]
                 /\ Unsynced(c)' <=> Unsynced(c)
      <3>1. commit'[c] = commit[c] /\ fsyncWait'[c] = fsyncWait[c]
        BY Zenon, <1>1, <1>5, <2>1 DEF LogTypes
      <3> QED
        BY ZenonT(60), <1>5, <1>8, <2>1, <3>1, QueueUntouched DEF Unsynced
    <2>2. Unsynced(x) /\ ~Unsynced(x)'
      BY Zenon, <1>5, <1>8, <1>9 DEF Unsynced
    <2>3. ASSUME NEW c \in Batch PROVE Unpublished(c)' <=> Unpublished(c)
      BY Zenon, <1>5, QueueUntouched
    <2>4. /\ commit[x] = One(Unpublished(x)) + One(kind[x] = "sync" /\ Unsynced(x))
          /\ fsyncWait[x] = One(kind[x] = "noSyncWait" /\ Unsynced(x))
      BY Zenon DEF CommitInv, Counting
    <2>5. kind[x] = "sync" \/ kind[x] = "noSyncWait"
      BY Zenon, <1>9 DEF Syncs
    <2>6. CASE kind[x] = "sync"
      <3>1. kind[x] # "noSyncWait"
        BY SMT, <2>6
      <3>2. commit[x] = One(Unpublished(x)) + 1 /\ fsyncWait[x] = 0
        BY Zenon, <2>2, <2>4, <2>6, <3>1 DEF One
      <3>3. commit'[x] = commit[x] - 1 /\ fsyncWait'[x] = fsyncWait[x]
        BY Zenon, <1>1, <1>5, <2>6 DEF LogTypes
      <3>4. commit'[x] = One(Unpublished(x)) + 0
        BY SMT, <3>2, <3>3 DEF One
      <3> QED
        BY ZenonT(60), <1>5, <2>1, <2>2, <2>3, <2>6, <3>1, <3>2, <3>3, <3>4
        DEF CommitInv, Counting, One
    <2>7. CASE kind[x] = "noSyncWait"
      <3>1. kind[x] # "sync"
        BY SMT, <2>7
      <3>2. commit[x] = One(Unpublished(x)) + 0 /\ fsyncWait[x] = 1
        BY Zenon, <2>2, <2>4, <2>7, <3>1 DEF One
      <3>3. commit'[x] = commit[x] /\ fsyncWait'[x] = fsyncWait[x] - 1
        BY Zenon, <1>1, <1>5, <3>1 DEF LogTypes
      <3>4. fsyncWait'[x] = 0
        BY SMT, <3>2, <3>3
      <3> QED
        BY ZenonT(60), <1>5, <2>1, <2>2, <2>3, <2>7, <3>1, <3>2, <3>3, <3>4
        DEF CommitInv, Counting, One
    <2> QED
      BY Zenon, <2>5, <2>6, <2>7
  <1>12. LogTypes'
    BY ZenonT(60), <1>1, <1>5, <1>6, <1>7, <1>10 DEF LogTypes
  <1>13. SyncQueue'
    <2>1. ASSUME NEW i \in 1..Len(syncQ'), NEW j \in 1..Len(syncQ'), syncQ'[i] = syncQ'[j]
          PROVE  i = j
      <3>0. /\ i + 1 \in 1..Len(syncQ) /\ j + 1 \in 1..Len(syncQ)
            /\ syncQ[i + 1] = syncQ[j + 1]
        BY Zenon, <1>6, <2>1
      <3>1. i + 1 = j + 1
        BY Zenon, <1>1, <3>0 DEF SyncQueue
      <3> QED
        BY SMTT(60), <1>1, <1>6, <3>1
    <2>2. ASSUME NEW i \in 1..Len(syncQ')
          PROVE  Syncs(syncQ[i])' /\ Written(syncQ[i])'
      <3>1. i + 1 \in 1..Len(syncQ) /\ syncQ'[i] = syncQ[i + 1]
        BY Zenon, <1>6
      <3>2. PICK c \in Batch : c = syncQ[i + 1]
        BY Zenon, <1>1, <3>1, ElementOfSeq
      <3>3. Syncs(c) /\ Written(c)
        BY Zenon, <1>1, <3>1, <3>2 DEF SyncQueue
      <3>4. Syncs(c)' /\ Written(c)'
        BY Zenon, <1>5, <3>3, QueueUntouched
      <3> QED
        BY Zenon, <3>1, <3>2, <3>4 DEF Syncs, Written
    <2>3. \A c \in Batch : Written(c)' => Recorded(c, Len(wal))'
      BY Zenon, <1>1, <1>5, QueueUntouched DEF SyncQueue, Recorded
    <2> QED
      BY Zenon, <2>1, <2>2, <2>3 DEF SyncQueue
  <1>14. Flushing'
    <2>1. durable <= Len(wal) /\ flusher'.waiters <= Len(syncQ')
      BY SMTT(60), <1>1, <1>2, <1>6, <1>7 DEF Flushing
    <2>2. ASSUME ~flusher.err, NEW i \in 1..flusher'.waiters
          PROVE  \E j \in 1..durable : wal[j] = syncQ'[i]
      <3>1. i \in 1..Len(syncQ') /\ i + 1 \in 1..flusher.waiters
        BY SMTT(60), <1>1, <1>2, <1>6, <1>7
      <3>2. Recorded(syncQ[i + 1], durable)
        BY Zenon, <1>1, <1>2, <2>2, <3>1 DEF Flushing
      <3> QED
        BY Zenon, <1>6, <3>1, <3>2 DEF Recorded
    <2> QED
      BY ZenonT(60), <1>5, <1>7, <2>1, <2>2 DEF Flushing, Recorded
  <1>15. SyncedIsKept'
    <2>1. flusher.err \/ Recorded(x, durable)
      BY Zenon, <1>1, <1>2, <1>3, <1>4 DEF Flushing
    <2>2. commitErr'[x] = flusher.err /\ \A c \in Batch : c # x => commitErr'[c] = commitErr[c]
      BY Zenon, <1>1, <1>5 DEF LogTypes
    <2>3. ASSUME NEW c \in Batch, Syncs(c)', Written(c)', ~Waiting(c)'
          PROVE  commitErr'[c] \/ Recorded(c, durable)'
      <3>1. CASE c = x
        BY ZenonT(60), <1>5, <2>1, <2>2, <3>1 DEF Recorded
      <3>2. CASE c # x
        <4>1. Syncs(c) /\ Written(c) /\ ~Waiting(c)
          BY ZenonT(60), <1>5, <1>8, <2>3, <3>2, QueueUntouched
        <4> QED
          BY ZenonT(60), <1>1, <1>5, <2>2, <3>2, <4>1 DEF SyncedIsKept, Recorded
      <3> QED
        BY Zenon, <3>1, <3>2
    <2> QED
      BY Zenon, <2>3 DEF SyncedIsKept
  <1>16. Kept'
    BY Zenon, <1>5, KeptKept DEF CommitInv, Recorded
  <1> QED
    BY ZenonT(60), <1>5, <1>11, <1>12, <1>13, <1>14, <1>15, <1>16, QueueUntouched
    DEF CommitInv, LogSide

-----------------------------------------------------------------------------
(* The invariant, and what follows.                                        *)

LEMMA InitReturn == Init => CommitInv
  <1> SUFFICES ASSUME Init PROVE CommitInv
    BY SMTT(60)
  <1>1. /\ kind \in [Batch -> Kind] /\ pc \in [Batch -> {"returned", "start"}]
        /\ \A b \in Batch : kind[b] # "empty" => pc[b] = "start"
        /\ commitQueueSem = {} /\ wal = <<>> /\ syncQ = <<>> /\ durable = 0
        /\ tail = 0 /\ pos = [b \in Batch |-> -1]
        /\ commit = [b \in Batch |-> 0] /\ fsyncWait = [b \in Batch |-> 0]
        /\ commitErr = [b \in Batch |-> FALSE]
        /\ flusher = [at |-> "idle", waiters |-> 0, written |-> 0, err |-> FALSE,
                      by |-> NoBatch, errors |-> 0]
    BY SMTT(30), PipelineAssumption DEF Init
  <1>3. Len(syncQ) = 0 /\ Len(wal) = 0 /\ 1..0 = {} /\ ~(0 <= -1)
    BY SMT, <1>1
  <1>4. /\ {"returned", "start"} \cap Dequeuing = {}
        /\ {"returned", "start"} \cap Writing = {} /\ "start" \in Free
        /\ "start" \notin Ended
        /\ \A p \in {"returned", "start"} : p # "enqueue" /\ p # "publish"
    BY SMT DEF Dequeuing, Writing, Free, Ended
  <1>5. \A b \in Batch : ~Unpublished(b) /\ ~Unsynced(b) /\ ~Written(b) /\ pos[b] = -1
    <2>1. \A b \in Batch : pos[b] = -1 /\ ~(tail <= pos[b])
      BY Zenon, <1>1, <1>3
    <2>2. \A b \in Batch : ~Taken(b)
      BY Zenon, <1>1, <1>4 DEF Taken
    <2>3. \A b \in Batch : ~Waiting(b)
      BY Zenon, <1>3 DEF Waiting
    <2>4. \A b \in Batch : ~Written(b)
      BY Zenon, <1>1, <1>4 DEF Written
    <2> QED
      BY Zenon, <1>1, <1>4, <2>1, <2>2, <2>3, <2>4 DEF Unpublished, Unsynced
  <1>6. Counting
    <2>1. ASSUME NEW b \in Batch PROVE commit[b] = 0 + 0 /\ fsyncWait[b] = 0
      BY SMT, <1>1
    <2> QED
      BY Zenon, <1>5, <2>1 DEF Counting, One
  <1>7. LogSide
    <2>1. flusher \in Flusher /\ flusher.waiters = 0 /\ flusher.at = "idle"
      BY SMT, <1>1 DEF Flusher
    <2>2. LogTypes
      <3>1. <<>> \in Seq(Batch) /\ 0 \in Nat /\ 0 \in Int
        BY SMT
      <3> QED
        BY Zenon, <1>1, <2>1, <3>1 DEF LogTypes
    <2>3. SyncQueue
      BY Zenon, <1>3, <1>5 DEF SyncQueue
    <2>4. Flushing
      <3>1. 0 <= 0 /\ "idle" \notin {"sync", "pop", "release"}
        BY SMT
      <3> QED
        BY Zenon, <1>1, <1>3, <2>1, <3>1 DEF Flushing
    <2>5. SyncedIsKept
      BY Zenon, <1>5 DEF SyncedIsKept
    <2> QED
      BY ZenonT(60), <2>2, <2>3, <2>4, <2>5 DEF LogSide
  <1>8. QueueSide
    <2>1. -1 \notin Nat
      OBVIOUS
    <2> QED
      BY Zenon, <1>1, <1>4, <1>5, <2>1 DEF QueueSide, Published, Rising, Returned
  <1>9. Kept
    <2>1. \A b \in Batch : kind[b] = "sync" \/ kind[b] = "noSyncWait" => pc[b] = "start"
      BY SMT, <1>1
    <2>2. "start" # "returned" /\ "start" # "synced"
      OBVIOUS
    <2> QED
      BY Zenon, <2>1, <2>2 DEF Kept, SyncReturned
  <1> QED
    BY Zenon, <1>6, <1>7, <1>8, <1>9 DEF CommitInv

LEMMA ReturnStepInv == Inv /\ CommitInv /\ [Next]_vars => CommitInv'
  <1> SUFFICES ASSUME Inv, CommitInv, [Next]_vars PROVE CommitInv'
    OBVIOUS
  <1>1. Types
    BY Zenon DEF Inv
  <1>2. ASSUME NEW b \in Batch, Step(b) PROVE CommitInv'
    <2>1. CASE CompareAndSwapTail(b)
      BY Zenon, <1>1, <2>1, QuietSteps, QuietKeeps, TakeTailKeeps
    <2>2. CASE \/ ReserveIngest(b) \/ Reserve(b) \/ ReserveSync(b) \/ AdvanceHead(b)
               \/ Drain(b) \/ Apply(b) \/ MarkApplied(b) \/ LoadHeadTail(b)
               \/ LoadSlot(b) \/ CheckApplied(b) \/ ClearSlot(b)
      BY Zenon, <1>1, <2>2, QuietSteps, QuietKeeps
    <2>3. CASE Lock(b) \/ Enqueue(b) \/ SetSeqNum(b) \/ WriteRecord(b)
      BY Zenon, <2>3, LockKeeps, EnqueueKeeps, SetSeqNumKeeps, WriteRecordKeeps
    <2>4. CASE LoadVisible(b) \/ CompareAndSwapVisible(b) \/ DoneCommit(b)
      BY Zenon, <2>4, LoadVisibleKeeps, PublishKeeps, DoneCommitKeeps
    <2>5. CASE Return(b) \/ SyncWait(b)
      BY Zenon, <2>5, ReturnKeeps
    <2> QED
      BY ZenonT(60), <1>2, <2>1, <2>2, <2>3, <2>4, <2>5 DEF Step
  <1>3. ASSUME FlushLoop PROVE CommitInv'
    BY ZenonT(60), <1>3, GrabWaitersKeeps, GrabDataKeeps, WriteAndSyncKeeps,
       PopWaiterKeeps, ReleaseSyncKeeps DEF FlushLoop
  <1>4. CASE UNCHANGED vars
    <2>1. UNCHANGED <<kind, pc, tail, pos, seqNum, visibleSeqNum, commit, fsyncWait,
                      commitErr, got, cur, wal, syncQ, durable, flusher>>
      BY Zenon, <1>4 DEF vars, semVars, queueVars, batchVars, localVars, logVars
    <2>2. \A c \in Batch : /\ Unpublished(c)' <=> Unpublished(c)
                           /\ Unsynced(c)' <=> Unsynced(c)
                           /\ Written(c)' <=> Written(c)
                           /\ Publishing(c)' <=> Publishing(c)
      BY Zenon, <2>1 DEF Unpublished, Taken, Unsynced, Syncs, Waiting, Written, Publishing
    <2>3. Counting' /\ LogSide' /\ Kept'
      BY Zenon, <2>1, <2>2, CountingKept, LogSideKept, KeptKept
      DEF CommitInv, LogSide, LogTypes, Recorded
    <2>4. QueueSide'
      BY Zenon, <2>1, <2>2 DEF CommitInv, QueueSide, Published, Rising, Returned, EndOf
    <2> QED
      BY Zenon, <2>3, <2>4 DEF CommitInv
  <1> QED
    BY Zenon, <1>2, <1>3, <1>4 DEF Next, Finished

LEMMA ReturnInvariance == Spec => [](Inv /\ CommitInv)
  BY InitInv, InvStep, InitReturn, ReturnStepInv, PTL DEF Spec

\* A Commit that returned is visible to reads, and a batch committed with Sync
\* is on disk when Commit, or SyncWait, returns (Commit in commit.go, flushLoop
\* and syncQueue.pop in record/log_writer.go).
THEOREM ReturnedIsKept == Spec => []KeptOnReturn
  <1>1. CommitInv => KeptOnReturn
    <2> SUFFICES ASSUME CommitInv PROVE KeptOnReturn
      OBVIOUS
    <2>1. \A p \in {"returned", "synced", "failed"} : p \in Ended
      BY SMT DEF Ended
    <2> QED
      BY Zenon, <2>1 DEF KeptOnReturn, CommitInv, QueueSide, Returned, Kept, Recorded
  <1> QED
    BY <1>1, ReturnInvariance, PTL

-----------------------------------------------------------------------------
(* The queues are never full, for any number of goroutines and slots.      *)
(*                                                                         *)
(* A batch in the queue holds a unit of commitQueueSem, because its Commit *)
(* has not returned (Returned), and no batch is in the queue twice         *)
(* (Window): the queue maps one to one into the semaphore, which has a     *)
(* unit less than the queue has slots. A batch in the sync queue holds a   *)
(* unit of logSyncQSem likewise, also when its Commit has returned, because*)
(* flushLoop releases the unit after it has taken the batch out. What      *)
(* counts finite sets is needed only from here on.                         *)

INSTANCE FiniteSetTheorems

\* A batch holds a unit of commitQueueSem until its Commit returns.
Holds(b) == kind[b] # "empty" /\ pc[b] \notin Free \cup Ended

Reserved ==
    /\ commitQueueSem \subseteq Batch /\ IsFiniteSet(commitQueueSem)
    /\ Cardinality(commitQueueSem) <= Slots - 1
    /\ \A b \in Batch : Holds(b) => b \in commitQueueSem

LEMMA ReservedKept ==
    ASSUME Reserved, UNCHANGED commitQueueSem,
           \A c \in Batch : Holds(c)' => Holds(c)
    PROVE  Reserved'
  BY Zenon DEF Reserved

LEMMA ReservedStep ==
    ASSUME Inv, Reserved, NEW b \in Batch, Step(b)
    PROVE  Reserved'
  <1>1. Types /\ (kind[b] = "empty" => pc[b] = "returned")
    BY Zenon DEF Inv, Applied
  <1>2. CASE Reserve(b)
    <2>1. /\ commitQueueSem' = commitQueueSem \cup {b} /\ kind' = kind
          /\ \A c \in Batch \ {b} : pc'[c] = pc[c]
      BY ZenonT(60), <1>1, <1>2 DEF Reserve, Types, Goto
    <2>2. Cardinality(commitQueueSem) \in Nat /\ Cardinality(commitQueueSem) < Slots - 1
      <3>1. Cardinality(commitQueueSem) \in Nat
        BY Zenon, FS_CardinalityType DEF Reserved
      <3> QED
        BY SMTT(60), <1>2, <3>1 DEF Reserve
    <2>3. /\ IsFiniteSet(commitQueueSem')
          /\ \/ Cardinality(commitQueueSem') = Cardinality(commitQueueSem)
             \/ Cardinality(commitQueueSem') = Cardinality(commitQueueSem) + 1
      BY ZenonT(60), <2>1, FS_AddElement DEF Reserved
    <2>4. Cardinality(commitQueueSem') <= Slots - 1
      BY SMTT(60), <2>2, <2>3, PipelineAssumption
    <2>5. \A c \in Batch : Holds(c)' => c \in commitQueueSem'
      BY Zenon, <2>1 DEF Holds, Reserved
    <2> QED
      BY ZenonT(60), <2>1, <2>3, <2>4, <2>5 DEF Reserved
  <1>3. CASE Return(b)
    <2>1. /\ commitQueueSem' = commitQueueSem \ {b} /\ kind' = kind
          /\ \A c \in Batch \ {b} : pc'[c] = pc[c]
          /\ pc'[b] \in Ended
      BY ZenonT(60), <1>1, <1>3 DEF Return, Types, Goto, Ended
    <2>2. /\ IsFiniteSet(commitQueueSem')
          /\ \/ Cardinality(commitQueueSem') = Cardinality(commitQueueSem)
             \/ Cardinality(commitQueueSem') = Cardinality(commitQueueSem) - 1
      BY ZenonT(60), <2>1, FS_RemoveElement DEF Reserved
    <2>3. Cardinality(commitQueueSem') <= Slots - 1
      <3>1. Cardinality(commitQueueSem) \in Nat
        BY Zenon, FS_CardinalityType DEF Reserved
      <3> QED
        BY SMTT(60), <2>2, <3>1, PipelineAssumption DEF Reserved
    <2>4. \A c \in Batch : Holds(c)' => c \in commitQueueSem'
      BY Zenon, <2>1 DEF Holds, Reserved
    <2> QED
      BY ZenonT(60), <2>1, <2>2, <2>3, <2>4 DEF Reserved
  <1>4. ASSUME UNCHANGED <<kind, commitQueueSem>>, Holds(b)' => Holds(b)
        PROVE  Reserved'
    BY ZenonT(60), <1>1, <1>4, ReservedKept, OthersStay DEF Holds
  <1> USE DEF Types, Goto, semVars, Holds, Free, Ended
  <1>5. CASE ReserveIngest(b) \/ ReserveSync(b) \/ Lock(b)
    BY SMTT(60), <1>1, <1>4, <1>5 DEF ReserveIngest, ReserveSync, Lock
  <1>6. CASE Enqueue(b) \/ AdvanceHead(b) \/ SetSeqNum(b) \/ Drain(b) \/ WriteRecord(b)
    BY SMTT(60), <1>1, <1>4, <1>6 DEF Enqueue, AdvanceHead, SetSeqNum, Drain, WriteRecord
  <1>7. CASE Apply(b) \/ MarkApplied(b) \/ LoadHeadTail(b) \/ LoadSlot(b) \/ CheckApplied(b)
    BY SMTT(60), <1>1, <1>4, <1>7 DEF Apply, MarkApplied, LoadHeadTail, LoadSlot, CheckApplied
  <1>8. CASE CompareAndSwapTail(b) \/ ClearSlot(b) \/ LoadVisible(b)
    BY SMTT(60), <1>1, <1>4, <1>8 DEF CompareAndSwapTail, ClearSlot, LoadVisible
  <1>9. CASE CompareAndSwapVisible(b)
    BY SMTT(60), <1>1, <1>4, <1>9 DEF CompareAndSwapVisible
  <1>10. CASE DoneCommit(b)
    BY SMTT(60), <1>1, <1>4, <1>10 DEF DoneCommit
  <1>11. CASE SyncWait(b)
    BY SMTT(60), <1>1, <1>4, <1>11 DEF SyncWait
  <1> QED
    BY ZenonT(60), <1>2, <1>3, <1>5, <1>6, <1>7, <1>8, <1>9, <1>10, <1>11 DEF Step

\* The batches in the queue hold different units of the semaphore, so fewer
\* than Slots are there.
LEMMA RoomForOne ==
    ASSUME Inv, Reserved, Returned
    PROVE  head < tail + Slots
  <1> DEFINE window == tail..(head - 1)
             first(p) == slots[SlotOf(p)]
  <1>1. Types /\ head \in Nat /\ tail \in Nat /\ tail <= head
    BY Zenon DEF Inv, Types, Indices
  <1>2. ASSUME NEW p \in window
        PROVE  first(p) \in commitQueueSem /\ pos[first(p)] = p
    <2>1. first(p) \in Batch /\ pos[first(p)] = p
      BY Zenon DEF Inv, Window
    <2>2. p \in Nat /\ ~(p < tail) /\ p # -1
      BY SMTT(30), <1>1
    <2>3. Enqueued(first(p))
      BY ZenonT(60), <2>1, <2>2 DEF Inv, Indices
    <2>4. pc[first(p)] \notin Ended
      BY ZenonT(60), <2>1, <2>2, <2>3 DEF Returned, Enqueued
    <2>5. Holds(first(p))
      BY ZenonT(60), <2>3, <2>4 DEF Holds, Enqueued, Free
    <2> QED
      BY Zenon, <2>1, <2>5 DEF Reserved
  <1>3. [p \in window |-> first(p)] \in Injection(window, commitQueueSem)
    <2> DEFINE f == [p \in window |-> first(p)]
    <2>1. f \in [window -> commitQueueSem]
      BY Zenon, <1>2
    <2>2. \A p, q \in window : f[p] = f[q] => p = q
      BY Zenon, <1>2
    <2> QED
      BY ZenonT(60), <2>1, <2>2 DEF Injection, IsInjective
  <1> HIDE DEF first
  <1>4. IsFiniteSet(window) /\ Cardinality(window) = head - tail
    <2>1. tail \in Int /\ head - 1 \in Int
      BY <1>1
    <2>2. /\ IsFiniteSet(window)
          /\ Cardinality(window) = IF tail > head - 1 THEN 0 ELSE (head - 1) - tail + 1
      BY ZenonT(60), <2>1, FS_Interval
    <2> QED
      BY SMTT(60), <1>1, <2>2
  <1>5. Cardinality(window) <= Cardinality(commitQueueSem)
    <2>1. IsFiniteSet(commitQueueSem)
      BY Zenon DEF Reserved
    <2> HIDE DEF window
    <2> QED
      BY ZenonT(60), <1>3, <2>1, FS_Injection
  <1>6. Cardinality(commitQueueSem) \in Nat
    BY Zenon, FS_CardinalityType DEF Reserved
  <1> QED
    BY SMTT(60), <1>1, <1>4, <1>5, <1>6, PipelineAssumption DEF Reserved

LEMMA InitReserved == Init => Reserved
  <1> SUFFICES ASSUME Init PROVE Reserved
    OBVIOUS
  <1>1. /\ commitQueueSem = {}
        /\ \A b \in Batch : kind[b] # "empty" => pc[b] = "start"
    BY SMTT(30) DEF Init
  <1>2. IsFiniteSet({}) /\ Cardinality({}) = 0
    BY Zenon, FS_EmptySet
  <1>3. 0 <= Slots - 1
    BY SMTT(30), PipelineAssumption
  <1> QED
    BY ZenonT(60), <1>1, <1>2, <1>3 DEF Reserved, Holds, Free

LEMMA ReservedInvariance == Spec => []Reserved
  <1>1. ASSUME Inv, Reserved, [Next]_vars PROVE Reserved'
    <2>1. CASE UNCHANGED <<kind, pc, commitQueueSem>>
      BY ZenonT(60), <1>1, <2>1, ReservedKept DEF Holds
    <2>2. ASSUME FlushLoop PROVE UNCHANGED <<kind, pc, commitQueueSem>>
      BY Zenon, <2>2 DEF FlushLoop, GrabWaiters, GrabData, WriteAndSync, PopWaiter,
                         ReleaseSync, LogUnchanged
    <2>3. ASSUME UNCHANGED vars PROVE UNCHANGED <<kind, pc, commitQueueSem>>
      BY ZenonT(60), <2>3 DEF vars, semVars, queueVars, batchVars, localVars, logVars
    <2> QED
      BY ZenonT(60), <1>1, <2>1, <2>2, <2>3, ReservedStep DEF Next, Finished
  <1> QED
    BY <1>1, InitInv, InvStep, InitReserved, PTL DEF Spec

-----------------------------------------------------------------------------
\* A batch holds a unit of logSyncQSem from before it is numbered until
\* flushLoop has taken it from the sync queue.
Claiming == {"lock"} \cup Writing
HoldsSync(b) == Syncs(b) /\ (pc[b] \in Claiming \/ Waiting(b))

\* The batch whose unit flushLoop gives back does not need it any more.
Releasing ==
    flusher.at = "release" =>
        flusher.by \in Batch /\ Written(flusher.by) /\ ~Waiting(flusher.by)

SyncReserved ==
    /\ logSyncQSem \subseteq Batch /\ IsFiniteSet(logSyncQSem)
    /\ Cardinality(logSyncQSem) <= Slots - 1
    /\ \A b \in Batch : HoldsSync(b) => b \in logSyncQSem

SyncInv == SyncReserved /\ Releasing

\* A set of at most Slots - 1 batches, with one more or with one less.
LEMMA UnitTaken ==
    ASSUME NEW S, NEW b, IsFiniteSet(S), Cardinality(S) < Slots - 1
    PROVE  IsFiniteSet(S \cup {b}) /\ Cardinality(S \cup {b}) <= Slots - 1
  <1>1. Cardinality(S) \in Nat
    BY Zenon, FS_CardinalityType
  <1>2. /\ IsFiniteSet(S \cup {b})
        /\ \/ Cardinality(S \cup {b}) = Cardinality(S)
           \/ Cardinality(S \cup {b}) = Cardinality(S) + 1
    BY ZenonT(60), FS_AddElement
  <1> QED
    BY SMTT(60), <1>1, <1>2, PipelineAssumption

LEMMA UnitGiven ==
    ASSUME NEW S, NEW b, IsFiniteSet(S), Cardinality(S) <= Slots - 1
    PROVE  IsFiniteSet(S \ {b}) /\ Cardinality(S \ {b}) <= Slots - 1
  <1>1. Cardinality(S) \in Nat
    BY Zenon, FS_CardinalityType
  <1>2. /\ IsFiniteSet(S \ {b})
        /\ \/ Cardinality(S \ {b}) = Cardinality(S)
           \/ Cardinality(S \ {b}) = Cardinality(S) - 1
    BY ZenonT(60), FS_RemoveElement
  <1> QED
    BY SMTT(60), <1>1, <1>2, PipelineAssumption

LEMMA SyncInvKept ==
    ASSUME SyncInv, UNCHANGED <<logSyncQSem, flusher>>,
           \A c \in Batch : HoldsSync(c)' => HoldsSync(c),
           \A c \in Batch : Written(c) /\ ~Waiting(c) => Written(c)' /\ ~Waiting(c)'
    PROVE  SyncInv'
  <1>1. SyncReserved'
    BY Zenon DEF SyncInv, SyncReserved
  <1>2. Releasing'
    BY Zenon DEF SyncInv, Releasing
  <1> QED
    BY Zenon, <1>1, <1>2 DEF SyncInv

LEMMA SyncInvStep ==
    ASSUME Inv, CommitInv, SyncInv, NEW b \in Batch, Step(b)
    PROVE  SyncInv'
  <1>1. Types /\ (kind[b] = "empty" => pc[b] = "returned")
    BY Zenon DEF Inv, Applied
  <1>2. CASE ReserveSync(b)
    <2>1. /\ logSyncQSem' = logSyncQSem \cup {b}
          /\ UNCHANGED <<kind, syncQ, flusher>>
          /\ pc[b] = "reserveSync"
          /\ \A c \in Batch \ {b} : pc'[c] = pc[c]
      BY ZenonT(60), <1>1, <1>2 DEF ReserveSync, Types, Goto, logVars
    <2>2. IsFiniteSet(logSyncQSem') /\ Cardinality(logSyncQSem') <= Slots - 1
      <3>1. IsFiniteSet(logSyncQSem) /\ Cardinality(logSyncQSem) < Slots - 1
        BY Zenon, <1>2 DEF SyncInv, SyncReserved, ReserveSync
      <3> QED
        BY ZenonT(60), <2>1, <3>1, UnitTaken
    <2>3. \A c \in Batch : c # b /\ HoldsSync(c)' => HoldsSync(c)
      BY ZenonT(60), <2>1 DEF HoldsSync, Syncs, Waiting
    <2>4. SyncReserved'
      BY ZenonT(60), <2>1, <2>2, <2>3 DEF SyncInv, SyncReserved
    <2>5. "reserveSync" \in Held
      BY Zenon DEF Held
    <2>6. ~Written(b)
      BY Zenon, <2>1, <2>5 DEF Written
    <2>7. \A c \in Batch : Written(c) /\ ~Waiting(c) => Written(c)' /\ ~Waiting(c)'
      BY ZenonT(60), <2>1, <2>6 DEF Written, Waiting
    <2>8. Releasing'
      BY Zenon, <2>1, <2>7 DEF SyncInv, Releasing
    <2> QED
      BY Zenon, <2>4, <2>8 DEF SyncInv
  <1>3. CASE WriteRecord(b)
    <2>1. /\ pc[b] = "write" /\ pc'[b] = "apply"
          /\ UNCHANGED <<kind, logSyncQSem, flusher>>
          /\ \A c \in Batch \ {b} : pc'[c] = pc[c]
          /\ syncQ' = IF Syncs(b) THEN Append(syncQ, b) ELSE syncQ
      BY ZenonT(60), <1>1, <1>3 DEF WriteRecord, Push, Types, Goto, semVars
    <2>2. ASSUME NEW c \in Batch, c # b PROVE Waiting(c)' => Waiting(c)
      <3>1. CASE Syncs(b)
        <4>1. syncQ' = Append(syncQ, b) /\ syncQ \in Seq(Batch)
          BY Zenon, <2>1, <3>1 DEF CommitInv, LogSide, LogTypes
        <4>2. /\ \A i \in 1..Len(syncQ') : i \in 1..Len(syncQ) \/ i = Len(syncQ) + 1
              /\ \A i \in 1..Len(syncQ) : syncQ'[i] = syncQ[i]
              /\ syncQ'[Len(syncQ) + 1] = b
          BY ZenonT(60), <4>1, Appended
        <4> QED
          BY ZenonT(60), <2>2, <4>2 DEF Waiting
      <3>2. CASE ~Syncs(b)
        BY Zenon, <2>1, <3>2 DEF Waiting
      <3> QED
        BY ZenonT(60), <3>1, <3>2
    <2>3. pc[b] \in Claiming /\ ~Written(b)
      BY Zenon, <2>1 DEF Claiming, Writing, Written
    <2>4. \A c \in Batch : HoldsSync(c)' => HoldsSync(c)
      BY ZenonT(60), <2>1, <2>2, <2>3 DEF HoldsSync, Syncs
    <2>5. \A c \in Batch : Written(c) /\ ~Waiting(c) => Written(c)' /\ ~Waiting(c)'
      BY ZenonT(60), <2>1, <2>2, <2>3 DEF Written
    <2> QED
      BY ZenonT(60), <2>1, <2>4, <2>5, SyncInvKept
  <1>4. ASSUME UNCHANGED <<kind, logSyncQSem, syncQ, flusher>>,
               Syncs(b) /\ pc'[b] \in Claiming => pc[b] \in Claiming,
               pc'[b] \in Free \cup Held \cup Writing => pc[b] \in Free \cup Held \cup Writing
        PROVE  SyncInv'
    <2>1. \A c \in Batch \ {b} : pc'[c] = pc[c]
      BY Zenon, <1>1, OthersStay
    <2>2. \A c \in Batch : HoldsSync(c)' => HoldsSync(c)
      BY ZenonT(60), <1>4, <2>1 DEF HoldsSync, Syncs, Waiting
    <2>3. \A c \in Batch : Written(c) /\ ~Waiting(c) => Written(c)' /\ ~Waiting(c)'
      BY ZenonT(60), <1>4, <2>1 DEF Written, Waiting
    <2> QED
      BY ZenonT(60), <1>4, <2>2, <2>3, SyncInvKept
  <1>5. ASSUME UNCHANGED <<kind, logSyncQSem, syncQ, flusher>>,
               pc'[b] \notin Free \cup Held \cup Writing
        PROVE  SyncInv'
    <2>1. pc'[b] \notin Claiming
      BY ZenonT(60), <1>5 DEF Claiming, Held
    <2> QED
      BY ZenonT(60), <1>4, <1>5, <2>1
  <1>6. CASE ReserveIngest(b)
    <2>1. UNCHANGED <<kind, logSyncQSem, syncQ, flusher>>
      BY ZenonT(60), <1>6 DEF ReserveIngest, semVars, logVars
    <2>2. pc[b] = "start" /\ pc'[b] = "reserve"
      BY SMTT(60), <1>1, <1>6 DEF ReserveIngest, Types, Goto, Free
    <2>3. pc[b] \in Free /\ (Syncs(b) => pc'[b] \notin Claiming)
      BY SMTT(60), <2>2 DEF Free, Claiming, Writing
    <2> QED
      BY ZenonT(60), <1>4, <2>1, <2>3
  <1>7. CASE Reserve(b)
    <2>1. UNCHANGED <<kind, logSyncQSem, syncQ, flusher>>
      BY ZenonT(60), <1>7 DEF Reserve, semVars, logVars
    <2>2. pc[b] \in Free /\ (Syncs(b) => pc'[b] = "reserveSync")
      BY SMTT(60), <1>1, <1>7 DEF Reserve, Types, Goto, Free
    <2>3. pc[b] \in Free /\ (Syncs(b) => pc'[b] \notin Claiming)
      BY SMTT(60), <2>2 DEF Free, Claiming, Writing
    <2> QED
      BY ZenonT(60), <1>4, <2>1, <2>3
  <1>8. CASE Lock(b) \/ Enqueue(b) \/ AdvanceHead(b)
    <2>1. UNCHANGED <<kind, logSyncQSem, syncQ, flusher>>
      BY ZenonT(60), <1>8 DEF Lock, Enqueue, AdvanceHead, semVars, logVars
    <2>2. pc[b] \in Claiming
      BY SMTT(60), <1>8 DEF Lock, Enqueue, AdvanceHead, Claiming, Writing
    <2>3. pc[b] \in Held \cup Writing
      BY ZenonT(60), <2>2 DEF Claiming, Held
    <2> QED
      BY ZenonT(60), <1>4, <2>1, <2>2, <2>3
  <1>9. CASE SetSeqNum(b)
    <2>1. UNCHANGED <<kind, logSyncQSem, syncQ, flusher>>
      BY ZenonT(60), <1>9 DEF SetSeqNum, semVars, logVars
    <2>2. pc[b] \in Claiming
      BY SMTT(60), <1>9 DEF SetSeqNum, Claiming, Writing
    <2>3. pc[b] \in Held \cup Writing
      BY ZenonT(60), <2>2 DEF Claiming, Held
    <2> QED
      BY ZenonT(60), <1>4, <2>1, <2>2, <2>3
  <1>10. CASE Drain(b) \/ Apply(b) \/ MarkApplied(b)
    <2>1. UNCHANGED <<kind, logSyncQSem, syncQ, flusher>>
      BY ZenonT(60), <1>10 DEF Drain, Apply, MarkApplied, semVars, logVars
    <2>2. pc'[b] \notin Free \cup Held \cup Writing
      <3>1. Drain(b) => pc'[b] \in {"apply"}
        BY ZenonT(60), <1>1 DEF Drain, Types, Goto
      <3>2. Apply(b) => pc'[b] \in {"mark"}
        BY ZenonT(60), <1>1 DEF Apply, Types, Goto
      <3>3. MarkApplied(b) => pc'[b] \in {"load"}
        BY ZenonT(60), <1>1 DEF MarkApplied, Types, Goto
      <3> QED
        BY SMTT(60), <1>10, <3>1, <3>2, <3>3 DEF Free, Held, Writing
    <2> QED
      BY ZenonT(60), <1>5, <2>1, <2>2
  <1>11. CASE LoadHeadTail(b) \/ LoadSlot(b)
    <2>1. UNCHANGED <<kind, logSyncQSem, syncQ, flusher>>
      BY ZenonT(60), <1>11 DEF LoadHeadTail, LoadSlot, semVars, logVars
    <2>2. pc'[b] \notin Free \cup Held \cup Writing
      <3>1. LoadHeadTail(b) => pc'[b] \in {"wait", "slot"}
        BY ZenonT(60), <1>1 DEF LoadHeadTail, Types, Goto
      <3>2. LoadSlot(b) => pc'[b] \in {"wait", "check"}
        BY ZenonT(60), <1>1 DEF LoadSlot, Types, Goto
      <3> QED
        BY SMTT(60), <1>11, <3>1, <3>2 DEF Free, Held, Writing
    <2> QED
      BY ZenonT(60), <1>5, <2>1, <2>2
  <1>12. CASE CheckApplied(b) \/ CompareAndSwapTail(b)
    <2>1. UNCHANGED <<kind, logSyncQSem, syncQ, flusher>>
      BY ZenonT(60), <1>12 DEF CheckApplied, CompareAndSwapTail, semVars, logVars
    <2>2. pc'[b] \notin Free \cup Held \cup Writing
      <3>1. CheckApplied(b) => pc'[b] \in {"cas", "wait"}
        BY ZenonT(60), <1>1 DEF CheckApplied, Types, Goto
      <3>2. CompareAndSwapTail(b) => pc'[b] \in {"clear", "load"}
        BY ZenonT(60), <1>1 DEF CompareAndSwapTail, Types, Goto
      <3> QED
        BY SMTT(60), <1>12, <3>1, <3>2 DEF Free, Held, Writing
    <2> QED
      BY ZenonT(60), <1>5, <2>1, <2>2
  <1>13. CASE ClearSlot(b) \/ LoadVisible(b)
    <2>1. UNCHANGED <<kind, logSyncQSem, syncQ, flusher>>
      BY ZenonT(60), <1>13 DEF ClearSlot, LoadVisible, semVars, logVars
    <2>2. pc'[b] \notin Free \cup Held \cup Writing
      <3>1. ClearSlot(b) => pc'[b] \in {"ratchet"}
        BY ZenonT(60), <1>1 DEF ClearSlot, Types, Goto
      <3>2. LoadVisible(b) => pc'[b] \in {"done", "publish"}
        BY ZenonT(60), <1>1 DEF LoadVisible, Types, Goto
      <3> QED
        BY SMTT(60), <1>13, <3>1, <3>2 DEF Free, Held, Writing
    <2> QED
      BY ZenonT(60), <1>5, <2>1, <2>2
  <1>14. CASE CompareAndSwapVisible(b) \/ DoneCommit(b)
    <2>1. UNCHANGED <<kind, logSyncQSem, syncQ, flusher>>
      BY ZenonT(60), <1>14 DEF CompareAndSwapVisible, DoneCommit, semVars, logVars
    <2>2. pc'[b] \notin Free \cup Held \cup Writing
      <3>1. CompareAndSwapVisible(b) => pc'[b] \in {"done", "ratchet"}
        BY ZenonT(60), <1>1 DEF CompareAndSwapVisible, Types, Goto
      <3>2. DoneCommit(b) => pc'[b] \in {"load"}
        BY ZenonT(60), <1>1 DEF DoneCommit, Types, Goto
      <3> QED
        BY SMTT(60), <1>14, <3>1, <3>2 DEF Free, Held, Writing
    <2> QED
      BY ZenonT(60), <1>5, <2>1, <2>2
  <1>15. CASE Return(b) \/ SyncWait(b)
    <2>1. UNCHANGED <<kind, logSyncQSem, syncQ, flusher>>
      BY ZenonT(60), <1>15 DEF Return, SyncWait, semVars, logVars
    <2>2. pc'[b] \notin Free \cup Held \cup Writing
      <3>1. Return(b) => pc'[b] \in {"fatal", "returned"}
        BY ZenonT(60), <1>1 DEF Return, Types, Goto
      <3>2. SyncWait(b) => pc'[b] \in {"failed", "synced"}
        BY ZenonT(60), <1>1 DEF SyncWait, Types, Goto
      <3> QED
        BY SMTT(60), <1>15, <3>1, <3>2 DEF Free, Held, Writing
    <2> QED
      BY ZenonT(60), <1>5, <2>1, <2>2
  <1> QED
    BY ZenonT(60), <1>2, <1>3, <1>6, <1>7, <1>8, <1>9, <1>10, <1>11, <1>12, <1>13,
       <1>14, <1>15 DEF Step

\* flushLoop takes a batch out of the sync queue before it gives its unit back.
LEMMA SyncInvFlush ==
    ASSUME CommitInv, SyncInv, FlushLoop
    PROVE  SyncInv'
  <1>1. UNCHANGED <<kind, pc>>
    BY Zenon DEF FlushLoop, GrabWaiters, GrabData, WriteAndSync, PopWaiter,
                 ReleaseSync, LogUnchanged
  <1>2. \A c : (Written(c)' <=> Written(c)) /\ (Syncs(c)' <=> Syncs(c))
    BY Zenon, <1>1 DEF Written, Syncs
  <1>3. /\ syncQ \in Seq(Batch) /\ flusher \in Flusher /\ flusher.waiters <= Len(syncQ)
        /\ \A i, j \in 1..Len(syncQ) : syncQ[i] = syncQ[j] => i = j
        /\ \A i \in 1..Len(syncQ) : Written(syncQ[i])
    BY Zenon DEF CommitInv, LogSide, LogTypes, SyncQueue, Flushing
  <1>4. CASE GrabWaiters \/ GrabData \/ WriteAndSync
    <2>1. UNCHANGED <<logSyncQSem, syncQ>>
      BY Zenon, <1>4 DEF GrabWaiters, GrabData, WriteAndSync
    <2>2. flusher'.at # "release"
      <3>1. CASE GrabWaiters
        BY SMTT(60), <1>3, <3>1 DEF GrabWaiters, Flusher
      <3>2. CASE GrabData
        BY SMTT(60), <1>3, <3>2 DEF GrabData, Flusher
      <3>3. CASE WriteAndSync
        <4>1. \/ flusher' = [flusher EXCEPT !.at = "pop", !.written = 0]
              \/ flusher' = [flusher EXCEPT !.at = "pop", !.written = 0,
                                            !.err = TRUE, !.errors = @ + 1]
          BY Zenon, <3>3 DEF WriteAndSync
        <4>2. flusher'.at = "pop"
          BY Zenon, <1>3, <4>1 DEF Flusher
        <4> QED
          BY SMTT(30), <4>2
      <3> QED
        BY ZenonT(60), <1>4, <3>1, <3>2, <3>3
    <2>3. SyncReserved'
      BY ZenonT(60), <1>1, <1>2, <2>1 DEF SyncInv, SyncReserved, HoldsSync, Waiting
    <2> QED
      BY Zenon, <2>2, <2>3 DEF SyncInv, Releasing
  <1>5. CASE PopWaiter
    <2>1. /\ flusher.waiters > 0 /\ syncQ' = Tail(syncQ) /\ logSyncQSem' = logSyncQSem
          /\ flusher' = [flusher EXCEPT !.at = "release", !.waiters = @ - 1, !.by = Head(syncQ)]
      BY Zenon, <1>5 DEF PopWaiter
    <2>2. flusher'.by = Head(syncQ)
      BY ZenonT(60), <1>3, <2>1 DEF Flusher
    <2>3. /\ 1 \in 1..Len(syncQ) /\ Head(syncQ) = syncQ[1] /\ Head(syncQ) \in Batch
          /\ Len(syncQ') = Len(syncQ) - 1 /\ Len(syncQ) \in Nat
          /\ \A i \in 1..Len(syncQ') : syncQ'[i] = syncQ[i + 1]
      BY SMTT(60), <1>3, <2>1 DEF Flusher
    <2>4. \A i \in 1..Len(syncQ') : i + 1 \in 1..Len(syncQ) /\ i + 1 # 1
      BY SMTT(60), <2>3
    <2>5. \A c : Waiting(c)' => Waiting(c)
      BY ZenonT(60), <2>3, <2>4 DEF Waiting
    <2>6. PICK x \in Batch : x = Head(syncQ)
      BY Zenon, <2>3
    <2>7. ~Waiting(x)'
      <3> SUFFICES ASSUME NEW i \in 1..Len(syncQ'), syncQ'[i] = x PROVE FALSE
        BY Zenon DEF Waiting
      <3> QED
        BY ZenonT(60), <1>3, <2>3, <2>4, <2>6
    <2>8. Written(x)'
      BY ZenonT(60), <1>2, <1>3, <2>3, <2>6
    <2>9. SyncReserved'
      BY ZenonT(60), <1>1, <1>2, <2>1, <2>5 DEF SyncInv, SyncReserved, HoldsSync
    <2>10. Releasing'
      BY ZenonT(60), <2>2, <2>6, <2>7, <2>8 DEF Releasing
    <2> QED
      BY Zenon, <2>9, <2>10 DEF SyncInv
  <1>6. CASE ReleaseSync
    <2>1. /\ flusher.at = "release" /\ logSyncQSem' = logSyncQSem \ {flusher.by}
          /\ syncQ' = syncQ
          /\ flusher' = [flusher EXCEPT !.at = IF flusher.waiters > 0 THEN "pop" ELSE "idle",
                                        !.by = NoBatch]
      BY Zenon, <1>6 DEF ReleaseSync
    <2>2. flusher'.at # "release"
      BY SMTT(60), <1>3, <2>1 DEF Flusher
    <2>3. Written(flusher.by) /\ ~Waiting(flusher.by)
      BY Zenon, <2>1 DEF SyncInv, Releasing
    <2>4. ~HoldsSync(flusher.by)
      BY ZenonT(60), <2>3 DEF HoldsSync, Written, Claiming, Held
    <2>5. \A c \in Batch : HoldsSync(c)' => HoldsSync(c)
      BY Zenon, <1>1, <1>2, <2>1 DEF HoldsSync, Waiting
    <2>6. IsFiniteSet(logSyncQSem') /\ Cardinality(logSyncQSem') <= Slots - 1
      BY ZenonT(60), <2>1, UnitGiven DEF SyncInv, SyncReserved
    <2>7. SyncReserved'
      BY ZenonT(60), <2>1, <2>4, <2>5, <2>6 DEF SyncInv, SyncReserved
    <2> QED
      BY Zenon, <2>2, <2>7 DEF SyncInv, Releasing
  <1> QED
    BY ZenonT(60), <1>4, <1>5, <1>6 DEF FlushLoop

LEMMA InitSync == Init => SyncInv
  <1> SUFFICES ASSUME Init PROVE SyncInv
    OBVIOUS
  <1>1. /\ logSyncQSem = {} /\ syncQ = <<>> /\ flusher.at = "idle"
        /\ \A b \in Batch : pc[b] \in {"start", "returned"}
    BY SMTT(60) DEF Init
  <1>2. IsFiniteSet({}) /\ Cardinality({}) = 0
    BY Zenon, FS_EmptySet
  <1>3. 0 <= Slots - 1
    BY SMTT(30), PipelineAssumption
  <1>4. \A b \in Batch : ~HoldsSync(b)
    <2>1. \A b \in Batch : ~Waiting(b)
      BY SMTT(60), <1>1 DEF Waiting
    <2>2. \A p \in {"start", "returned"} : p \notin Claiming
      BY SMTT(30) DEF Claiming, Writing
    <2> QED
      BY ZenonT(60), <1>1, <2>1, <2>2 DEF HoldsSync
  <1>5. flusher.at # "release"
    BY SMTT(60), <1>1
  <1> QED
    BY ZenonT(60), <1>1, <1>2, <1>3, <1>4, <1>5 DEF SyncInv, SyncReserved, Releasing

LEMMA SyncInvariance == Spec => []SyncInv
  <1>1. ASSUME Inv, CommitInv, SyncInv, [Next]_vars PROVE SyncInv'
    <2>1. CASE UNCHANGED vars
      <3>1. UNCHANGED <<kind, pc, logSyncQSem, syncQ, flusher>>
        BY ZenonT(60), <2>1 DEF vars, semVars, logVars
      <3> QED
        BY ZenonT(60), <1>1, <3>1, SyncInvKept DEF HoldsSync, Syncs, Waiting, Written
    <2> QED
      BY ZenonT(60), <1>1, <2>1, SyncInvStep, SyncInvFlush DEF Next, Finished
  <1> QED
    BY <1>1, ReturnInvariance, InitSync, PTL DEF Spec

\* The batches in the sync queue are different and hold a unit each.
LEMMA RoomToWait ==
    ASSUME CommitInv, SyncInv
    PROVE  Len(syncQ) < Slots
  <1> DEFINE places == 1..Len(syncQ)
             f == [i \in places |-> syncQ[i]]
  <1>1. /\ syncQ \in Seq(Batch)
        /\ \A i, j \in places : syncQ[i] = syncQ[j] => i = j
        /\ \A i \in places : Syncs(syncQ[i])
    BY Zenon DEF CommitInv, LogSide, LogTypes, SyncQueue
  <1>2. Len(syncQ) \in Nat
    BY Zenon, <1>1, LenProperties
  <1>3. f \in Injection(places, logSyncQSem)
    <2>1. ASSUME NEW i \in places PROVE syncQ[i] \in logSyncQSem
      <3>1. syncQ[i] \in Batch
        BY Zenon, <1>1, ElementOfSeq
      <3>2. HoldsSync(syncQ[i])
        BY Zenon, <1>1 DEF HoldsSync, Waiting
      <3> QED
        BY Zenon, <3>1, <3>2 DEF SyncInv, SyncReserved
    <2>2. f \in [places -> logSyncQSem]
      BY Zenon, <2>1
    <2>3. \A i, j \in places : f[i] = f[j] => i = j
      BY Zenon, <1>1
    <2> QED
      BY ZenonT(60), <2>2, <2>3 DEF Injection, IsInjective
  <1>4. IsFiniteSet(places) /\ Cardinality(places) = Len(syncQ)
    <2>1. 1 \in Int /\ Len(syncQ) \in Int
      BY <1>2
    <2>2. /\ IsFiniteSet(places)
          /\ Cardinality(places) = IF 1 > Len(syncQ) THEN 0 ELSE Len(syncQ) - 1 + 1
      BY ZenonT(60), <2>1, FS_Interval
    <2> QED
      BY SMTT(60), <1>2, <2>2
  <1>5. Cardinality(places) <= Cardinality(logSyncQSem)
    <2>1. IsFiniteSet(logSyncQSem)
      BY Zenon DEF SyncInv, SyncReserved
    <2> HIDE DEF places, f
    <2> QED
      BY ZenonT(60), <1>3, <2>1, FS_Injection
  <1>6. Cardinality(logSyncQSem) \in Nat /\ Cardinality(logSyncQSem) <= Slots - 1
    BY Zenon, FS_CardinalityType DEF SyncInv, SyncReserved
  <1> QED
    BY SMTT(60), <1>2, <1>4, <1>5, <1>6, PipelineAssumption

\* The semaphores of Slots - 1 units keep both queues from being full, so that
\* neither commitQueue.enqueue nor syncQueue.push panics.
THEOREM QueueNeverFull == Spec => []NeverFull
  <1>1. Inv /\ CommitInv /\ Reserved /\ SyncInv => NeverFull
    BY Zenon, RoomForOne, RoomToWait DEF NeverFull, CommitInv, QueueSide
  <1> QED
    BY <1>1, ReturnInvariance, ReservedInvariance, SyncInvariance, PTL
=============================================================================
