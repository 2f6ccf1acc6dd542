---------------------------- MODULE FrameMessages ----------------------------
(***************************************************************************)
(* How a data node receives the frames other provers publish:              *)
(* consensus/data/fragmentation/clock_frame.go and the handlers of         *)
(* consensus/data/message_handler.go.                                      *)
(*                                                                         *)
(* A frame travels whole, or as Reed-Solomon fragments, or both; messages  *)
(* are lost, reordered and repeated. One goroutine handles whole frames,   *)
(* another one fragments, and both end in handleClockFrame, whose look at  *)
(* recentlyProcessedFrames, note in it and verification interleave.        *)
(***************************************************************************)
EXTENDS Integers, Sequences, FiniteSets, Functions

CONSTANTS
    Frame, NoFrame,
    Prover,         \* addresses that sign frames
    Signer,         \* Signer[f]: the prover of the frame
    FrameNumber,
    Output,         \* Output[f]: its output, which frames may have in common
    Mode,           \* Mode[f]: how its prover publishes it (FramePublish.Mode)
    Large,          \* the frames that reach FramePublish.Threshold
    Valid,          \* the frames VerifyDataClockFrame accepts
    Shard,          \* the shards of a split frame
    NoShard,
    DataShards,     \* how many of them are data shards
    MaxBuffers,     \* maxSize of the circular buffer: 16
    MaxRecent,      \* size of the cache recentlyProcessedFrames: 25
    MaxRepeats      \* bound: fragments that are delivered once more

ASSUME FragmentAssumption ==
    /\ NoFrame \notin Frame /\ NoShard \notin Shard
    /\ FrameNumber \in [Frame -> Nat \ {0}]
    /\ Signer \in [Frame -> Prover]
    /\ Mode \in [Frame -> {"full", "fragmented", "dual", "threshold"}]
    /\ IsFiniteSet(Shard) /\ DataShards \in 1..(Cardinality(Shard) - 1)
    /\ MaxBuffers \in Nat \ {0} /\ MaxRecent \in Nat \ {0}

Handler == {"frame", "fragment"}

Outputs == {Output[f] : f \in Frame}

VARIABLES
    buffers,     \* per frame hash, the fragments a buffer holds
    keys,        \* its keys, oldest first
    builtKeys,   \* the frames built lately, oldest first
    handler,     \* where each goroutine is in handleClockFrame, and its frame
    recent,      \* recentlyProcessedFrames: outputs of frames, oldest first
    noted,       \* the frame that an output was last noted for (a history)
    trie,        \* the first of frameProverTries
    inserted,    \* frames given to the time reel
    head,        \* the number of the reel's head
    since,       \* shards that came since the frame's buffer was made
    repeats      \* how many fragments came to a buffer once more

bufferVars == <<buffers, keys, builtKeys, since>>
cacheVars == <<recent, noted>>
reelVars == <<inserted, head>>
vars == <<bufferVars, handler, cacheVars, trie, reelVars, repeats>>

\* The list of fragments of a buffer: its first shard, its shards, its length.
Fragments == [first : Shard \cup {NoShard}, shards : SUBSET Shard, len : Nat]

TypeOK ==
    /\ DOMAIN buffers \subseteq Frame
    /\ \A f \in DOMAIN buffers : buffers[f] \in Fragments
    /\ keys \in Seq(Frame) /\ builtKeys \in Seq(Frame) /\ recent \in Seq(Outputs)
    /\ handler \in [Handler -> [at : {"idle", "peek", "add", "verify"},
                                frame : Frame \cup {NoFrame}]]
    /\ trie \subseteq Prover /\ inserted \subseteq Frame
    /\ noted \in [Outputs -> Frame \cup {NoFrame}]
    /\ head \in Nat
    /\ since \in [Frame -> SUBSET Shard]
    /\ repeats \in Nat

Idle == [at |-> "idle", frame |-> NoFrame]

\* A list without one of its elements, which is there only once.
Without(q, f) ==
    LET i == CHOOSE i \in DOMAIN q : q[i] = f
    IN  IF f \in Range(q)
        THEN [j \in 1..(Len(q) - 1) |-> IF j < i THEN q[j] ELSE q[j + 1]]
        ELSE q

\* A list of at most n elements with one more at its end; the oldest makes room.
Pushed(q, f, n) == Append(IF Len(q) = n THEN Tail(q) ELSE q, f)

-----------------------------------------------------------------------------
(* publishProof: what is sent of a frame.                                  *)

PublishedFragmented(f) ==
    \/ Mode[f] \in {"fragmented", "dual"}
    \/ Mode[f] = "threshold" /\ f \in Large

PublishedFull(f) ==
    \/ Mode[f] \in {"full", "dual"}
    \/ Mode[f] = "threshold" /\ f \notin Large

-----------------------------------------------------------------------------
(* The fragment buffers.                                                   *)

NoFragments == [first |-> NoShard, shards |-> {}, len |-> 0]

\* Fault: a shard that is there twice is not noticed.
AssembleRepeated(b) == b.len >= DataShards /\ b.len >= 4

\* AssembleClockFrame. No shard may be there twice. Each fragment supplies one
\* field of the header that is still missing, in the order frame number,
\* filter, timestamp, hash: the hash is known from the fourth fragment on, and
\* without it the comparison of hashes fails.
AssembleClockFrame(b) ==
    /\ b.len = Cardinality(b.shards)
    /\ b.len >= DataShards
    /\ b.len >= 4

\* Fault: the buffer waits for one fragment more than it needs.
AccumulateOneMore(b, s) ==
    LET added == [first |-> IF b.len = 0 THEN s ELSE b.first,
                  shards |-> b.shards \cup {s}, len |-> b.len + 1]
    IN  CASE s = b.first -> [buffer |-> b, built |-> FALSE]
          [] s # b.first /\ added.len <= DataShards ->
                [buffer |-> added, built |-> FALSE]
          [] OTHER -> [buffer |-> NoFragments, built |-> AssembleClockFrame(added)]

\* AccumulateClockFrameFragment of one frame's buffer. A repeated shard is
\* refused only when it is the first of the list: have records that one.
Accumulate(b, s) ==
    LET added == [first |-> IF b.len = 0 THEN s ELSE b.first,
                  shards |-> b.shards \cup {s}, len |-> b.len + 1]
    IN  CASE s = b.first -> [buffer |-> b, built |-> FALSE]
          [] s # b.first /\ added.len < DataShards ->
                [buffer |-> added, built |-> FALSE]
          [] OTHER -> [buffer |-> NoFragments, built |-> AssembleClockFrame(added)]

\* The buffer of a frame, made when there is none; the oldest makes room.
Made(f) ==
    LET full == Cardinality(DOMAIN buffers) = MaxBuffers
        kept == IF full THEN DOMAIN buffers \ {keys[1]} ELSE DOMAIN buffers
    IN  IF f \in DOMAIN buffers
        THEN [buffers |-> buffers, keys |-> keys]
        ELSE [buffers |-> [g \in kept \cup {f} |->
                              IF g = f THEN NoFragments ELSE buffers[g]],
              keys |-> Append(IF full THEN Tail(keys) ELSE keys, f)]

\* Fault: the key of the buffer stays in the list.
CompleteKeepingKey(f, made) ==
    /\ buffers' = [g \in DOMAIN made.buffers \ {f} |-> made.buffers[g]]
    /\ keys' = made.keys
    /\ builtKeys' = Pushed(builtKeys, f, MaxBuffers)
    /\ handler' = [handler EXCEPT !["fragment"] = [at |-> "peek", frame |-> f]]

\* The frame is complete: its buffer goes, and it is remembered as built.
Complete(f, made) ==
    /\ buffers' = [g \in DOMAIN made.buffers \ {f} |-> made.buffers[g]]
    /\ keys' = Without(made.keys, f)
    /\ builtKeys' = Pushed(builtKeys, f, MaxBuffers)
    /\ handler' = [handler EXCEPT !["fragment"] = [at |-> "peek", frame |-> f]]

Came(f) == IF f \in DOMAIN buffers THEN since[f] ELSE {}

\* AccumulateClockFrameFragment of the circular buffer.
AccumulateClockFrameFragment(f, s) ==
    LET made == Made(f)
        r == Accumulate(made.buffers[f], s)
    IN  IF f \in Range(builtKeys)
        THEN UNCHANGED <<bufferVars, handler>>
        ELSE /\ since' = [g \in Frame |->
                             CASE g = f -> Came(f) \cup {s}
                               [] g # f /\ g \in DOMAIN made.buffers -> since[g]
                               [] OTHER -> {}]
             /\ \/ r.built /\ Complete(f, made)
                \/ /\ ~r.built
                   /\ buffers' = [made.buffers EXCEPT ![f] = r.buffer]
                   /\ keys' = made.keys
                   /\ UNCHANGED <<builtKeys, handler>>

-----------------------------------------------------------------------------
(* The handlers.                                                           *)

Repeated(f, s) == s \in Came(f)

\* handleClockFrameFragment, up to handleClockFrame. The fragments of a prover
\* that is not in the trie are ignored.
HandleFragment(f, s) ==
    /\ handler["fragment"] = Idle
    /\ PublishedFragmented(f)
    /\ Signer[f] \in trie
    /\ Repeated(f, s) => repeats < MaxRepeats
    /\ repeats' = IF Repeated(f, s) THEN repeats + 1 ELSE repeats
    /\ AccumulateClockFrameFragment(f, s)
    /\ UNCHANGED <<cacheVars, trie, reelVars>>

\* handleClockFrameData, up to handleClockFrame.
HandleFrame(f) ==
    /\ handler["frame"] = Idle
    /\ PublishedFull(f)
    /\ handler' = [handler EXCEPT !["frame"] = [at |-> "peek", frame |-> f]]
    /\ UNCHANGED <<bufferVars, cacheVars, trie, reelVars, repeats>>

Leave(h) == handler' = [handler EXCEPT ![h] = Idle]

\* handleClockFrame: the prover is looked up, then the frame's output
\* among the recent ones.
Peek(h) ==
    LET f == handler[h].frame
    IN  /\ handler[h].at = "peek"
        /\ IF Signer[f] \in trie /\ Output[f] \notin Range(recent)
           THEN handler' = [handler EXCEPT ![h].at = "add"]
           ELSE Leave(h)
        /\ UNCHANGED <<bufferVars, cacheVars, trie, reelVars, repeats>>

\* Add of the cache: an output that is there becomes the newest.
Add(h) ==
    LET f == handler[h].frame
    IN  /\ handler[h].at = "add"
        /\ recent' = Pushed(Without(recent, Output[f]), Output[f], MaxRecent)
        /\ noted' = [noted EXCEPT ![Output[f]] = f]
        /\ handler' = [handler EXCEPT ![h].at = "verify"]
        /\ UNCHANGED <<bufferVars, trie, reelVars, repeats>>

\* Fault: only the frame right after the head goes to the reel.
VerifyNext(h) ==
    LET f == handler[h].frame
    IN  /\ handler[h].at = "verify"
        /\ inserted' = IF f \in Valid /\ FrameNumber[f] = head + 1
                       THEN inserted \cup {f} ELSE inserted
        /\ Leave(h)
        /\ UNCHANGED <<bufferVars, cacheVars, trie, head, repeats>>

\* A frame that is not valid, or not above the head, goes no further.
Verify(h) ==
    LET f == handler[h].frame
    IN  /\ handler[h].at = "verify"
        /\ inserted' = IF f \in Valid /\ FrameNumber[f] > head
                       THEN inserted \cup {f} ELSE inserted
        /\ Leave(h)
        /\ UNCHANGED <<bufferVars, cacheVars, trie, head, repeats>>

\* The reel moves to an inserted frame.
SetHead(f) ==
    /\ f \in inserted /\ FrameNumber[f] = head + 1
    /\ head' = head + 1
    /\ UNCHANGED <<bufferVars, handler, cacheVars, trie, inserted, repeats>>

\* processFrame takes the tries over from the reel.
UpdateTries(p) ==
    /\ trie' = IF p \in trie THEN trie \ {p} ELSE trie \cup {p}
    /\ UNCHANGED <<bufferVars, handler, cacheVars, reelVars, repeats>>

Init ==
    /\ buffers = [f \in {} |-> NoFragments]
    /\ keys = <<>> /\ builtKeys = <<>> /\ recent = <<>>
    /\ noted = [o \in Outputs |-> NoFrame]
    /\ handler = [h \in Handler |-> Idle]
    /\ trie = Prover
    /\ inserted = {} /\ head = 0
    /\ repeats = 0
    /\ since = [f \in Frame |-> {}]

Next ==
    \/ \E f \in Frame : \/ \E s \in Shard : HandleFragment(f, s)
                        \/ HandleFrame(f)
                        \/ SetHead(f)
    \/ \E h \in Handler : Peek(h) \/ Add(h) \/ Verify(h)
    \/ \E p \in Prover : UpdateTries(p)

Spec == Init /\ [][Next]_vars

-----------------------------------------------------------------------------
(* Properties.                                                             *)

\* The interface says "If sufficient fragments are available, the ClockFrame is
\* returned": a frame of which DataShards shards arrived at its buffer has no
\* buffer any more.
SufficientBuilds ==
    \A f \in DOMAIN buffers : Cardinality(since[f]) < DataShards

\* The same for the frames of which no fragment was repeated: whatever order
\* the fragments of several frames come in, and although frames are evicted
\* and built ones forgotten, a buffer gives its frame as soon as it can.
OrderIsNoMatter == repeats = 0 => SufficientBuilds

\* What the fragment handler hands on was assembled from as many different
\* shards as it takes, although repeated ones slip into the list.
BuiltFromEnough ==
    handler["fragment"] # Idle =>
        Cardinality(since[handler["fragment"].frame]) >= DataShards

\* The list of keys and the map of buffers tell the same: the oldest key that
\* is evicted has a buffer, there are at most MaxBuffers, and a frame that is
\* remembered as built has none.
BuffersInOrder ==
    /\ Range(keys) = DOMAIN buffers
    /\ Len(keys) = Cardinality(Range(keys)) /\ Len(keys) <= MaxBuffers
    /\ Range(keys) \cap Range(builtKeys) = {}

\* handleClockFrame has done with the frame, or is about to.
Handled(f) ==
    \/ f \in inserted \/ FrameNumber[f] <= head
    \/ \E h \in Handler : handler[h] = [at |-> "verify", frame |-> f]

\* The output of a frame is remembered before the frame is verified, and what
\* comes with the same output later is ignored. However the two goroutines
\* interleave, a valid frame above the head is lost that way only to another
\* frame with its output that does not verify and was noted last; when the
\* frame noted last is valid, it goes to the reel or is not above its head.
RememberedIsHandled ==
    \A f \in Valid : Output[f] \in Range(recent) =>
        \E g \in Frame :
            /\ g = noted[Output[f]] /\ Output[g] = Output[f]
            /\ g \in Valid => Handled(g)
=============================================================================
