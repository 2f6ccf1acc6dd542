------------------------------ MODULE DataSync ------------------------------
(***************************************************************************)
(* How a node that is not a beacon follows the others: the goroutines of   *)
(* node/consensus/data that keep the peer maps and fetch missing frames.   *)
(*                                                                         *)
(*   - the info message handler takes announcements (message_handler.go);  *)
(*   - runSync polls the peers that are ahead (consensus_frames.go);       *)
(*   - the announcer publishes the own head and cleans the peer maps       *)
(*     (data_clock_consensus_engine.go);                                   *)
(*   - runLoop receives each new head (main_data_loop.go);                 *)
(*   - frames also arrive by gossip, and the time reel works on its queue. *)
(*                                                                         *)
(* The time reel is the one of DataTimeReel, with an insertion as one      *)
(* step. A frame is its number and whether its execution succeeds.         *)
(***************************************************************************)
EXTENDS Integers, Sequences, FiniteSets, Functions

CONSTANTS
    Honest,          \* peers that serve the chain when they can be reached
    Unreliable,      \* peers that may answer anything
    Self, NoPeer, NoInfo,
    Announced,       \* Announced[p][t]: the maximal frame p announces at time t
    StartHead,       \* the head when the goroutines start
    MaxFrame,        \* bound: the highest frame
    SyncCandidates,  \* how many peers of a class are sampled
    Lag, Width,      \* the announcer's 100, and 2^64
    MaxStrays        \* bound: frames that come by gossip, or that a peer
                     \* serves and that are not the chain's

Peer == Honest \cup Unreliable

Number == 1..MaxFrame
Info == [max : Number, stamp : Nat]
Candidate == [peer : Peer \cup {Self}, max : Number]

ASSUME SyncAssumption ==
    /\ Honest \cap Unreliable = {} /\ IsFiniteSet(Peer)
    /\ Self \notin Peer /\ NoPeer \notin Peer \cup {Self} /\ NoInfo \notin Info
    /\ MaxFrame \in Nat /\ StartHead \in Number /\ MaxStrays \in Nat
    /\ Announced \in [Peer -> Seq(Number)]

VARIABLES
    head, staged, failing, queue,  \* the reel: head, staged frames, its queue
    dropped,         \* a frame runSync waits for was dropped by the reel
    peerMap,         \* what is known of each peer
    uncooperative,   \* uncooperativePeersMap
    aged,            \* the uncooperative peers the announcer has seen before
    requested,       \* requestSyncCh holds a request
    received,        \* latestFrameReceived
    handler,         \* the info message handler
    announced,       \* the frame the announcer announced last
    sync,            \* runSync
    strays           \* how many frames of those came

reel == <<head, staged, failing, queue, dropped>>
maps == <<peerMap, uncooperative, aged>>
vars == <<reel, maps, requested, received, handler, announced, sync, strays>>

Max2(m, n) == IF m > n THEN m ELSE n

Idle == [at |-> "idle", latest |-> 0, ahead |-> 0, list |-> <<>>,
         peer |-> NoPeer, target |-> 0, cooperative |-> TRUE]
Ready == [at |-> "idle", peer |-> NoPeer, stamp |-> 0]

TypeOK ==
    /\ head \in Number /\ staged \subseteq Number /\ failing \subseteq Number
    /\ queue \in Seq([number : Number, good : BOOLEAN, awaited : BOOLEAN])
    /\ dropped \in BOOLEAN
    /\ peerMap \in [Peer \cup {Self} -> Info \cup {NoInfo}]
    /\ aged \subseteq uncooperative /\ uncooperative \subseteq Peer
    /\ requested \in BOOLEAN
    /\ received \in 0..MaxFrame /\ announced \in Number
    /\ handler \in [at : {"idle", "checked"}, peer : Peer \cup {NoPeer}, stamp : Nat]
    /\ sync \in [at : {"idle", "list", "candidate", "poll", "wait"},
                 latest : 0..MaxFrame, ahead : 0..MaxFrame, list : Seq(Candidate),
                 peer : Peer \cup {Self, NoPeer}, target : 0..MaxFrame,
                 cooperative : BOOLEAN]
    /\ strays \in 0..MaxStrays

Init ==
    /\ head = StartHead /\ staged = {} /\ failing = {} /\ queue = <<>>
    /\ dropped = FALSE
    /\ peerMap = [p \in Peer \cup {Self} |-> NoInfo]
    /\ uncooperative = {} /\ aged = {}
    /\ requested = FALSE /\ received = 0 /\ announced = StartHead
    /\ handler = Ready
    /\ sync = Idle
    /\ strays = 0

-----------------------------------------------------------------------------
(* The time reel.                                                          *)

\* Insert: a frame above the head is staged, the next one is queued too.
Insert(n, good, awaited) ==
    /\ staged' = IF head < n /\ good THEN staged \cup {n} ELSE staged
    /\ failing' = IF head < n /\ ~good THEN failing \cup {n} ELSE failing
    /\ queue' = IF n = head + 1
                THEN Append(queue, [number |-> n, good |-> good, awaited |-> awaited])
                ELSE queue
    /\ UNCHANGED <<head, dropped>>

\* processFrame, in runLoop of the engine: a request that does not block.
ProcessFrame(n) ==
    /\ requested' = TRUE
    /\ received' = Max2(received, n)

\* Fault: the staged frames above the new head are not looked for.
ProcessPendingNone(n) == head' = n

\* processPending from a head n: staged frames are taken until one is missing,
\* or until a failing one with the same number is tried before it.
ProcessPending(n) ==
    \E m \in n..MaxFrame :
        /\ (n + 1)..m \subseteq staged
        /\ m + 1 \notin staged \/ m + 1 \in failing
        /\ head' = m

\* runLoop of the reel takes a frame from its queue. A frame the head has
\* passed is left alone, and whoever waits for it is not told. A new head goes
\* to the engine's loop, unless that is busy.
ReelStep ==
    /\ queue # <<>>
    /\ queue' = Tail(queue)
    /\ LET e == Head(queue) IN
       /\ \/ e.number = head + 1 /\ e.good /\ ProcessPending(head + 1)
          \/ e.number = head + 1 /\ ~e.good /\ head' = head
          \/ e.number = head /\ ProcessPending(head)
          \/ e.number < head /\ head' = head
       /\ dropped' = (dropped \/ (e.awaited /\ e.number < head))
    /\ \/ head' # head /\ ProcessFrame(head')
       \/ UNCHANGED <<requested, received>>
    /\ UNCHANGED <<staged, failing, maps, handler, announced, sync, strays>>

\* A frame of the chain arrives by gossip and is inserted.
Gossip(n) ==
    /\ strays < MaxStrays
    /\ head < n
    /\ strays' = strays + 1
    /\ Insert(n, TRUE, FALSE)
    /\ UNCHANGED <<maps, requested, received, handler, announced, sync>>

-----------------------------------------------------------------------------
(* handleDataPeerListAnnounce.                                             *)

handlerOnly == <<reel, received, announced, sync, strays>>

HandleBegin(p, t) ==
    /\ handler.at = "idle"
    /\ Announced[p][t] > head
    /\ p \notin uncooperative
    /\ handler' = [at |-> "checked", peer |-> p, stamp |-> t]
    /\ UNCHANGED <<handlerOnly, maps, requested>>

\* The entry is read, written and followed by a request in three steps of the
\* code; nobody else writes it in between, one that is removed in between is as
\* good as one removed before, and a request that is not yet taken is kept.
HandleStore ==
    LET p == handler.peer  t == handler.stamp IN
    /\ handler.at = "checked"
    /\ handler' = Ready
    /\ IF peerMap[p] # NoInfo /\ peerMap[p].stamp > t
       THEN UNCHANGED <<peerMap, requested>>
       ELSE /\ peerMap' = [peerMap EXCEPT ![p] = [max |-> Announced[p][t], stamp |-> t]]
            /\ requested' = TRUE
    /\ UNCHANGED <<handlerOnly, uncooperative, aged>>

-----------------------------------------------------------------------------
(* The announcer.                                                          *)

\* Entries whose time to live may be over: those of announcements that were
\* not the last one, and those of peers that may have stopped announcing.
Outlived == {p \in Peer : /\ peerMap[p] # NoInfo
                          /\ \/ p \in Unreliable
                             \/ peerMap[p].stamp < Len(Announced[p])}

\* Fault: the uncooperative peers are never forgotten.
AnnounceKeeping ==
    /\ (announced - Lag) % Width < head
    /\ announced' = head
    /\ received' = Max2(received, head)
    /\ peerMap' = [peerMap EXCEPT ![Self] = [max |-> head, stamp |-> 0]]
    /\ UNCHANGED <<reel, requested, handler, sync, strays, uncooperative, aged>>

\* The head is announced and, under one lock, the own entry is written and old
\* ones are removed. An uncooperative peer stays for a minute, less than the
\* announcer's period, and in the first rounds not even that long. The
\* subtraction is unsigned: a node that starts below Lag never gets here.
Announce ==
    /\ (announced - Lag) % Width < head
    /\ announced' = head
    /\ received' = Max2(received, head)
    /\ \E old \in SUBSET Outlived :
          peerMap' = [p \in DOMAIN peerMap |->
                         IF p = Self THEN [max |-> head, stamp |-> 0]
                         ELSE IF p \in old THEN NoInfo ELSE peerMap[p]]
    /\ \E kept \in SUBSET (uncooperative \ aged) :
          uncooperative' = kept /\ aged' = kept
    /\ UNCHANGED <<reel, requested, handler, sync, strays>>

-----------------------------------------------------------------------------
(* runSync: syncWithMesh, GetAheadPeers and syncWithPeer.                  *)

syncOnly == <<received, handler, announced>>

\* The argument of GetAheadPeers is evaluated before the map is locked.
Measured(state, latest) ==
    [state EXCEPT !.at = "list", !.latest = latest, !.ahead = Max2(latest, received)]

SyncBegin ==
    /\ sync.at = "idle"
    /\ requested
    /\ requested' = FALSE
    /\ sync' = Measured(Idle, head)
    /\ UNCHANGED <<syncOnly, reel, maps, strays>>

\* Fault: only the map of the cooperative peers is looked at.
AheadAny(n) == {p \in DOMAIN peerMap : peerMap[p] # NoInfo /\ peerMap[p].max > n}

\* Fault: a peer that has just as many frames counts as ahead.
AheadOrEqual(n) == {p \in DOMAIN peerMap : /\ peerMap[p] # NoInfo
                                           /\ peerMap[p].max >= n
                                           /\ p \notin uncooperative}

Ahead(n) == {p \in DOMAIN peerMap : /\ peerMap[p] # NoInfo
                                    /\ peerMap[p].max > n
                                    /\ p \notin uncooperative}

\* At least SyncCandidates of the peers ahead, each once, in some order: the
\* classes (near, reachable, ...) are sampled separately and concatenated.
GetAheadPeers(n) ==
    LET lengths == {k \in 0..Cardinality(Ahead(n)) :
                      k >= SyncCandidates \/ k = Cardinality(Ahead(n))}
    IN  {[i \in DOMAIN s |-> [peer |-> s[i], max |-> peerMap[s[i]].max]] :
            s \in UNION {Injection(1..k, Ahead(n)) : k \in lengths}}

SyncList ==
    /\ sync.at = "list"
    /\ \E l \in GetAheadPeers(sync.ahead) :
          sync' = [sync EXCEPT !.at = IF l = <<>> THEN "wait" ELSE "candidate",
                               !.list = l, !.ahead = 0]
    /\ UNCHANGED <<syncOnly, requested, reel, maps, strays>>

\* Fault: a listed candidate is polled without another look at the head.
SyncCandidateListed ==
    /\ sync.at = "candidate"
    /\ sync' = IF sync.list = <<>>
               THEN Measured(sync, sync.latest)
               ELSE [sync EXCEPT !.list = Tail(@), !.at = "poll",
                                 !.peer = Head(sync.list).peer,
                                 !.target = Head(sync.list).max]
    /\ UNCHANGED <<syncOnly, requested, reel, maps, strays>>

\* The head is read again before each candidate.
SyncCandidate ==
    /\ sync.at = "candidate"
    /\ IF sync.list = <<>>
       THEN sync' = Measured(sync, sync.latest)
       ELSE LET c == Head(sync.list)
                latest == Max2(sync.latest, head)
                next == [sync EXCEPT !.list = Tail(@), !.latest = latest]
            IN  sync' = IF c.max <= Max2(latest, received) THEN next
                        ELSE [next EXCEPT !.at = "poll", !.peer = c.peer,
                                          !.target = c.max]
    /\ UNCHANGED <<syncOnly, requested, reel, maps, strays>>

\* syncWithPeer returns: an uncooperative peer that is in the map is moved.
Return(cooperative, latest) ==
    LET p == sync.peer
        moved == ~cooperative /\ peerMap[p] # NoInfo
    IN
    /\ sync' = [sync EXCEPT !.at = "candidate", !.peer = NoPeer, !.target = 0,
                            !.cooperative = TRUE, !.latest = latest]
    /\ peerMap' = IF moved THEN [peerMap EXCEPT ![p] = NoInfo] ELSE peerMap
    /\ uncooperative' = IF moved THEN uncooperative \cup {p} ELSE uncooperative
    /\ aged' = aged

\* No channel, no answer in time, or an answer that cannot be the next frame.
PollRefused(p) ==
    /\ sync.at = "poll" /\ sync.peer = p
    /\ Return(FALSE, sync.latest)
    /\ UNCHANGED <<syncOnly, requested, reel, strays>>

\* An empty response, or a frame that does not verify: nothing is held against
\* the peer but what it did before.
PollUnverified(p) ==
    /\ p \in Unreliable
    /\ sync.at = "poll" /\ sync.peer = p
    /\ Return(sync.cooperative, sync.latest)
    /\ UNCHANGED <<syncOnly, requested, reel, strays>>

\* Fault: the peer is asked for its last frame instead of the next one.
PollServedLast(p, known, good) ==
    /\ sync.at = "poll" /\ sync.peer = p
    /\ known /\ good
    /\ strays' = strays
    /\ Insert(sync.target, good, TRUE)
    /\ Return(TRUE, sync.target)
    /\ UNCHANGED <<syncOnly, requested>>

\* The next frame is inserted, also when its prover is not in the tries.
PollServed(p, known, good) ==
    LET n == sync.latest + 1
        cooperative == sync.cooperative /\ known
    IN
    /\ sync.at = "poll" /\ sync.peer = p
    /\ IF known /\ good
       THEN strays' = strays
       ELSE p \in Unreliable /\ strays < MaxStrays /\ strays' = strays + 1
    /\ Insert(n, good, TRUE)
    /\ IF n >= sync.target
       THEN Return(cooperative, n)
       ELSE /\ sync' = [sync EXCEPT !.latest = n, !.cooperative = cooperative]
            /\ UNCHANGED maps
    /\ UNCHANGED <<syncOnly, requested>>

\* All the channels of the inserted frames are closed.
SyncEnd ==
    /\ sync.at = "wait"
    /\ ~dropped
    /\ \A i \in DOMAIN queue : ~queue[i].awaited
    /\ sync' = Idle
    /\ UNCHANGED <<syncOnly, requested, reel, maps, strays>>

-----------------------------------------------------------------------------

Poll(p) ==
    \/ PollRefused(p)
    \/ PollUnverified(p)
    \/ \E known, good \in BOOLEAN : PollServed(p, known, good)

Sync ==
    \/ SyncBegin \/ SyncList \/ SyncCandidate \/ SyncEnd
    \/ \E p \in Peer \cup {Self} : Poll(p)

Next ==
    \/ ReelStep
    \/ \E n \in Number : Gossip(n)
    \/ \E p \in Peer : \E t \in DOMAIN Announced[p] : HandleBegin(p, t)
    \/ HandleStore
    \/ Announce
    \/ Sync

Spec == Init /\ [][Next]_vars

\* The goroutines run; every poll ends, by its timeout if not before. An honest
\* peer announces again and again, its announcements wait in a channel that is
\* served in order, and a peer that is polled again and again answers at last.
Fairness ==
    /\ WF_vars(ReelStep) /\ WF_vars(HandleStore)
    /\ WF_vars(Announce) /\ WF_vars(Sync)
    /\ \A p \in Honest :
          /\ SF_vars(HandleBegin(p, Len(Announced[p])))
          /\ SF_vars(PollServed(p, TRUE, TRUE))

FairSpec == Spec /\ Fairness

-----------------------------------------------------------------------------
(* Properties.                                                             *)

\* The node never polls itself: its own entry, written by the announcer between
\* the evaluation of GetAheadPeers' argument and its lock, may be listed, but
\* the comparison repeated before each candidate leaves it out.  And a peer is
\* never polled while it is in uncooperativePeersMap, although an announcement
\* handled during the poll puts it in both maps.
PollsWillingOthers == sync.peer # Self /\ sync.peer \notin uncooperative

\* What syncWithMesh takes as its latest frame is backed by the reel: every
\* number from the head up to it was inserted, whatever the peers answered and
\* however the head moved meanwhile.
SyncLeavesNoGap ==
    \A n \in Number : head < n /\ n <= sync.latest => n \in staged \cup failing

\* The reel does not stop short of what syncWithMesh has fetched.  Only the frame
\* right above the head goes to the reel's queue when it is inserted; the others
\* are just staged, and no one inserts them again.  While the head is below the
\* latest frame fetched, the next frame is still in the queue, or execution of a
\* frame with its number failed: the processing of one queued frame takes up all
\* the staged ones above it, whoever inserted them and wherever the head was.
FetchedIsReached ==
    head < sync.latest =>
        \/ head + 1 \in failing
        \/ \E i \in DOMAIN queue : queue[i].number = head + 1

\* syncWithMesh comes to an end, and so runSync serves the next request, if the
\* peers it polls refuse or fail it only finitely often, unless the reel drops
\* a frame it waits for.
SyncEnds ==
    \/ []<>(sync.at = "idle")
    \/ []<><<\E p \in Peer : PollRefused(p) \/ PollUnverified(p)>>_vars
    \/ <>dropped

\* A node that is behind an honest peer catches up, whatever the other peers
\* answer and however often polls of the honest one fail, unless the reel drops
\* a frame that runSync waits for.
CatchesUp ==
    StartHead >= Lag =>
        \A p \in Honest :
            <>(dropped \/ head >= Announced[p][Len(Announced[p])])
=============================================================================
