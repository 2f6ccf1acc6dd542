--------------------------- MODULE DataSyncProofs ---------------------------
(***************************************************************************)
(* Proofs about DataSync, for any peers, announcements, number of frames   *)
(* and size of the sample of candidates.                                   *)
(*                                                                         *)
(* Three goroutines work on the peer maps without a common lock around     *)
(* what each of them does. The invariant says what a list of candidates    *)
(* still means when the maps have changed since it was made: the own entry *)
(* in it is not above latestFrameReceived, no candidate is in the map of   *)
(* uncooperative peers, and each peer is there once.                       *)
(***************************************************************************)
EXTENDS DataSync, FiniteSetTheorems, SequenceTheorems, TLAPS

Entry == [number : Number, good : BOOLEAN, awaited : BOOLEAN]

ReelType ==
    /\ head \in Number /\ staged \subseteq Number /\ failing \subseteq Number
    /\ queue \in Seq(Entry)
    /\ dropped \in BOOLEAN

MapType ==
    /\ peerMap \in [Peer \cup {Self} -> Info \cup {NoInfo}]
    /\ aged \subseteq uncooperative /\ uncooperative \subseteq Peer

SyncType ==
    sync \in [at : {"idle", "list", "candidate", "poll", "wait"},
              latest : 0..MaxFrame, ahead : 0..MaxFrame, list : Seq(Candidate),
              peer : Peer \cup {Self, NoPeer}, target : 0..MaxFrame,
              cooperative : BOOLEAN]

OtherType ==
    /\ requested \in BOOLEAN
    /\ received \in 0..MaxFrame /\ announced \in Number
    /\ handler \in [at : {"idle", "checked"}, peer : Peer \cup {NoPeer}, stamp : Nat]
    /\ strays \in 0..MaxStrays

\* What the handler holds is an announcement.
Holding ==
    handler.at = "checked" =>
        handler.peer \in Peer /\ handler.stamp \in 1..Len(Announced[handler.peer])

\* A peer is polled for frames that it announced and that are not there yet.
Polling ==
    IF sync.at = "poll"
    THEN sync.peer \in Peer \cup {Self} /\ sync.latest < sync.target
    ELSE sync.peer = NoPeer

\* The announcer raises latestFrameReceived to what it writes to its own entry.
OwnEntry == peerMap[Self] # NoInfo => peerMap[Self].max <= received

\* What a list of candidates still means when the maps have changed since.
IsCandidate(c) ==
    /\ c.peer = Self => c.max <= received
    /\ c.peer \notin uncooperative
    /\ c.peer # sync.peer

Listed == \A i \in 1..Len(sync.list) : IsCandidate(sync.list[i])

Once(l) == \A i, j \in 1..Len(l) : l[i].peer = l[j].peer => i = j

ListedOnce == Once(sync.list)

Inv ==
    /\ ReelType /\ MapType /\ SyncType /\ OtherType
    /\ Holding /\ Polling /\ OwnEntry /\ Listed /\ ListedOnce
    /\ PollsWillingOthers /\ SyncLeavesNoGap

-----------------------------------------------------------------------------
LEMMA SameLength == \A m, n \in Nat : 1..m = 1..n => m = n
  <1> SUFFICES ASSUME NEW m \in Nat, NEW n \in Nat, 1..m = 1..n PROVE m = n
    BY Zenon
  <1>1. m \in 1..m \/ m = 0
    OBVIOUS
  <1>2. n \in 1..n \/ n = 0
    OBVIOUS
  <1>3. m \in 1..n \/ m = 0
    BY Zenon, <1>1
  <1>4. n \in 1..m \/ n = 0
    BY Zenon, <1>2
  <1> QED
    BY <1>3, <1>4

LEMMA InitInv == Init => Inv
  <1> SUFFICES ASSUME Init PROVE Inv
    BY Zenon
  <1>1. ReelType
    BY Zenon, SyncAssumption, EmptySeq DEF Init, ReelType
  <1>2. MapType
    BY Zenon, SyncAssumption DEF Init, MapType
  <1>3. SyncType
    <2>1. 0 \in 0..MaxFrame /\ <<>> \in Seq(Candidate)
      BY SyncAssumption
    <2> QED
      BY Zenon, <2>1 DEF Init, SyncType, Idle
  <1>4. OtherType
    <2>1. 0 \in 0..MaxFrame /\ 0 \in 0..MaxStrays /\ StartHead \in Number
      BY SyncAssumption
    <2>2. Ready \in [at : {"idle", "checked"}, peer : Peer \cup {NoPeer}, stamp : Nat]
      BY Zenon DEF Ready
    <2> QED
      BY Zenon, <2>1, <2>2 DEF Init, OtherType
  <1>5. Holding /\ Polling /\ PollsWillingOthers
    BY Zenon, SyncAssumption DEF Init, Holding, Polling, PollsWillingOthers, Ready, Idle
  <1>6. OwnEntry
    BY Zenon DEF Init, OwnEntry
  <1>7. Listed /\ ListedOnce
    BY DEF Init, Listed, ListedOnce, Once, Idle
  <1>8. SyncLeavesNoGap
    BY SyncAssumption DEF Init, SyncLeavesNoGap, Idle, Number
  <1> QED
    BY Zenon, <1>1, <1>2, <1>3, <1>4, <1>5, <1>6, <1>7, <1>8 DEF Inv

\* What Insert does to the reel: every frame that was there stays, and the
\* inserted one is there unless the head has passed it.
LEMMA Inserting ==
    ASSUME ReelType, NEW n \in Number, NEW good \in BOOLEAN, NEW awaited \in BOOLEAN,
           Insert(n, good, awaited)
    PROVE  /\ ReelType' /\ head' = head
           /\ staged \subseteq staged' /\ failing \subseteq failing'
           /\ head < n => n \in staged' \cup failing'
  <1>1. queue' \in Seq(Entry)
    <2>1. [number |-> n, good |-> good, awaited |-> awaited] \in Entry
      BY Zenon DEF Entry
    <2> QED
      BY Zenon, <2>1, AppendProperties DEF Insert, ReelType
  <1>2. head' = head /\ dropped' = dropped
    BY Zenon DEF Insert
  <1>3. staged' \subseteq Number /\ failing' \subseteq Number
    BY Zenon DEF Insert, ReelType
  <1> QED
    BY Zenon, <1>1, <1>2, <1>3 DEF Insert, ReelType

-----------------------------------------------------------------------------
(* Steps of the other goroutines, which leave runSync where it is.         *)

LEMMA Quiet ==
    ASSUME Inv, ReelType', MapType', OtherType', Holding', OwnEntry',
           sync' = sync, head <= head', received <= received',
           staged \subseteq staged', failing \subseteq failing',
           uncooperative' \subseteq uncooperative
    PROVE  Inv'
  <1>1. SyncType' /\ Polling' /\ ListedOnce'
    BY Zenon DEF Inv, SyncType, Polling, ListedOnce, Once
  <1>2. PollsWillingOthers'
    BY Zenon DEF Inv, PollsWillingOthers
  <1>3. Listed'
    <2> SUFFICES ASSUME NEW i \in 1..Len(sync.list)
                 PROVE  IsCandidate(sync.list[i])'
      BY Zenon DEF Listed
    <2>1. IsCandidate(sync.list[i])
      BY Zenon DEF Inv, Listed
    <2>2. sync.list[i].max \in Nat
      <3>1. sync.list \in Seq(Candidate)
        BY Zenon DEF Inv, SyncType
      <3>2. sync.list[i] \in Candidate
        BY Zenon, <3>1, ElementOfSeq
      <3> QED
        BY <3>2 DEF Candidate, Number
    <2>3. received \in Nat /\ received' \in Nat
      BY DEF Inv, OtherType
    <2>4. sync.list[i].max <= received => sync.list[i].max <= received'
      BY <2>2, <2>3
    <2> QED
      BY Zenon, <2>1, <2>4 DEF IsCandidate
  <1>4. SyncLeavesNoGap'
    <2>1. \A n \in Number : head' < n => head < n
      BY SyncAssumption DEF Inv, ReelType, Number
    <2> QED
      BY Zenon, <2>1 DEF Inv, SyncLeavesNoGap
  <1> QED
    BY Zenon, <1>1, <1>2, <1>3, <1>4 DEF Inv

LEMMA ReelStepInv == ASSUME Inv, ReelStep PROVE Inv'
  <1>1. UNCHANGED <<staged, failing, peerMap, uncooperative, aged, handler, announced, sync, strays>>
    BY Zenon DEF ReelStep, maps
  <1>2. queue \in Seq(Entry) /\ queue # <<>> /\ head \in Number
    BY Zenon DEF Inv, ReelType, ReelStep
  <1>3. Head(queue) \in Entry /\ Tail(queue) \in Seq(Entry)
    BY Zenon, <1>2, HeadTailProperties
  <1>4. head' \in Number /\ head <= head'
    <2>1. ASSUME NEW n \in Nat, head <= n, ProcessPending(n) PROVE head' \in Number /\ head <= head'
      BY <1>2, <2>1, SyncAssumption DEF ProcessPending, Number
    <2>2. head \in Nat /\ head + 1 \in Nat /\ head <= head + 1 /\ head <= head
      BY <1>2, SyncAssumption DEF Number
    <2>3. \/ ProcessPending(head + 1)
          \/ head' = head
          \/ ProcessPending(head)
      BY Zenon DEF ReelStep
    <2> QED
      BY Zenon, <1>2, <2>1, <2>2, <2>3
  <1>5. dropped' \in BOOLEAN
    <2>1. dropped \in BOOLEAN
      BY Zenon DEF Inv, ReelType
    <2> QED
      BY Zenon, <2>1 DEF ReelStep
  <1>6. ReelType'
    <2>1. queue' = Tail(queue)
      BY Zenon DEF ReelStep
    <2> QED
      BY Zenon, <1>1, <1>3, <1>4, <1>5, <2>1 DEF Inv, ReelType
  <1>7. received' \in 0..MaxFrame /\ received <= received' /\ requested' \in BOOLEAN
    <2>1. received \in Nat /\ head' \in Nat /\ received <= MaxFrame /\ head' <= MaxFrame
      BY <1>4, SyncAssumption DEF Inv, OtherType, Number
    <2>2. \/ ProcessFrame(head')
          \/ UNCHANGED <<requested, received>>
      BY Zenon DEF ReelStep
    <2>3. CASE ProcessFrame(head')
      <3>1. received' = Max2(received, head') /\ requested' = TRUE
        BY Zenon, <2>3 DEF ProcessFrame
      <3> QED
        BY <3>1, <2>1, SyncAssumption DEF Max2
    <2>4. CASE UNCHANGED <<requested, received>>
      BY <2>1, <2>4 DEF Inv, OtherType
    <2> QED
      BY Zenon, <2>2, <2>3, <2>4
  <1>8. OtherType'
    BY Zenon, <1>1, <1>7 DEF Inv, OtherType
  <1>9. MapType' /\ Holding'
    BY Zenon, <1>1 DEF Inv, MapType, Holding
  <1>10. OwnEntry'
    <2>1. peerMap[Self] # NoInfo => peerMap[Self].max \in Nat
      <3>1. peerMap[Self] # NoInfo => peerMap[Self] \in Info
        BY Zenon DEF Inv, MapType
      <3> QED
        BY <3>1 DEF Info, Number
    <2>2. received \in Nat /\ received' \in Nat
      BY <1>7 DEF Inv, OtherType
    <2>3. peerMap[Self] # NoInfo => peerMap[Self].max <= received
      BY Zenon DEF Inv, OwnEntry
    <2>4. peerMap[Self] # NoInfo => peerMap[Self].max <= received'
      BY <1>7, <2>1, <2>2, <2>3
    <2> QED
      BY Zenon, <1>1, <2>4 DEF OwnEntry
  <1> QED
    BY Zenon, <1>1, <1>4, <1>6, <1>7, <1>8, <1>9, <1>10, Quiet

LEMMA GossipInv == ASSUME Inv, NEW n \in Number, Gossip(n) PROVE Inv'
  <1>1. UNCHANGED <<peerMap, uncooperative, aged, requested, received, handler, announced, sync>>
    BY Zenon DEF Gossip, maps
  <1>2. /\ ReelType' /\ head' = head
        /\ staged \subseteq staged' /\ failing \subseteq failing'
    <2>1. ReelType /\ Insert(n, TRUE, FALSE) /\ TRUE \in BOOLEAN /\ FALSE \in BOOLEAN
      BY Zenon DEF Inv, Gossip
    <2> QED
      BY Zenon, <2>1, Inserting
  <1>3. OtherType'
    <2>1. strays' \in 0..MaxStrays
      BY SyncAssumption DEF Inv, OtherType, Gossip
    <2> QED
      BY Zenon, <1>1, <2>1 DEF Inv, OtherType
  <1>4. MapType' /\ Holding' /\ OwnEntry'
    BY Zenon, <1>1 DEF Inv, MapType, Holding, OwnEntry
  <1>5. head <= head' /\ received <= received'
    BY <1>1, <1>2, SyncAssumption DEF Inv, ReelType, OtherType, Number
  <1> QED
    BY Zenon, <1>1, <1>2, <1>3, <1>4, <1>5, Quiet

LEMMA HandleBeginInv ==
    ASSUME Inv, NEW p \in Peer, NEW t \in DOMAIN Announced[p], HandleBegin(p, t)
    PROVE  Inv'
  <1>1. UNCHANGED <<head, staged, failing, queue, dropped, peerMap, uncooperative, aged,
                    requested, received, announced, sync, strays>>
    BY Zenon DEF HandleBegin, handlerOnly, maps, reel
  <1>2. Announced[p] \in Seq(Number)
    BY Zenon, SyncAssumption
  <1>3. t \in 1..Len(Announced[p]) /\ t \in Nat
    BY <1>2
  <1>4. OtherType' /\ Holding'
    <2>1. handler' = [at |-> "checked", peer |-> p, stamp |-> t]
      BY Zenon DEF HandleBegin
    <2>2. handler' \in [at : {"idle", "checked"}, peer : Peer \cup {NoPeer}, stamp : Nat]
      BY Zenon, <1>3, <2>1
    <2>3. handler'.peer = p /\ handler'.stamp = t
      BY Zenon, <2>1
    <2> QED
      BY Zenon, <1>1, <1>3, <2>2, <2>3 DEF Inv, OtherType, Holding
  <1>5. ReelType' /\ MapType' /\ OwnEntry'
    BY Zenon, <1>1 DEF Inv, ReelType, MapType, OwnEntry
  <1>6. head <= head' /\ received <= received'
    BY <1>1, SyncAssumption DEF Inv, ReelType, OtherType, Number
  <1> QED
    BY Zenon, <1>1, <1>4, <1>5, <1>6, Quiet

\* The own entry is not the handler's to write, and what it writes is typed.
LEMMA HandleStoreInv == ASSUME Inv, HandleStore PROVE Inv'
  <1>1. UNCHANGED <<head, staged, failing, queue, dropped, uncooperative, aged,
                    received, announced, sync, strays>>
    BY Zenon DEF HandleStore, handlerOnly, reel
  <1> DEFINE p == handler.peer  t == handler.stamp
             info == [max |-> Announced[p][t], stamp |-> t]
  <1>2. p \in Peer /\ t \in 1..Len(Announced[p])
    BY Zenon DEF Inv, Holding, HandleStore
  <1>3. info \in Info
    <2>1. Announced[p] \in Seq(Number)
      BY Zenon, <1>2, SyncAssumption
    <2>2. Announced[p][t] \in Number
      BY Zenon, <1>2, <2>1, ElementOfSeq
    <2>3. t \in Nat
      BY <1>2
    <2> QED
      BY Zenon, <2>2, <2>3 DEF Info
  <1>4. peerMap' = peerMap \/ peerMap' = [peerMap EXCEPT ![p] = info]
    BY Zenon DEF HandleStore
  <1>5. MapType' /\ peerMap'[Self] = peerMap[Self]
    <2>1. p # Self
      BY Zenon, <1>2, SyncAssumption
    <2> HIDE DEF p, info
    <2> QED
      BY ZenonT(60), <1>1, <1>2, <1>3, <1>4, <2>1 DEF Inv, MapType
  <1>6. OtherType' /\ Holding'
    <2>1. handler' = Ready
      BY Zenon DEF HandleStore
    <2>2. handler' \in [at : {"idle", "checked"}, peer : Peer \cup {NoPeer}, stamp : Nat]
      BY Zenon, <2>1 DEF Ready
    <2>3. handler'.at = "idle"
      BY Zenon, <2>1 DEF Ready
    <2>4. requested' \in BOOLEAN
      BY Zenon DEF Inv, OtherType, HandleStore
    <2>5. "idle" # "checked"
      BY Zenon
    <2> QED
      BY Zenon, <1>1, <2>2, <2>3, <2>4, <2>5 DEF Inv, OtherType, Holding
  <1>7. ReelType' /\ OwnEntry'
    BY Zenon, <1>1, <1>5 DEF Inv, ReelType, OwnEntry
  <1>8. head <= head' /\ received <= received'
    BY <1>1, SyncAssumption DEF Inv, ReelType, OtherType, Number
  <1> QED
    BY Zenon, <1>1, <1>5, <1>6, <1>7, <1>8, Quiet

LEMMA AnnounceInv == ASSUME Inv, Announce PROVE Inv'
  <1>1. UNCHANGED <<head, staged, failing, queue, dropped, requested, handler, sync, strays>>
    BY Zenon DEF Announce, reel
  <1>2. head \in Nat /\ received \in Nat /\ head <= MaxFrame /\ received <= MaxFrame
        /\ head \in Number
    BY SyncAssumption DEF Inv, ReelType, OtherType, Number
  <1>3. received' = Max2(received, head) /\ announced' = head
    BY Zenon DEF Announce
  <1>4. received' \in 0..MaxFrame /\ received <= received' /\ head <= received'
    BY <1>2, <1>3, SyncAssumption DEF Max2
  <1> DEFINE own == [max |-> head, stamp |-> 0]
  <1>5. own \in Info /\ own.max = head
    BY Zenon, <1>2 DEF Info
  <1>6. PICK old \in SUBSET Outlived :
            peerMap' = [p \in DOMAIN peerMap |->
                           IF p = Self THEN own
                           ELSE IF p \in old THEN NoInfo ELSE peerMap[p]]
    BY Zenon DEF Announce
  <1> HIDE DEF own
  <1>7. DOMAIN peerMap = Peer \cup {Self}
    BY Zenon DEF Inv, MapType
  <1>8. peerMap' \in [Peer \cup {Self} -> Info \cup {NoInfo}] /\ peerMap'[Self] = own
    BY Zenon, <1>5, <1>6, <1>7 DEF Inv, MapType
  <1>9. uncooperative' \subseteq uncooperative /\ aged' \subseteq uncooperative'
    BY Zenon DEF Announce
  <1>10. MapType'
    BY Zenon, <1>8, <1>9 DEF Inv, MapType
  <1>11. OwnEntry'
    BY Zenon, <1>4, <1>5, <1>8 DEF OwnEntry
  <1>12. OtherType' /\ ReelType' /\ Holding'
    BY Zenon, <1>1, <1>2, <1>3, <1>4 DEF Inv, OtherType, ReelType, Holding
  <1>13. head <= head'
    BY <1>1, <1>2
  <1> QED
    BY Zenon, <1>1, <1>4, <1>9, <1>10, <1>11, <1>12, <1>13, Quiet

-----------------------------------------------------------------------------
(* Steps of runSync.                                                       *)

\* runSync alone moves.
LEMMA SyncAlone ==
    ASSUME Inv, requested' \in BOOLEAN, SyncType', Polling', Listed', ListedOnce',
           PollsWillingOthers', SyncLeavesNoGap',
           UNCHANGED <<received, handler, announced, strays, reel, maps>>
    PROVE  Inv'
  <1>1. UNCHANGED <<head, staged, failing, queue, dropped, peerMap, uncooperative, aged,
                    received, handler, announced, strays>>
    BY Zenon DEF reel, maps
  <1>2. ReelType' /\ MapType' /\ OtherType' /\ Holding' /\ OwnEntry'
    BY Zenon, <1>1 DEF Inv, ReelType, MapType, OtherType, Holding, OwnEntry
  <1> QED
    BY Zenon, <1>2 DEF Inv

\* An empty list says nothing.
LEMMA NothingListed ==
    ASSUME sync'.list = <<>> PROVE Listed' /\ ListedOnce'
  BY DEF Listed, ListedOnce, Once

LEMMA SyncBeginInv == ASSUME Inv, SyncBegin PROVE Inv'
  <1>1. sync' = [at |-> "list", latest |-> head, ahead |-> Max2(head, received),
                 list |-> <<>>, peer |-> NoPeer, target |-> 0, cooperative |-> TRUE]
    BY Zenon DEF SyncBegin, Measured, Idle
  <1>2. head \in 0..MaxFrame /\ Max2(head, received) \in 0..MaxFrame
    BY SyncAssumption DEF Inv, ReelType, OtherType, Number, Max2
  <1>3. SyncType'
    BY <1>1, <1>2, SyncAssumption DEF SyncType
  <1>4. sync'.at = "list" /\ sync'.peer = NoPeer /\ sync'.list = <<>> /\ sync'.latest = head
    BY Zenon, <1>1
  <1>5. UNCHANGED <<received, handler, announced, strays, reel, maps>> /\ requested' = FALSE
    BY Zenon DEF SyncBegin, syncOnly
  <1>6. Polling' /\ PollsWillingOthers'
    BY Zenon, <1>4, <1>5, SyncAssumption DEF Polling, PollsWillingOthers, maps, Inv, MapType
  <1>7. SyncLeavesNoGap'
    BY <1>4, <1>5, SyncAssumption DEF SyncLeavesNoGap, reel, Number, Inv, ReelType
  <1>8. Listed' /\ ListedOnce'
    BY Zenon, <1>4, NothingListed
  <1> QED
    BY Zenon, <1>3, <1>5, <1>6, <1>7, <1>8, SyncAlone

\* GetAheadPeers: a list of peers that are ahead, each once, with what the map
\* says of it.
LEMMA AheadPeers ==
    ASSUME Inv, NEW n \in Nat, NEW l \in GetAheadPeers(n)
    PROVE  /\ l \in Seq(Candidate) /\ Once(l)
           /\ \A i \in 1..Len(l) : /\ l[i].peer \in Ahead(n)
                                   /\ l[i].max = peerMap[l[i].peer].max
  <1> DEFINE lengths == {k \in 0..Cardinality(Ahead(n)) :
                           k >= SyncCandidates \/ k = Cardinality(Ahead(n))}
  <1>1. PICK s \in UNION {Injection(1..k, Ahead(n)) : k \in lengths} :
            l = [i \in DOMAIN s |-> [peer |-> s[i], max |-> peerMap[s[i]].max]]
    BY Zenon DEF GetAheadPeers
  <1>2. PICK k \in 0..Cardinality(Ahead(n)) : s \in Injection(1..k, Ahead(n))
    BY Zenon, <1>1
  <1> HIDE DEF lengths
  <1>3. s \in [1..k -> Ahead(n)] /\ \A i, j \in 1..k : s[i] = s[j] => i = j
    BY Zenon, <1>2 DEF Injection, IsInjective
  <1>4. k \in Nat
    <2>1. Ahead(n) \subseteq Peer \cup {Self}
      BY Zenon DEF Ahead, Inv, MapType
    <2>2. IsFiniteSet(Peer \cup {Self})
      BY Zenon, SyncAssumption, FS_AddElement
    <2>3. IsFiniteSet(Ahead(n))
      BY Zenon, <2>1, <2>2, FS_Subset
    <2> QED
      BY <1>2, <2>3, FS_CardinalityType
  <1>5. ASSUME NEW i \in 1..k
        PROVE  /\ s[i] \in Ahead(n) /\ s[i] \in Peer \cup {Self}
               /\ peerMap[s[i]].max \in Number
    <2>1. s[i] \in Ahead(n)
      BY Zenon, <1>3, <1>5
    <2>2. s[i] \in Peer \cup {Self} /\ peerMap[s[i]] \in Info
      BY Zenon, <2>1 DEF Ahead, Inv, MapType
    <2> QED
      BY Zenon, <2>1, <2>2 DEF Info
  <1>6. /\ DOMAIN l = 1..k
        /\ \A i \in 1..k : l[i] = [peer |-> s[i], max |-> peerMap[s[i]].max]
    BY Zenon, <1>1, <1>3
  <1>7. \A i \in 1..k : /\ l[i] \in Candidate
                        /\ l[i].peer = s[i] /\ l[i].max = peerMap[s[i]].max
    BY <1>5, <1>6 DEF Candidate
  <1>8. l \in Seq(Candidate) /\ Len(l) = k
    <2>1. l \in [1..k -> Candidate]
      BY Zenon, <1>1, <1>3, <1>7
    <2>2. l \in Seq(Candidate)
      BY Zenon, <1>4, <2>1, SeqDef
    <2>3. Len(l) \in Nat /\ DOMAIN l = 1..Len(l)
      BY Zenon, <2>2, LenProperties
    <2>4. 1..Len(l) = 1..k
      BY Zenon, <1>6, <2>3
    <2>5. Len(l) = k
      BY Zenon, <1>4, <2>3, <2>4, SameLength
    <2> QED
      BY Zenon, <2>2, <2>5
  <1>9. Once(l)
    <2> SUFFICES ASSUME NEW i \in 1..k, NEW j \in 1..k, l[i].peer = l[j].peer
                 PROVE  i = j
      BY Zenon, <1>8 DEF Once
    <2>1. s[i] = s[j]
      BY Zenon, <1>7
    <2> QED
      BY Zenon, <1>3, <2>1
  <1> QED
    BY Zenon, <1>5, <1>7, <1>8, <1>9

LEMMA SyncListInv == ASSUME Inv, SyncList PROVE Inv'
  <1>1. PICK l \in GetAheadPeers(sync.ahead) :
            sync' = [sync EXCEPT !.at = IF l = <<>> THEN "wait" ELSE "candidate",
                                 !.list = l, !.ahead = 0]
    BY Zenon DEF SyncList
  <1>2. sync.ahead \in Nat /\ sync.at = "list"
    BY DEF Inv, SyncType, SyncList
  <1>3. /\ l \in Seq(Candidate) /\ Once(l)
        /\ \A i \in 1..Len(l) : /\ l[i].peer \in Ahead(sync.ahead)
                                /\ l[i].max = peerMap[l[i].peer].max
    BY Zenon, <1>1, <1>2, AheadPeers
  <1>4. SyncType'
    <2>1. 0 \in 0..MaxFrame /\ SyncType
      BY SyncAssumption DEF Inv
    <2> QED
      BY Zenon, <1>1, <1>3, <2>1 DEF SyncType
  <1>5. /\ sync'.list = l /\ sync'.peer = sync.peer /\ sync'.latest = sync.latest
        /\ sync'.at \in {"wait", "candidate"}
    BY Zenon, <1>1 DEF Inv, SyncType
  <1>6. UNCHANGED <<received, handler, announced, strays, reel, maps, requested>>
    BY Zenon DEF SyncList, syncOnly
  <1>7. UNCHANGED <<head, staged, failing, peerMap, uncooperative>>
    BY Zenon, <1>6 DEF reel, maps
  <1>8. sync.peer = NoPeer
    BY Zenon, <1>2 DEF Inv, Polling
  <1>9. Polling' /\ PollsWillingOthers'
    BY Zenon, <1>5, <1>7, <1>8 DEF Inv, Polling, PollsWillingOthers
  <1>10. SyncLeavesNoGap'
    BY Zenon, <1>5, <1>7 DEF Inv, SyncLeavesNoGap
  <1>11. Listed'
    <2> SUFFICES ASSUME NEW i \in 1..Len(l) PROVE IsCandidate(l[i])'
      BY Zenon, <1>5 DEF Listed
    <2>1. /\ l[i].peer \in DOMAIN peerMap /\ peerMap[l[i].peer] # NoInfo
          /\ l[i].peer \notin uncooperative
          /\ l[i].max = peerMap[l[i].peer].max
      BY Zenon, <1>3 DEF Ahead
    <2>2. l[i].peer # NoPeer
      BY Zenon, <2>1, SyncAssumption DEF Inv, MapType
    <2>3. l[i].peer = Self => l[i].max <= received
      BY Zenon, <2>1 DEF Inv, OwnEntry
    <2> QED
      BY Zenon, <1>5, <1>6, <1>7, <1>8, <2>1, <2>2, <2>3 DEF IsCandidate
  <1>12. ListedOnce'
    BY Zenon, <1>3, <1>5 DEF ListedOnce
  <1>13. requested' \in BOOLEAN
    BY Zenon, <1>6 DEF Inv, OtherType
  <1> QED
    BY Zenon, <1>4, <1>6, <1>9, <1>10, <1>11, <1>12, <1>13, SyncAlone

\* The rest of a list of candidates, after the first one was taken.
LEMMA RestOfList ==
    ASSUME Inv, sync.list # <<>>
    PROVE  /\ Head(sync.list) \in Candidate /\ Head(sync.list) = sync.list[1]
           /\ 1 \in 1..Len(sync.list)
           /\ Tail(sync.list) \in Seq(Candidate) /\ Once(Tail(sync.list))
           /\ \A i \in 1..Len(Tail(sync.list)) :
                 /\ i + 1 \in 1..Len(sync.list)
                 /\ Tail(sync.list)[i] = sync.list[i + 1]
                 /\ Tail(sync.list)[i].peer # Head(sync.list).peer
  <1> DEFINE l == sync.list
  <1>1. l \in Seq(Candidate) /\ l # <<>> /\ Once(l)
    BY Zenon DEF Inv, SyncType, ListedOnce
  <1> HIDE DEF l
  <1>2. Head(l) \in Candidate /\ Head(l) = l[1] /\ Len(l) \in Nat \ {0}
    BY <1>1
  <1>3. /\ Tail(l) \in Seq(Candidate) /\ Len(Tail(l)) = Len(l) - 1
        /\ \A i \in 1..Len(Tail(l)) : Tail(l)[i] = l[i + 1]
    BY Zenon, <1>1, HeadTailProperties
  <1>4. \A i \in 1..Len(Tail(l)) : i + 1 \in 1..Len(l) /\ i + 1 # 1 /\ i \in Nat
    BY <1>2, <1>3
  <1>5. 1 \in 1..Len(l)
    BY <1>2
  <1>6. \A i \in 1..Len(Tail(l)) : Tail(l)[i].peer # Head(l).peer
    BY Zenon, <1>1, <1>2, <1>3, <1>4, <1>5 DEF Once
  <1>7. Once(Tail(l))
    <2> SUFFICES ASSUME NEW i \in 1..Len(Tail(l)), NEW j \in 1..Len(Tail(l)),
                        Tail(l)[i].peer = Tail(l)[j].peer
                 PROVE  i = j
      BY Zenon DEF Once
    <2>1. l[i + 1].peer = l[j + 1].peer /\ i + 1 \in 1..Len(l) /\ j + 1 \in 1..Len(l)
      BY Zenon, <1>3, <1>4
    <2>3. i + 1 = j + 1
      BY Zenon, <1>1, <2>1 DEF Once
    <2>2. i \in Nat /\ j \in Nat
      BY Zenon, <1>4
    <2> QED
      BY <2>2, <2>3
  <1> QED
    BY Zenon, <1>2, <1>3, <1>4, <1>5, <1>6, <1>7 DEF l

LEMMA SyncCandidateInv == ASSUME Inv, SyncCandidate PROVE Inv'
  <1>1. UNCHANGED <<received, handler, announced, strays, reel, maps, requested>>
    BY Zenon DEF SyncCandidate, syncOnly
  <1>2. UNCHANGED <<head, staged, failing, peerMap, uncooperative>>
    BY Zenon, <1>1 DEF reel, maps
  <1>3. requested' \in BOOLEAN
    BY Zenon, <1>1 DEF Inv, OtherType
  <1>4. sync.at = "candidate" /\ sync.peer = NoPeer
    BY Zenon DEF SyncCandidate, Inv, Polling
  <1>5. /\ sync.latest \in 0..MaxFrame /\ received \in 0..MaxFrame /\ head \in 0..MaxFrame
        /\ MaxFrame \in Nat
    BY SyncAssumption DEF Inv, SyncType, OtherType, ReelType, Number
  <1>6. CASE sync.list = <<>>
    <2>1. sync' = Measured(sync, sync.latest)
      BY Zenon, <1>6 DEF SyncCandidate
    <2>2. Max2(sync.latest, received) \in 0..MaxFrame
      BY Zenon, <1>5 DEF Max2
    <2>3. SyncType'
      BY Zenon, <1>5, <2>1, <2>2 DEF Inv, SyncType, Measured
    <2>4. /\ sync'.at = "list" /\ sync'.peer = sync.peer /\ sync'.latest = sync.latest
          /\ sync'.list = sync.list
      BY Zenon, <2>1 DEF Inv, SyncType, Measured
    <2>5. Polling' /\ PollsWillingOthers' /\ SyncLeavesNoGap'
      BY Zenon, <1>2, <1>4, <2>4 DEF Inv, Polling, PollsWillingOthers, SyncLeavesNoGap
    <2>6. Listed' /\ ListedOnce'
      BY Zenon, <1>6, <2>4, NothingListed
    <2> QED
      BY Zenon, <1>1, <1>3, <2>3, <2>5, <2>6, SyncAlone
  <1>7. CASE sync.list # <<>>
    <2> DEFINE c == Head(sync.list)
               latest == Max2(sync.latest, head)
               next == [sync EXCEPT !.list = Tail(@), !.latest = latest]
               poll == [next EXCEPT !.at = "poll", !.peer = c.peer, !.target = c.max]
    <2>1. /\ c \in Candidate /\ c = sync.list[1] /\ 1 \in 1..Len(sync.list)
          /\ Tail(sync.list) \in Seq(Candidate) /\ Once(Tail(sync.list))
          /\ \A i \in 1..Len(Tail(sync.list)) :
                 /\ i + 1 \in 1..Len(sync.list)
                 /\ Tail(sync.list)[i] = sync.list[i + 1]
                 /\ Tail(sync.list)[i].peer # c.peer
      BY Zenon, <1>7, RestOfList
    <2>2. IsCandidate(c)
      BY Zenon, <2>1 DEF Inv, Listed
    <2>3. latest \in 0..MaxFrame /\ (latest = sync.latest \/ latest = head)
      BY Zenon, <1>5 DEF Max2
    <2>4. c.peer \in Peer \cup {Self} /\ c.max \in 1..MaxFrame
      BY Zenon, <2>1 DEF Candidate, Number
    <2>5. \/ c.max <= Max2(latest, received) /\ sync' = next
          \/ ~(c.max <= Max2(latest, received)) /\ sync' = poll
      BY Zenon, <1>7 DEF SyncCandidate
    <2> HIDE DEF c, latest
    <2>6. SyncType' /\ sync'.list = Tail(sync.list) /\ sync'.latest = latest
      <3>1. sync \in [at : {"idle", "list", "candidate", "poll", "wait"},
              latest : 0..MaxFrame, ahead : 0..MaxFrame, list : Seq(Candidate),
              peer : Peer \cup {Self, NoPeer}, target : 0..MaxFrame,
              cooperative : BOOLEAN]
        BY Zenon DEF Inv, SyncType
      <3>2. c.max \in 0..MaxFrame
        BY <2>4
      <3>3. CASE sync' = next
        BY Zenon, <3>1, <3>3, <2>1, <2>3 DEF SyncType
      <3>4. CASE sync' = poll
        BY Zenon, <3>1, <3>2, <3>4, <2>1, <2>3, <2>4 DEF SyncType
      <3> QED
        BY Zenon, <2>5, <3>3, <3>4
    <2>7. SyncLeavesNoGap'
      <3>1. SyncLeavesNoGap
        BY Zenon DEF Inv
      <3>2. \A n \in Number : ~(head < n /\ n <= head)
        BY <1>5 DEF Number
      <3> QED
        BY Zenon, <1>2, <2>3, <2>6, <3>1, <3>2 DEF SyncLeavesNoGap
    <2>8. ListedOnce'
      BY Zenon, <2>1, <2>6 DEF ListedOnce
    <2>9. Listed'
      <3>1. sync'.peer \in {NoPeer, c.peer}
        <4>1. CASE sync' = next
          BY Zenon, <1>4, <4>1 DEF Inv, SyncType
        <4>2. CASE sync' = poll
          BY Zenon, <4>2 DEF Inv, SyncType
        <4> QED
          BY Zenon, <2>5, <4>1, <4>2
      <3>2. \A x : IsCandidate(x) /\ x.peer # c.peer => IsCandidate(x)'
        <4>1. ASSUME NEW x, IsCandidate(x), x.peer # c.peer, sync'.peer = NoPeer
              PROVE  IsCandidate(x)'
          BY Zenon, <1>1, <1>2, <1>4, <4>1 DEF IsCandidate
        <4>2. ASSUME NEW x, IsCandidate(x), x.peer # c.peer, sync'.peer = c.peer
              PROVE  IsCandidate(x)'
          BY Zenon, <1>1, <1>2, <4>2 DEF IsCandidate
        <4> QED
          BY Zenon, <3>1, <4>1, <4>2
      <3>3. \A i \in 1..Len(Tail(sync.list)) :
               IsCandidate(Tail(sync.list)[i]) /\ Tail(sync.list)[i].peer # c.peer
        BY Zenon, <2>1 DEF Inv, Listed
      <3> QED
        BY Zenon, <2>6, <3>2, <3>3 DEF Listed, IsCandidate
    <2>10. Polling' /\ PollsWillingOthers'
      <3>1. CASE sync' = next
        <4>1. sync'.at = "candidate" /\ sync'.peer = NoPeer
          BY Zenon, <1>4, <3>1 DEF Inv, SyncType
        <4> QED
          BY Zenon, <1>2, <4>1, SyncAssumption DEF Polling, PollsWillingOthers, Inv, MapType
      <3>2. CASE sync' = poll /\ ~(c.max <= Max2(latest, received))
        <4>1. /\ sync'.at = "poll" /\ sync'.peer = c.peer /\ sync'.target = c.max
              /\ sync'.latest = latest
          BY Zenon, <3>2 DEF Inv, SyncType
        <4>2. latest < c.max /\ ~(c.max <= received)
          BY <1>5, <2>3, <2>4, <3>2 DEF Max2
        <4>3. c.peer # Self /\ c.peer \notin uncooperative
          BY Zenon, <2>2, <4>2 DEF IsCandidate
        <4> QED
          BY Zenon, <1>2, <2>4, <4>1, <4>2, <4>3 DEF Polling, PollsWillingOthers
      <3> QED
        BY Zenon, <2>5, <3>1, <3>2
    <2> QED
      BY Zenon, <1>1, <1>3, <2>6, <2>7, <2>8, <2>9, <2>10, SyncAlone
  <1> QED
    BY Zenon, <1>6, <1>7

LEMMA SyncEndInv == ASSUME Inv, SyncEnd PROVE Inv'
  <1>1. UNCHANGED <<received, handler, announced, strays, reel, maps, requested>> /\ sync' = Idle
    BY Zenon DEF SyncEnd, syncOnly
  <1>2. SyncType'
    BY <1>1, SyncAssumption DEF SyncType, Idle
  <1>3. sync'.at = "idle" /\ sync'.peer = NoPeer /\ sync'.list = <<>> /\ sync'.latest = 0
    BY Zenon, <1>1 DEF Idle
  <1>4. Polling' /\ PollsWillingOthers'
    BY Zenon, <1>1, <1>3, SyncAssumption DEF Polling, PollsWillingOthers, maps, Inv, MapType
  <1>5. SyncLeavesNoGap'
    BY <1>1, <1>3, SyncAssumption DEF SyncLeavesNoGap, reel, Number, Inv, ReelType
  <1>6. Listed' /\ ListedOnce'
    BY Zenon, <1>3, NothingListed
  <1>7. requested' \in BOOLEAN
    BY Zenon, <1>1 DEF Inv, OtherType
  <1> QED
    BY Zenon, <1>1, <1>2, <1>4, <1>5, <1>6, <1>7, SyncAlone

\* syncWithPeer returns: the peer it polled is in no list any more, so that it
\* may go to the map of uncooperative peers.
LEMMA Returning ==
    ASSUME Inv, sync.at = "poll", NEW cooperative \in BOOLEAN, NEW latest \in 0..MaxFrame,
           Return(cooperative, latest), ReelType', OtherType',
           UNCHANGED <<received, handler>>,
           \A n \in Number : head' < n /\ n <= latest => n \in staged' \cup failing'
    PROVE  Inv'
  <1>1. /\ sync.peer \in Peer /\ sync.peer \notin uncooperative
    BY Zenon DEF Inv, Polling, PollsWillingOthers
  <1>2. sync' = [sync EXCEPT !.at = "candidate", !.peer = NoPeer, !.target = 0,
                             !.cooperative = TRUE, !.latest = latest]
    BY Zenon DEF Return
  <1>3. SyncType'
    <2>1. 0 \in 0..MaxFrame /\ SyncType
      BY SyncAssumption DEF Inv
    <2> QED
      BY Zenon, <1>2, <2>1 DEF SyncType
  <1>4. /\ sync'.at = "candidate" /\ sync'.peer = NoPeer /\ sync'.latest = latest
        /\ sync'.list = sync.list
    BY Zenon, <1>2 DEF Inv, SyncType
  <1>5. uncooperative' \subseteq uncooperative \cup {sync.peer} /\ aged' = aged
        /\ uncooperative \subseteq uncooperative'
    BY Zenon DEF Return
  <1>6. peerMap' = peerMap \/ peerMap' = [peerMap EXCEPT ![sync.peer] = NoInfo]
    BY Zenon DEF Return
  <1>7. MapType'
    <2>1. peerMap' \in [Peer \cup {Self} -> Info \cup {NoInfo}]
      BY Zenon, <1>6 DEF Inv, MapType
    <2> QED
      BY Zenon, <1>1, <1>5, <2>1 DEF Inv, MapType
  <1>8. OwnEntry'
    <2>1. peerMap'[Self] = peerMap[Self]
      BY Zenon, <1>1, <1>6, SyncAssumption DEF Inv, MapType
    <2> QED
      BY Zenon, <2>1 DEF Inv, OwnEntry
  <1>9. Holding'
    BY Zenon DEF Inv, Holding
  <1>10. Polling' /\ PollsWillingOthers'
    <2>1. NoPeer \notin uncooperative' /\ NoPeer # Self
      BY Zenon, <1>1, <1>5, SyncAssumption DEF Inv, MapType
    <2>2. "candidate" # "poll"
      BY Zenon
    <2> QED
      BY Zenon, <1>4, <2>1, <2>2 DEF Polling, PollsWillingOthers
  <1>11. SyncLeavesNoGap'
    BY Zenon, <1>4 DEF SyncLeavesNoGap
  <1>12. ListedOnce'
    BY Zenon, <1>4 DEF Inv, ListedOnce
  <1>13. Listed'
    <2>1. \A i \in 1..Len(sync.list) : IsCandidate(sync.list[i]) /\ sync.list[i].peer # NoPeer
      <3> SUFFICES ASSUME NEW i \in 1..Len(sync.list)
                   PROVE  IsCandidate(sync.list[i]) /\ sync.list[i].peer # NoPeer
        BY Zenon
      <3>1. sync.list \in Seq(Candidate)
        BY Zenon DEF Inv, SyncType
      <3>2. sync.list[i] \in Candidate
        BY Zenon, <3>1, ElementOfSeq
      <3>3. sync.list[i].peer \in Peer \cup {Self}
        BY Zenon, <3>2 DEF Candidate
      <3> QED
        BY Zenon, <3>3, SyncAssumption DEF Inv, Listed
    <2>2. ASSUME NEW x, IsCandidate(x), x.peer # NoPeer PROVE IsCandidate(x)'
      BY Zenon, <1>4, <1>5, <2>2 DEF IsCandidate
    <2> QED
      BY Zenon, <1>4, <2>1, <2>2 DEF Listed, IsCandidate
  <1> QED
    BY Zenon, <1>3, <1>7, <1>8, <1>9, <1>10, <1>11, <1>12, <1>13 DEF Inv

\* A poll that gives nothing leaves the reel alone.
LEMMA PollFailed ==
    ASSUME Inv, sync.at = "poll", NEW cooperative \in BOOLEAN,
           Return(cooperative, sync.latest),
           UNCHANGED <<syncOnly, requested, reel, strays>>
    PROVE  Inv'
  <1>1. sync.latest \in 0..MaxFrame
    BY Zenon DEF Inv, SyncType
  <1>2. UNCHANGED <<received, handler, announced, requested, strays, head, staged, failing, queue, dropped>>
    BY Zenon DEF syncOnly, reel
  <1>3. ReelType' /\ OtherType'
    BY Zenon, <1>2 DEF Inv, ReelType, OtherType
  <1>4. \A n \in Number : head' < n /\ n <= sync.latest => n \in staged' \cup failing'
    BY Zenon, <1>2 DEF Inv, SyncLeavesNoGap
  <1>5. PICK latest \in 0..MaxFrame : latest = sync.latest
    BY Zenon, <1>1
  <1>6. Return(cooperative, latest)
    BY Zenon, <1>5
  <1> QED
    BY Zenon, <1>2, <1>3, <1>4, <1>5, <1>6, Returning

LEMMA PollServedInv ==
    ASSUME Inv, NEW p, NEW known \in BOOLEAN, NEW good \in BOOLEAN,
           PollServed(p, known, good)
    PROVE  Inv'
  <1>1. sync.at = "poll" /\ UNCHANGED <<received, handler, announced, requested>>
    BY Zenon DEF PollServed, syncOnly
  <1>2. /\ sync.latest \in 0..MaxFrame /\ sync.target \in 0..MaxFrame
        /\ sync.latest < sync.target /\ sync.cooperative \in BOOLEAN
    BY Zenon, <1>1 DEF Inv, SyncType, Polling
  <1>3. PICK n \in Number : n = sync.latest + 1
    BY <1>2, SyncAssumption DEF Number
  <1>4. PICK cooperative \in BOOLEAN : cooperative = (sync.cooperative /\ known)
    BY Zenon, <1>2
  <1>5. Insert(n, good, TRUE)
    BY Zenon, <1>3 DEF PollServed
  <1>6. /\ ReelType' /\ head' = head
        /\ staged \subseteq staged' /\ failing \subseteq failing'
        /\ head < n => n \in staged' \cup failing'
    <2>1. ReelType /\ TRUE \in BOOLEAN
      BY Zenon DEF Inv
    <2> QED
      BY Zenon, <1>5, <2>1, Inserting
  <1>7. OtherType'
    <2>1. strays' \in 0..MaxStrays
      BY SyncAssumption DEF Inv, OtherType, PollServed
    <2> QED
      BY Zenon, <1>1, <2>1 DEF Inv, OtherType
  <1>8. \A m \in Number : head' < m /\ m <= n => m \in staged' \cup failing'
    <2> SUFFICES ASSUME NEW m \in Number, head < m, m <= n
                 PROVE  m \in staged' \cup failing'
      BY Zenon, <1>6
    <2>1. m <= sync.latest \/ m = n
      BY <1>2, <1>3 DEF Number
    <2>2. m <= sync.latest => m \in staged \cup failing
      BY Zenon DEF Inv, SyncLeavesNoGap
    <2> QED
      BY Zenon, <1>6, <2>1, <2>2
  <1>9. CASE n >= sync.target
    <2>1. Return(cooperative, n)
      BY Zenon, <1>3, <1>4, <1>9 DEF PollServed
    <2>2. n \in 0..MaxFrame
      BY SyncAssumption DEF Number
    <2> QED
      BY Zenon, <1>1, <1>6, <1>7, <1>8, <2>1, <2>2, Returning
  <1>10. CASE ~(n >= sync.target)
    <2>1. sync' = [sync EXCEPT !.latest = n, !.cooperative = cooperative]
          /\ UNCHANGED <<peerMap, uncooperative, aged>>
      BY Zenon, <1>3, <1>4, <1>10 DEF PollServed, maps
    <2>2. n \in 0..MaxFrame
      BY SyncAssumption DEF Number
    <2>3. SyncType'
      BY Zenon, <2>1, <2>2 DEF Inv, SyncType
    <2>4. /\ sync'.at = sync.at /\ sync'.peer = sync.peer /\ sync'.latest = n
          /\ sync'.target = sync.target /\ sync'.list = sync.list
      BY Zenon, <2>1 DEF Inv, SyncType
    <2>5. n < sync.target
      BY <1>2, <1>10 DEF Number
    <2>6. Polling' /\ PollsWillingOthers'
      <3>1. sync.peer \in Peer \cup {Self}
        BY Zenon, <1>1 DEF Inv, Polling
      <3> QED
        BY <1>1, <2>1, <2>4, <2>5, <3>1 DEF Inv, Polling, PollsWillingOthers
    <2>7. MapType' /\ OwnEntry' /\ Holding'
      <3>1. UNCHANGED <<peerMap, uncooperative, aged, received, handler>>
        BY Zenon, <1>1, <2>1
      <3> QED
        BY Zenon, <3>1 DEF Inv, MapType, OwnEntry, Holding
    <2>8. ListedOnce' /\ Listed'
      <3>1. UNCHANGED <<received, uncooperative>>
        BY Zenon, <1>1, <2>1
      <3> QED
        BY Zenon, <2>4, <3>1 DEF Inv, ListedOnce, Listed, IsCandidate
    <2>9. SyncLeavesNoGap'
      BY Zenon, <1>8, <2>4 DEF SyncLeavesNoGap
    <2> QED
      BY Zenon, <1>6, <1>7, <2>3, <2>6, <2>7, <2>8, <2>9 DEF Inv
  <1> QED
    BY Zenon, <1>9, <1>10

-----------------------------------------------------------------------------
LEMMA NextInv == Inv /\ [Next]_vars => Inv'
  <1> SUFFICES ASSUME Inv, [Next]_vars PROVE Inv'
    BY Zenon
  <1>1. CASE ReelStep
    BY Zenon, <1>1, ReelStepInv
  <1>2. CASE \E n \in Number : Gossip(n)
    BY Zenon, <1>2, GossipInv
  <1>3. CASE \E p \in Peer : \E t \in DOMAIN Announced[p] : HandleBegin(p, t)
    BY Zenon, <1>3, HandleBeginInv
  <1>4. CASE HandleStore
    BY Zenon, <1>4, HandleStoreInv
  <1>5. CASE Announce
    BY Zenon, <1>5, AnnounceInv
  <1>6. CASE Sync
    <2>1. CASE SyncBegin \/ SyncList \/ SyncCandidate \/ SyncEnd
      BY Zenon, <2>1, SyncBeginInv, SyncListInv, SyncCandidateInv, SyncEndInv
    <2>2. CASE \E p \in Peer \cup {Self} : Poll(p)
      <3>1. PICK p \in Peer \cup {Self} : Poll(p)
        BY Zenon, <2>2
      <3>2. CASE PollRefused(p)
        <4>1. /\ sync.at = "poll" /\ Return(FALSE, sync.latest) /\ FALSE \in BOOLEAN
              /\ UNCHANGED <<syncOnly, requested, reel, strays>>
          BY Zenon, <3>2 DEF PollRefused
        <4> QED
          BY Zenon, <4>1, PollFailed
      <3>3. CASE PollUnverified(p)
        <4>1. /\ sync.at = "poll" /\ Return(sync.cooperative, sync.latest)
              /\ UNCHANGED <<syncOnly, requested, reel, strays>>
          BY Zenon, <3>3 DEF PollUnverified
        <4>2. sync.cooperative \in BOOLEAN
          BY Zenon DEF Inv, SyncType
        <4>3. PICK cooperative \in BOOLEAN : cooperative = sync.cooperative
          BY Zenon, <4>2
        <4>4. Return(cooperative, sync.latest)
          BY Zenon, <4>1, <4>3
        <4> QED
          BY Zenon, <4>1, <4>4, PollFailed
      <3>4. CASE \E known, good \in BOOLEAN : PollServed(p, known, good)
        BY Zenon, <3>4, PollServedInv
      <3> QED
        BY Zenon, <3>1, <3>2, <3>3, <3>4 DEF Poll
    <2> QED
      BY Zenon, <1>6, <2>1, <2>2 DEF Sync
  <1>7. CASE UNCHANGED vars
    <2>1. UNCHANGED <<received, handler, announced, strays, reel, maps, requested, sync>>
      BY Zenon, <1>7 DEF vars
    <2> QED
      BY ZenonT(60), <2>1 DEF Inv, reel, maps, ReelType, MapType, SyncType, OtherType,
         Holding, Polling, OwnEntry, Listed, IsCandidate, ListedOnce, Once,
         PollsWillingOthers, SyncLeavesNoGap
  <1> QED
    BY Zenon, <1>1, <1>2, <1>3, <1>4, <1>5, <1>6, <1>7 DEF Next

LEMMA Invariance == Spec => []Inv
  BY InitInv, NextInv, PTL DEF Spec

\* The types of everything a node keeps about its peers and its sync.
THEOREM TypeCorrect == Spec => []TypeOK
  <1>1. Inv => TypeOK
    BY Zenon DEF Inv, TypeOK, ReelType, MapType, SyncType, OtherType, Entry
  <1> QED
    BY <1>1, Invariance, PTL

\* For any peers and announcements: runSync never polls the node itself, nor a
\* peer that is in uncooperativePeersMap, however the announcer and the handler
\* of announcements change the maps between its list and its polls.
THEOREM PollSafety == Spec => []PollsWillingOthers
  <1>1. Inv => PollsWillingOthers
    BY Zenon DEF Inv
  <1> QED
    BY <1>1, Invariance, PTL

\* For any answers of the peers: every frame between the head and what
\* syncWithMesh takes as its latest frame was inserted into the reel.
THEOREM NoGap == Spec => []SyncLeavesNoGap
  <1>1. Inv => SyncLeavesNoGap
    BY Zenon DEF Inv
  <1> QED
    BY <1>1, Invariance, PTL

-----------------------------------------------------------------------------
(* The reel takes up what was staged above its head.                       *)

\* A queued frame that will not execute is known as one that fails.
BadFails == \A i \in 1..Len(queue) : ~queue[i].good => queue[i].number \in failing

\* The frame n is in the queue.
Queued(n) == \E i \in 1..Len(queue) : queue[i].number = n

\* Without a failing frame in its place, a staged frame right above the head is
\* in the queue.
NextQueued == head + 1 \in staged /\ head + 1 \notin failing => Queued(head + 1)

Reaching == BadFails /\ NextQueued

LEMMA InsertReaching ==
    ASSUME ReelType, Reaching, NEW n \in Number, NEW good \in BOOLEAN,
           NEW awaited \in BOOLEAN, Insert(n, good, awaited)
    PROVE  Reaching'
  <1> DEFINE e == [number |-> n, good |-> good, awaited |-> awaited]
  <1>1. e \in Entry /\ e.number = n /\ e.good = good
    BY Zenon DEF Entry
  <1>2. head' = head /\ failing \subseteq failing'
    BY Zenon DEF Insert
  <1>3. queue \in Seq(Entry) /\ head \in Nat /\ n \in Nat
    BY SyncAssumption DEF ReelType, Number
  <1> HIDE DEF e
  <1>4. CASE n = head + 1
    <2>1. queue' = Append(queue, e)
      BY Zenon, <1>4 DEF Insert, e
    <2>2. /\ Len(queue') = Len(queue) + 1 /\ queue'[Len(queue) + 1] = e
          /\ \A i \in 1..Len(queue) : queue'[i] = queue[i]
      BY <1>1, <1>3, <2>1
    <2>3. Len(queue) \in Nat
      BY Zenon, <1>3, LenProperties
    <2>4. Len(queue) + 1 \in 1..Len(queue')
      BY <2>2, <2>3
    <2>5. Queued(head + 1)'
      <3>1. queue'[Len(queue) + 1].number = head' + 1
        BY Zenon, <1>1, <1>2, <1>4, <2>2
      <3> QED
        BY Zenon, <2>4, <3>1 DEF Queued
    <2>6. ~good => n \in failing'
      <3>1. head < n
        BY <1>3, <1>4
      <3> QED
        BY Zenon, <3>1 DEF Insert
    <2>7. BadFails'
      <3> SUFFICES ASSUME NEW i \in 1..Len(queue'), ~queue'[i].good
                   PROVE  queue'[i].number \in failing'
        BY Zenon DEF BadFails
      <3>1. i \in 1..Len(queue) \/ i = Len(queue) + 1
        BY <2>2, <2>3
      <3> QED
        BY Zenon, <1>1, <1>2, <2>2, <2>6, <3>1 DEF Reaching, BadFails
    <2> QED
      BY Zenon, <2>5, <2>7 DEF Reaching, NextQueued
  <1>5. CASE n # head + 1
    <2>1. queue' = queue /\ staged' \subseteq staged \cup {n}
      BY Zenon, <1>5 DEF Insert
    <2>2. BadFails'
      BY Zenon, <1>2, <2>1 DEF Reaching, BadFails
    <2>3. NextQueued'
      BY Zenon, <1>2, <1>5, <2>1 DEF Reaching, NextQueued, Queued
    <2> QED
      BY Zenon, <2>2, <2>3 DEF Reaching
  <1> QED
    BY Zenon, <1>4, <1>5

LEMMA ReelStepReaching == ASSUME ReelType, Reaching, ReelStep PROVE Reaching'
  <1>1. staged' = staged /\ failing' = failing /\ queue' = Tail(queue)
    BY Zenon DEF ReelStep
  <1>2. queue \in Seq(Entry) /\ queue # <<>> /\ head \in Nat
    BY SyncAssumption DEF ReelType, ReelStep, Number
  <1>3. /\ Len(queue) \in Nat /\ Len(queue) > 0 /\ Head(queue) = queue[1]
        /\ Len(queue') = Len(queue) - 1
        /\ \A i \in 1..Len(queue') : queue'[i] = queue[i + 1]
    BY <1>1, <1>2
  <1>4. BadFails'
    <2> SUFFICES ASSUME NEW i \in 1..Len(queue') PROVE ~queue'[i].good => queue'[i].number \in failing'
      BY Zenon DEF BadFails
    <2>1. i + 1 \in 1..Len(queue)
      BY <1>3
    <2> QED
      BY Zenon, <1>1, <1>3, <2>1 DEF Reaching, BadFails
  <1>5. ASSUME NEW n, ProcessPending(n) PROVE NextQueued'
    <2>1. head' + 1 \notin staged \/ head' + 1 \in failing
      BY Zenon, <1>5 DEF ProcessPending
    <2> QED
      BY Zenon, <1>1, <2>1 DEF NextQueued
  <1>6. CASE head' = head /\ Head(queue).number = head + 1 /\ ~Head(queue).good
    <2>1. 1 \in 1..Len(queue)
      BY <1>3
    <2>2. head + 1 \in failing
      BY Zenon, <1>3, <1>6, <2>1 DEF Reaching, BadFails
    <2>3. head' + 1 \in failing'
      BY Zenon, <1>1, <1>6, <2>2
    <2> QED
      BY Zenon, <1>4, <2>3 DEF Reaching, NextQueued
  <1>7. CASE head' = head /\ Head(queue).number < head
    <2>1. Head(queue).number # head + 1
      BY <1>2, <1>7
    <2>2. Queued(head + 1) => Queued(head + 1)'
      <3> SUFFICES ASSUME Queued(head + 1) PROVE Queued(head + 1)'
        BY Zenon
      <3>1. PICK i \in 1..Len(queue) : queue[i].number = head + 1
        BY Zenon DEF Queued
      <3>2. i # 1
        BY Zenon, <1>3, <2>1, <3>1
      <3>3. i - 1 \in 1..Len(queue') /\ (i - 1) + 1 = i
        BY <1>3, <3>2
      <3>4. queue'[i - 1].number = head' + 1
        BY Zenon, <1>3, <1>7, <3>1, <3>3
      <3> QED
        BY Zenon, <3>3, <3>4 DEF Queued
    <2>3. head' + 1 = head + 1
      BY Zenon, <1>7
    <2> QED
      BY Zenon, <1>1, <1>4, <2>2, <2>3 DEF Reaching, NextQueued
  <1> QED
    BY Zenon, <1>4, <1>5, <1>6, <1>7 DEF ReelStep, Reaching

\* Nobody else touches the reel.
LEMMA OthersReaching ==
    ASSUME Reaching, UNCHANGED reel
    PROVE  Reaching'
  BY Zenon DEF reel, Reaching, BadFails, NextQueued, Queued

LEMMA NextReaching == Inv /\ Reaching /\ [Next]_vars => Reaching'
  <1> SUFFICES ASSUME Inv, Reaching, [Next]_vars PROVE Reaching'
    BY Zenon
  <1>1. CASE ReelStep
    BY Zenon, <1>1, ReelStepReaching DEF Inv
  <1>2. CASE \E n \in Number : Gossip(n)
    <2>1. PICK n \in Number : Insert(n, TRUE, FALSE)
      BY Zenon, <1>2 DEF Gossip
    <2>2. TRUE \in BOOLEAN /\ FALSE \in BOOLEAN
      BY Zenon
    <2> QED
      BY Zenon, <2>1, <2>2, InsertReaching DEF Inv
  <1>3. CASE UNCHANGED reel
    BY Zenon, <1>3, OthersReaching
  <1>4. CASE \E p \in Peer \cup {Self} : Poll(p)
    <2>1. PICK p \in Peer \cup {Self} : Poll(p)
      BY Zenon, <1>4
    <2>2. CASE PollRefused(p) \/ PollUnverified(p)
      BY Zenon, <1>3, <2>2 DEF PollRefused, PollUnverified
    <2>3. CASE \E known, good \in BOOLEAN : PollServed(p, known, good)
      <3>1. PICK known \in BOOLEAN, good \in BOOLEAN : PollServed(p, known, good)
        BY Zenon, <2>3
      <3>2. sync.at = "poll" /\ Insert(sync.latest + 1, good, TRUE)
        BY Zenon, <3>1 DEF PollServed
      <3>3. sync.latest + 1 \in Number
        <4>1. sync.latest < sync.target
          BY Zenon, <3>2 DEF Inv, Polling
        <4>2. sync.latest \in 0..MaxFrame /\ sync.target \in 0..MaxFrame
          BY Zenon DEF Inv, SyncType
        <4> QED
          BY <4>1, <4>2, SyncAssumption DEF Number
      <3>4. PICK n \in Number : n = sync.latest + 1
        BY Zenon, <3>3
      <3>5. Insert(n, good, TRUE) /\ TRUE \in BOOLEAN
        BY Zenon, <3>2, <3>4
      <3> QED
        BY Zenon, <3>5, InsertReaching DEF Inv
    <2> QED
      BY Zenon, <2>1, <2>2, <2>3 DEF Poll
  <1>5. CASE SyncBegin \/ SyncList \/ SyncCandidate \/ SyncEnd
    BY Zenon, <1>3, <1>5 DEF SyncBegin, SyncList, SyncCandidate, SyncEnd
  <1>6. CASE HandleStore \/ Announce
    BY Zenon, <1>3, <1>6 DEF HandleStore, Announce, handlerOnly
  <1>7. CASE \E q \in Peer : \E t \in DOMAIN Announced[q] : HandleBegin(q, t)
    BY Zenon, <1>3, <1>7 DEF HandleBegin, handlerOnly
  <1>8. CASE UNCHANGED vars
    BY Zenon, <1>3, <1>8 DEF vars
  <1> QED
    BY Zenon, <1>1, <1>2, <1>4, <1>5, <1>6, <1>7, <1>8 DEF Next, Sync

\* For any answers of the peers and any gossip: while the head is below what
\* syncWithMesh has fetched, the frame above it is in the reel's queue, or one
\* with its number failed. A frame that was only staged, because the head was
\* further down when it came, is not left behind.
THEOREM NoStop == Spec => []FetchedIsReached
  <1>1. Init => Reaching
    <2> SUFFICES ASSUME Init PROVE Reaching
      BY Zenon
    <2>1. queue = <<>> /\ staged = {}
      BY Zenon DEF Init
    <2>2. BadFails
      BY <2>1 DEF BadFails
    <2> QED
      BY Zenon, <2>1, <2>2 DEF Reaching, NextQueued
  <1>2. Inv /\ Reaching => FetchedIsReached
    <2> SUFFICES ASSUME Inv, Reaching, head < sync.latest, head + 1 \notin failing
                 PROVE  \E i \in DOMAIN queue : queue[i].number = head + 1
      BY Zenon DEF FetchedIsReached
    <2>1. head \in Number /\ sync.latest \in 0..MaxFrame /\ queue \in Seq(Entry)
      BY Zenon DEF Inv, ReelType, SyncType
    <2>2. head + 1 \in Number /\ head < head + 1 /\ head + 1 <= sync.latest
      BY <2>1, SyncAssumption DEF Number
    <2>3. head + 1 \in staged
      BY Zenon, <2>2 DEF Inv, SyncLeavesNoGap
    <2>4. DOMAIN queue = 1..Len(queue)
      BY Zenon, <2>1, LenProperties
    <2> QED
      BY Zenon, <2>3, <2>4 DEF Reaching, NextQueued, Queued
  <1> QED
    BY <1>1, <1>2, NextReaching, Invariance, PTL DEF Spec
=============================================================================
