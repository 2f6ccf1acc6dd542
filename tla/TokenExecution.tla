---------------------------- MODULE TokenExecution ----------------------------
(***************************************************************************)
(* The token execution engine (execution/intrinsics/token): requests are   *)
(* staged with the prover of frames, which applies them to the state of    *)
(* the head and proves a frame; the execution of the frame applies its     *)
(* outputs to the coins, the proofs, the prover rings and the seniority of *)
(* the provers, in one transaction with the commit of the frame.           *)
(*                                                                         *)
(* Addresses of coins are <<frame, position>>: the code hashes the two     *)
(* together with the coin.  NoAddress is the empty address of a zero item. *)
(***************************************************************************)
EXTENDS TokenApplication

CONSTANTS
    GenesisCoins,  \* coin address -> coin of the genesis frame
    Retro,         \* program -> account -> seniority earned in it (*Retro*)
    AddressOrder,  \* all addresses as FindNearestAndApproximateNeighbors orders them
    NoAddress,     \* the address of a zero PeerSeniorityItem
    RingSize,      \* provers of a full ring: 2048
    Expire,        \* frames without a reward until a prover is evicted: 100
    WordSize,      \* 2^64
    Workloads,     \* bound: what is asked of the node, see IsWorkload
    MaxStaged      \* bound: requests of a frame

ASSUME AddressAssumption ==
    /\ NoAddress \notin Account
    /\ AddressOrder \in Seq(Account \cup {NoAddress})
    /\ IsInjective(AddressOrder)
    /\ Range(AddressOrder) = Account \cup {NoAddress}

\* The kinds of requests, who makes them, the amounts of splits and grants, the
\* parallelism of provers, what the mints are like, the number of frames and how
\* often the node is restarted.
IsWorkload(w) ==
    /\ DOMAIN w = {"kinds", "accounts", "amounts", "parallelism", "qualities",
                   "height", "restarts"}
    /\ w.accounts \subseteq Account
    /\ w.amounts \subseteq Nat /\ w.parallelism \subseteq Nat
    /\ w.qualities \subseteq Quality
    /\ w.height \in Nat /\ WordSize > w.height
    /\ w.restarts \in Nat

ASSUME WindowAssumption ==
    /\ RingSize \in Nat \ {0}
    /\ Expire \in Nat
    /\ WordSize \in Nat
    /\ \A w \in Workloads : IsWorkload(w)

\* Every account of the tables has an entry in each, and the genesis frame is
\* frame 0.
ASSUME GenesisAssumption ==
    /\ Retro \in Seq([Account -> Nat])
    /\ IsFiniteSet(DOMAIN GenesisCoins)
    /\ DOMAIN GenesisCoins \subseteq {0} \X Nat
    /\ GenesisCoins \in [DOMAIN GenesisCoins -> Coin]

VARIABLES
    workload,   \* the one of this behaviour; never changes
    seniority,  \* e.peerSeniority, and its stored copy
    loaded,     \* the retro tables are in memory
    staged,     \* e.stagedTransactions
    frame,      \* the frame that is proven and not executed, or Nothing
    restarts    \* how often the node was started again

vars == <<workload, ledger, seniority, loaded, staged, frame, restarts>>

Nothing == [requests |-> <<>>, outputs |-> <<>>, number |-> 0]

\* With the key removed, and with a key set.
Without(f, keys) == Restrict(f, DOMAIN f \ keys)
With(f, key, value) == [k \in DOMAIN f \cup {key} |-> IF k = key THEN value ELSE f[k]]

-----------------------------------------------------------------------------
(* Staging.  Requests are told apart by what they name.                    *)

TokenRequestIdentifiers(t) ==
    CASE t.kind \in {"transfer", "split"} -> {<<t.kind, t.coin>>}
      [] t.kind = "merge" -> {<<t.kind, t.coins[i]>> : i \in DOMAIN t.coins}
      [] t.kind = "grant" -> {<<t.kind, t.to, t.amount>>}
      [] t.kind = "mint" -> IF t.proofs = "two" THEN {<<"sign", t.signer>>}
                            ELSE {<<"sign", t.frame, t.signer>>}
      [] t.kind = "announce" -> {<<t.kind, t.keys[i]>> : i \in DOMAIN t.keys}
      [] t.kind \in {"join", "leave", "pause", "resume"} -> {<<t.kind, t.signer>>}

Ofs(kind, set) == IF kind \in workload.kinds THEN set ELSE {}

\* Requests that accounts make: about coins there are or a coin of genesis, and
\* about frames around the head.
Request ==
    LET by == workload.accounts
        address == DOMAIN coins \cup DOMAIN GenesisCoins
        around == {n \in {height - 1, height, height + 1} : n >= 0}
        due == {height, height + 2}
    IN UNION {
        Ofs("transfer", [kind : {"transfer"}, signer : by, coin : address, to : by]),
        Ofs("split", [kind : {"split"}, signer : by, coin : address,
                      amounts : [1 .. 2 -> workload.amounts] \cup [1 .. 1 -> workload.amounts]]),
        Ofs("merge", [kind : {"merge"}, signer : by, coins : [1 .. 2 -> address]]),
        Ofs("grant", [kind : {"grant"}, signer : by, to : by, amount : workload.amounts]),
        Ofs("mint", [kind : {"mint"}, signer : by, frame : around,
                     parallelism : workload.parallelism, proofs : workload.qualities]),
        Ofs("announce", [kind : {"announce"}, keys : [1 .. 1 -> by] \cup [1 .. 2 -> by]]),
        Ofs("join", [kind : {"join"}, signer : by, frame : {height}, announce : {<<>>}]),
        Ofs("joinAs", {t \in [kind : {"join"}, signer : by, frame : due, announce : [1 .. 2 -> by]] :
                          t.signer = t.announce[1]}),
        Ofs("leave", [kind : {"leave"}, signer : by, frame : {height}]),
        Ofs("pause", [kind : {"pause"}, signer : by, frame : due]),
        Ofs("resume", [kind : {"resume"}, signer : by, frame : {height}])}

\* Requests that arrive while a frame is proven and not executed wait for the
\* next one, as if they arrived later.
handleTokenRequest(t) ==
    /\ frame = Nothing
    /\ Len(staged) < MaxStaged
    /\ height < workload.height
    /\ \A i \in DOMAIN staged :
           TokenRequestIdentifiers(staged[i]) \cap TokenRequestIdentifiers(t) = {}
    /\ staged' = Append(staged, t)
    /\ UNCHANGED <<workload, ledger, seniority, loaded, frame, restarts>>

-----------------------------------------------------------------------------
(* Seniority.                                                              *)

\* GetAggregatedSeniority: the best of the keys in each program.  The tables are
\* empty unless they were loaded.
GetAggregatedSeniority(keys) ==
    IF ~loaded THEN 0
    ELSE SumFunction([i \in DOMAIN Retro |-> Max({Retro[i][k] : k \in keys})])

\* Seniority for the grants of an account, as stored before the frame, in units
\* of 58800000.  Of several grants the last in the order of the store counts.
AdditionalSeniority(a) ==
    IF \E g \in grants : g[1] = a THEN (CHOOSE g \in grants : g[1] = a)[2] ELSE 0

SeniorityOf(active, a) == IF a \in DOMAIN active THEN active[a] ELSE 0

\* Fault: the other keys keep what they have.
AnnouncedTwice(active, keys) ==
    IF \A k \in Range(keys) : k \in DOMAIN active => active[k] = GetAggregatedSeniority({k})
    THEN With(active, keys[1],
              GetAggregatedSeniority(Range(keys)) + AdditionalSeniority(keys[1]))
    ELSE active

\* Fault: the other keys lose what the first one gains.
AnnouncedByDifference(active, keys) ==
    LET first == keys[1]
        total == GetAggregatedSeniority(Range(keys)) + AdditionalSeniority(first)
        gain == total - SeniorityOf(active, first)
        others == Range(Tail(keys))
    IN [k \in DOMAIN active \cup Range(keys) |->
           IF k \in others THEN SeniorityOf(active, k) - gain
           ELSE IF k = first THEN total ELSE active[k]]

\* The first key takes over the seniority of the others, unless one of them no
\* longer has what the tables say; then it keeps its own.
Announced(active, keys) ==
    LET first == keys[1]
        Unspent(k) == k \in DOMAIN active => active[k] = GetAggregatedSeniority({k})
        others == Range(Tail(keys))
        granted == AdditionalSeniority(first)
        merged == With(active, first, GetAggregatedSeniority(Range(keys)) + granted)
    IN IF \A k \in Range(keys) : Unspent(k)
       THEN [k \in DOMAIN merged \cup others |-> IF k \in others THEN 0 ELSE merged[k]]
       ELSE IF first \in DOMAIN active /\ Unspent(first)
       THEN With(active, first, GetAggregatedSeniority({first}) + granted)
       ELSE active

\* A penalty of 10.  A prover leaves when it has no more than that, or was not
\* rewarded for long.
Penalised(s, a, number) ==
    LET held == RingsOf(a)
        left == SeniorityOf(s.active, a) - 10
        stale == /\ held # {}
                 /\ number - s.rings[Min(held)][a] > Expire
    IN [s EXCEPT !.active = With(@, a, Max({left, 0})),
                 !.leaves = IF left <= 0 \/ stale THEN Append(@, a) ELSE @]

-----------------------------------------------------------------------------
(* ProcessJoinsAndLeaves.                                                  *)

EmptyRing == [a \in {} |-> 0]

\* RollingFrecencyCritbitTrie.Add and the order of its FindNearest... for the
\* address of zeros.
Add(ring, addresses, number) ==
    [a \in DOMAIN ring \cup addresses |-> IF a \in addresses THEN number ELSE ring[a]]
NearestOrder(ring) ==
    At(AddressOrder, {i \in DOMAIN AddressOrder : AddressOrder[i] \in DOMAIN ring})

\* What a map of seniorities gives for an address; a zero item when it has none.
Item(map, a) == IF a \in DOMAIN map THEN [addr |-> a, seniority |-> map[a]]
                ELSE [addr |-> NoAddress, seniority |-> 0]

\* The reversed array of a heap: the lowest seniority last, the others in no
\* order of seniority.
HeapReversed(items) ==
    LET order == All([i \in DOMAIN items |-> items[i].seniority])
    IN [i \in DOMAIN items |-> items[order[Len(items) + 1 - i]]]

\* A prover joins the last ring, or a new one when there is none or it is full.
Join(rs, a, number) ==
    LET full == rs = <<>> \/ Cardinality(DOMAIN rs[Len(rs)]) = RingSize
        grown == IF full THEN Append(rs, EmptyRing) ELSE rs
        last == Len(grown)
    IN IF a \in DOMAIN grown[last] THEN grown
       ELSE [grown EXCEPT ![last] = Add(@, {a}, number)]

Leave(rs, a) ==
    LET held == {r \in DOMAIN rs : a \in DOMAIN rs[r]}
    IN IF held = {} THEN rs ELSE [rs EXCEPT ![Min(held)] = Without(@, {a})]

\* Fault: a prover is evicted one frame early.
EvictEarly(rs, number) ==
    [r \in DOMAIN rs |->
        Without(rs[r], {a \in DOMAIN rs[r] : rs[r][a] <= (number - Expire) % WordSize})]

\* The comparison is one of unsigned numbers: below frame Expire it wraps.
Evict(rs, number) ==
    [r \in DOMAIN rs |->
        Without(rs[r], {a \in DOMAIN rs[r] : rs[r][a] < (number - Expire) % WordSize})]

\* Fault: one prover too many is promoted.
PromoteMore(rs, u, number) ==
    LET size == Cardinality(DOMAIN rs[u])
        next == NearestOrder(rs[u + 1])
        process == HeapReversed([i \in DOMAIN next |-> Item(seniority, next[i])])
        moved == {process[i].addr : i \in {j \in DOMAIN process : j <= RingSize - size + 1}}
    IN [rs EXCEPT ![u] = Add(@, moved, number), ![u + 1] = Without(@, moved)]

\* Ring u takes provers of the next ring until it is full.  The seniorities are
\* those before the frame.
Promote(rs, u, number) ==
    LET size == Cardinality(DOMAIN rs[u])
        next == NearestOrder(rs[u + 1])
        process == HeapReversed([i \in DOMAIN next |-> Item(seniority, next[i])])
        moved == {process[i].addr : i \in {j \in DOMAIN process : j <= RingSize - size}}
    IN [rs EXCEPT ![u] = Add(@, moved, number), ![u + 1] = Without(@, moved)]

\* The joins, then the leaves, then the promotions one after the other.
JoinAll(rs, joins, number) ==
    LET joined[i \in 0 .. Len(joins)] ==
            IF i = 0 THEN rs ELSE Join(joined[i - 1], joins[i], number)
    IN joined[Len(joins)]
LeaveAll(rs, leaves) ==
    LET left[i \in 0 .. Len(leaves)] ==
            IF i = 0 THEN rs ELSE Leave(left[i - 1], leaves[i])
    IN left[Len(leaves)]
PromoteAll(rs, number) ==
    LET promoted[u \in 0 .. Len(rs)] ==
            IF u = 0 THEN rs
            ELSE IF u = Len(rs) THEN promoted[u - 1]
            ELSE Promote(promoted[u - 1], u, number)
    IN promoted[Len(rs)]

ProcessJoinsAndLeaves(rs, joins, leaves, number) ==
    PromoteAll(Evict(LeaveAll(JoinAll(rs, joins, number), leaves), number), number)

-----------------------------------------------------------------------------
(* ProcessFrame: the outputs one after the other.  A deleted coin is read  *)
(* from the store, not from the transaction.                               *)

Rewarded(s, o, number) ==
    IF o.amount = 0 THEN s
    ELSE LET held == RingsOf(o.owner)
         IN [s EXCEPT !.active = With(@, o.owner, SeniorityOf(@, o.owner) + 10),
                      !.rings = IF held = {} THEN @ ELSE
                          [@ EXCEPT ![Min(held)] = Add(s.rings[Min(held)], {o.owner}, number)]]

\* Fault: the frame is not part of the address.
AddressWithoutFrame(number, i) == <<0, i>>

CoinAddress(number, i) == <<number, i>>

ApplyOutput(s, i, outputs, number) ==
    LET o == outputs[i]
    IN CASE o.out = "coin" ->
              [s EXCEPT !.coins = With(@, CoinAddress(number, i), [amount |-> o.amount, owner |-> o.owner])]
         [] o.out = "deletedCoin" ->
              IF o.coin \in DOMAIN coins THEN [s EXCEPT !.coins = Without(@, {o.coin})]
              ELSE [s EXCEPT !.ok = FALSE]
         [] o.out = "proof" ->
              Rewarded([s EXCEPT !.proofs = With(@, o.owner,
                            [frame |-> o.frame, parallelism |-> o.parallelism, amount |-> o.amount])],
                       o, number)
         [] o.out = "grant" -> [s EXCEPT !.grants = @ \cup {<<o.owner, o.amount>>}]
         [] o.out = "deletedProof" -> [s EXCEPT !.proofs = Without(@, {o.owner})]
         [] o.out = "announce" -> [s EXCEPT !.active = Announced(@, o.keys)]
         [] o.out = "join" ->
              [s EXCEPT !.active = With(@, o.prover, SeniorityOf(@, o.prover) + 20),
                        !.joins = Append(@, o.prover)]
         [] o.out = "leave" -> [s EXCEPT !.leaves = Append(@, o.prover)]
         [] o.out \in {"pause", "resume"} -> s
         [] o.out = "penalty" -> Penalised(s, o.owner, number)

\* The provers that join or leave, in the order of the array of a heap.
Sorted(active, addrs) ==
    LET items == HeapReversed([i \in DOMAIN addrs |->
                     [addr |-> addrs[i], seniority |-> SeniorityOf(active, addrs[i])]])
    IN [i \in DOMAIN items |-> items[i].addr]

ProcessFrame(f) ==
    LET start == [ok |-> TRUE, coins |-> coins, proofs |-> proofs, grants |-> grants,
                  rings |-> rings, active |-> seniority, joins |-> <<>>, leaves |-> <<>>]
        after[i \in 0 .. Len(f.outputs)] ==
            IF i = 0 THEN start ELSE ApplyOutput(after[i - 1], i, f.outputs, f.number)
        end == after[Len(f.outputs)]
    IN [end EXCEPT !.rings = ProcessJoinsAndLeaves(@, Sorted(end.active, end.joins),
                                                   Sorted(end.active, end.leaves), f.number)]

VerifyExecution(f) ==
    LET again == ApplyTransitions(f.requests, FALSE)
    IN again.ok /\ again.outputs = f.outputs

-----------------------------------------------------------------------------
(* The engine.                                                             *)

\* RebuildPeerSeniority: what each account of the tables earned.
InitialSeniority ==
    LET Earned(a) == SumFunction([i \in DOMAIN Retro |-> Retro[i][a]])
    IN [a \in {b \in Account : Earned(b) > 0} |-> Earned(a)]

Init ==
    /\ workload \in Workloads
    /\ height = 0
    /\ coins = GenesisCoins
    /\ proofs = [a \in {} |-> 0]
    /\ grants = {}
    /\ rings = <<>>
    /\ seniority = InitialSeniority
    /\ loaded = TRUE
    /\ staged = <<>>
    /\ frame = Nothing
    /\ restarts = 0

\* Fault: the frame holds the requests that failed as well.
ProveAll ==
    /\ frame = Nothing
    /\ height < workload.height
    /\ frame' = [requests |-> staged, outputs |-> ApplyTransitions(staged, TRUE).outputs,
                 number |-> currentFrameNumber]
    /\ staged' = <<>>
    /\ UNCHANGED <<workload, ledger, seniority, loaded, restarts>>

\* prove: the staged requests are taken, whatever becomes of them.
prove ==
    /\ frame = Nothing
    /\ height < workload.height
    /\ LET applied == ApplyTransitions(staged, TRUE)
       IN frame' = [requests |-> applied.requests, outputs |-> applied.outputs,
                    number |-> currentFrameNumber]
    /\ staged' = <<>>
    /\ UNCHANGED <<workload, ledger, seniority, loaded, restarts>>

\* The execution of the frame and the commit of the transaction.
Execute ==
    /\ frame # Nothing
    /\ VerifyExecution(frame)
    /\ LET s == ProcessFrame(frame)
       IN /\ s.ok
          /\ coins' = s.coins
          /\ proofs' = s.proofs
          /\ grants' = s.grants
          /\ rings' = s.rings
          /\ seniority' = s.active
    /\ height' = frame.number
    /\ frame' = Nothing
    /\ UNCHANGED <<workload, loaded, staged, restarts>>

\* The process ends and NewTokenExecutionEngine runs again.  It loads the tables
\* only if the store has no seniorities; the first start stored them.
Restart ==
    /\ restarts < workload.restarts
    /\ restarts' = restarts + 1
    /\ loaded' = (DOMAIN seniority = {})
    /\ staged' = <<>>
    /\ frame' = Nothing
    /\ UNCHANGED <<workload, ledger, seniority>>

Next ==
    \/ \E t \in Request : handleTokenRequest(t)
    \/ prove
    \/ Execute
    \/ Restart

Spec == Init /\ [][Next]_vars

-----------------------------------------------------------------------------
(* Correctness.                                                            *)

\* A full prover accepts the frame that the prover made of the same state: the
\* requests that ApplyTransitions keeps succeed again without those it left out,
\* and give the same outputs.  And ProcessFrame never fails on a proven frame: no
\* coin is deleted that the store does not have.
ProvenIsExecuted ==
    frame # Nothing => VerifyExecution(frame) /\ ProcessFrame(frame).ok

Total(cs) == SumFunction([c \in DOMAIN cs |-> cs[c].amount])

\* What grants and rewards of a frame add to the coins.
Issued(f) ==
    LET issues == {i \in DOMAIN f.outputs : f.outputs[i].out \in {"grant", "proof"}}
    IN SumFunction([i \in issues |-> f.outputs[i].amount])

\* Transfers, splits and merges move value, and only grants and rewards create
\* it, however the requests of a frame conflict.
ValueConserved == [][Total(coins') = Total(coins) + (IF height' = height THEN 0 ELSE Issued(frame))]_vars

\* A coin never changes, and a new one has an address of the new frame: a coin
\* that was spent never comes back.
SpentForever ==
    [][\A c \in DOMAIN coins' :
          IF c \in DOMAIN coins THEN coins'[c] = coins[c] ELSE c[1] = height']_vars

\* The coins the provers of a ring earn in a frame are at most what the ring earns.
RewardBounded ==
    \A r \in DOMAIN rings :
        LET paid == {i \in DOMAIN frame.outputs : /\ frame.outputs[i].out = "proof"
                                                  /\ frame.outputs[i].owner \in DOMAIN rings[r]}
        IN SumFunction([i \in paid |-> frame.outputs[i].amount]) <= PomwBasis(r)

\* The proofs of a prover are about ever later frames, so that no work is
\* rewarded twice.
WorkAdvances ==
    [][\A a \in DOMAIN proofs :
          /\ a \in DOMAIN proofs'
          /\ proofs'[a] = proofs[a] \/ proofs'[a].frame > proofs[a].frame]_vars

\* No prover is in two rings: the mints count one ring where they look a prover
\* up and another where they reward it.  And no ring is overfull, whatever joins,
\* leaves and is promoted in one frame.
RingsSound ==
    \A r \in DOMAIN rings :
        /\ Cardinality(DOMAIN rings[r]) <= RingSize
        /\ \A q \in DOMAIN rings \ {r} :
               DOMAIN rings[r] \cap DOMAIN rings[q] \cap Account = {}

Members(rs) == (UNION {DOMAIN rs[r] : r \in DOMAIN rs}) \cap Account

\* From frame Expire on, a prover leaves the rings only by a request of its own,
\* a penalty, or after Expire frames without a reward.
MembersStay ==
    [][height' >= Expire /\ height' # height =>
          \A a \in Members(rings) \ Members(rings') :
              \/ \E i \in DOMAIN frame.outputs :
                     \/ frame.outputs[i].out = "leave" /\ frame.outputs[i].prover = a
                     \/ frame.outputs[i].out = "penalty" /\ frame.outputs[i].owner = a
              \/ rings[Min(RingsOf(a))][a] < height' - Expire]_vars

\* What an output may add to the sum of all seniorities.
Given(o) ==
    CASE o.out = "join" -> 20
      [] o.out = "proof" -> 10
      [] o.out = "announce" -> AdditionalSeniority(o.keys[1])
      [] OTHER -> 0

\* Announcing moves seniority from key to key and creates none: in a frame the
\* sum of all grows by no more than joins, rewards and grants give, and what is
\* taken from a key never exceeds what it has, which would wrap around.
SeniorityNotCreated ==
    [][/\ \A a \in DOMAIN seniority' : seniority'[a] >= 0
       /\ SumFunction(seniority') <= SumFunction(seniority) + (IF height' = height THEN 0 ELSE
             SumFunction([i \in DOMAIN frame.outputs |-> Given(frame.outputs[i])]))]_vars

\* The first announce of all is not turned down as already made: its second key
\* gives up its seniority.
FirstAnnounceCounts ==
    [][/\ height' # height
       /\ seniority = InitialSeniority
       /\ Len(frame.outputs) = 1
       /\ frame.outputs[1].out = "announce"
       /\ Len(frame.outputs[1].keys) = 2
       /\ Range(frame.outputs[1].keys) \subseteq DOMAIN seniority
       => seniority'[frame.outputs[1].keys[2]] = 0]_vars
=============================================================================
