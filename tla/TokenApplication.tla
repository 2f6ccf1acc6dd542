--------------------------- MODULE TokenApplication ---------------------------
(***************************************************************************)
(* The token application (execution/intrinsics/token/application): how a   *)
(* sequence of requests becomes the outputs of a frame.  The prover of a   *)
(* frame applies the staged requests and leaves out those that fail; a     *)
(* full prover applies the requests of a frame again and fails on the      *)
(* first that does.  Every handler reads the state committed with the head *)
(* and one lock map that lives for one frame.                              *)
(*                                                                         *)
(* A request arrives validated (signatures, sizes).  The addresses that    *)
(* the code derives from one key, by hashing the key or the peer ID, are   *)
(* one account here; the code accepts either as the owner of a coin.  The  *)
(* genesis trie Tries[0] holds the beacon under an address no prover uses. *)
(***************************************************************************)
EXTENDS Integers, Sequences, FiniteSetsExt, MinHeap

CONSTANTS
    Account,    \* holders of coins and provers
    Beacon,     \* the key that may grant coins of the previous network
    BasisUnit   \* reward of the first ring for one frame (PomwBasis)

ASSUME AccountAssumption == Beacon \in Account

ASSUME BasisAssumption == BasisUnit \in Nat \ {0}

VARIABLES
    height,  \* number of the head frame, all frames 0..height being stored
    coins,   \* coin address -> amount and owner
    proofs,  \* prover -> its last proof: frame, parallelism, amount
    grants,  \* the grants made: owner and amount
    rings    \* Tries[1:]: sequence of functions prover -> latest frame

ledger == <<height, coins, proofs, grants, rings>>

currentFrameNumber == height + 1

\* The clock store returns a frame of this number.
Stored(n) == n <= height

\* The rings (from 1) that hold an address.
RingsOf(a) == {r \in DOMAIN rings : a \in DOMAIN rings[r]}

\* PomwBasis(1, ring, n): halved from ring to ring; n moves it only every
\* 184320 frames.  The code counts rings from 0.
PomwBasis(ring) ==
    LET divisor[s \in 0 .. ring - 1] == IF s = 0 THEN 1 ELSE divisor[s - 1] * 2
    IN BasisUnit \div divisor[ring - 1]

-----------------------------------------------------------------------------
(* Outputs of a frame, in the order in which ProcessFrame applies them.    *)

CoinOutput(amount, owner) == [out |-> "coin", amount |-> amount, owner |-> owner]
DeletedCoin(address) == [out |-> "deletedCoin", coin |-> address]
Penalty(a) == [out |-> "penalty", owner |-> a]

Refused(lock) == [ok |-> FALSE, outs |-> <<>>, lock |-> lock]
Accepted(lock, outs) == [ok |-> TRUE, outs |-> outs, lock |-> lock]

-----------------------------------------------------------------------------
(* Coins.                                                                  *)

Coin == [amount : Nat, owner : Account]

OwnedBy(address, a) == address \in DOMAIN coins /\ coins[address].owner = a

\* Fault: the coin stays unlocked.
TransferUnlocked(lock, t) ==
    IF t.coin \in lock \/ ~OwnedBy(t.coin, t.signer) THEN Refused(lock)
    ELSE Accepted(lock, <<CoinOutput(coins[t.coin].amount, t.to), DeletedCoin(t.coin)>>)

handleTransfer(lock, t) ==
    IF t.coin \in lock \/ ~OwnedBy(t.coin, t.signer) THEN Refused(lock)
    ELSE Accepted(lock \cup {t.coin},
                  <<CoinOutput(coins[t.coin].amount, t.to), DeletedCoin(t.coin)>>)

\* A coin is split into smaller ones of the same total.
handleSplit(lock, t) ==
    IF \/ t.coin \in lock
       \/ ~OwnedBy(t.coin, t.signer)
       \/ \E i \in DOMAIN t.amounts : t.amounts[i] >= coins[t.coin].amount
       \/ SumFunction(t.amounts) # coins[t.coin].amount
    THEN Refused(lock)
    ELSE Accepted(lock \cup {t.coin},
                  Append([i \in DOMAIN t.amounts |-> CoinOutput(t.amounts[i], t.signer)],
                         DeletedCoin(t.coin)))

\* Fault: only the first coin is looked up; one that is not stored counts zero.
MergeUnchecked(lock, t) ==
    IF Range(t.coins) \cap lock # {} \/ ~OwnedBy(t.coins[1], t.signer) THEN Refused(lock)
    ELSE LET Amounts(c) == IF c \in DOMAIN coins THEN coins[c].amount ELSE 0
         IN Accepted(lock \cup Range(t.coins),
                     <<CoinOutput(SumFunction([i \in DOMAIN t.coins |-> Amounts(t.coins[i])]), t.signer)>>
                       \o [i \in DOMAIN t.coins |-> DeletedCoin(t.coins[i])])

\* Distinct coins of one owner become one.
handleMerge(lock, t) ==
    IF \/ Range(t.coins) \cap lock # {}
       \/ ~IsInjective(t.coins)
       \/ \E i \in DOMAIN t.coins : ~OwnedBy(t.coins[i], t.signer)
    THEN Refused(lock)
    ELSE LET total == SumFunction([i \in DOMAIN t.coins |-> coins[t.coins[i]].amount])
         IN Accepted(lock \cup Range(t.coins),
                     <<CoinOutput(total, t.signer)>>
                       \o [i \in DOMAIN t.coins |-> DeletedCoin(t.coins[i])])

-----------------------------------------------------------------------------
(* Provers.  A refused request may leave its key locked.                   *)

\* The first key announces the others, whose keys alone are locked.
handleAnnounce(lock, keys) ==
    IF Range(keys) \cap lock # {} THEN Refused(lock)
    ELSE Accepted(lock \cup Range(Tail(keys)), <<[out |-> "announce", keys |-> keys]>>)

\* Fault: a prover that is in a ring may join.
JoinAgain(lock, t) ==
    IF t.signer \in lock \/ t.frame > currentFrameNumber THEN Refused(lock)
    ELSE Accepted(lock \cup {t.signer}, <<[out |-> "join", prover |-> t.signer]>>)

handleDataAnnounceProverJoin(lock, t) ==
    IF t.signer \in lock \/ t.frame > currentFrameNumber THEN Refused(lock)
    ELSE LET announce == IF t.announce = <<>> THEN Accepted(lock, <<>>)
                         ELSE handleAnnounce(lock, t.announce)
             locked == announce.lock \cup {t.signer}
         IN IF ~announce.ok THEN announce
            ELSE IF RingsOf(t.signer) # {} THEN Refused(locked)
            ELSE Accepted(locked, Append(announce.outs, [out |-> "join", prover |-> t.signer]))

\* What leave, pause and resume have in common: the key is a prover's.
MemberRequest(lock, t) ==
    IF t.frame > currentFrameNumber \/ t.signer \in lock THEN Refused(lock)
    ELSE IF RingsOf(t.signer) = {} THEN Refused(lock \cup {t.signer})
    ELSE Accepted(lock \cup {t.signer}, <<[out |-> t.kind, prover |-> t.signer]>>)

handleDataAnnounceProverLeave(lock, t) == MemberRequest(lock, t)

\* ProcessFrame does nothing on the outputs of these two.
handleDataAnnounceProverPause(lock, t) == MemberRequest(lock, t)
handleDataAnnounceProverResume(lock, t) == MemberRequest(lock, t)

-----------------------------------------------------------------------------
(* Mints.  A mint with one proof is a grant of the beacon.  Any other is a *)
(* prover's proof of work on a frame, and t.proofs says what it is like:   *)
(*   "two"         two proofs, which no branch of the code handles         *)
(*   "malformed"   it cannot be unpacked                                   *)
(*   "unverified"  three proofs, or not in the tree committed to before    *)
(*   "wrongsize"   in the tree, with a leaf of a wrong size                *)
(*   "badleaf"     in the tree, with a leaf that answers no challenge      *)
(*   "good"        in the tree, with the right answer                      *)

IsMint(t) == t.kind \in {"mint", "grant"}

Quality == {"two", "malformed", "unverified", "wrongsize", "badleaf", "good"}

InTree(t) == t.proofs \in {"wrongsize", "badleaf", "good"}

\* The second pass over the requests: one mint per prover and per receiver of
\* a grant, the provers being in a ring and not late.
AdmitMint(seen, t) ==
    IF t.kind = "grant"
    THEN IF t.signer = Beacon /\ t.to \notin seen THEN "set" ELSE "fail"
    ELSE IF t.proofs = "two" THEN "neither"
    ELSE IF /\ t.frame >= currentFrameNumber - 1
            /\ t.signer \notin seen
            /\ RingsOf(t.signer) # {}
         THEN "set" ELSE "fail"

\* An admitted mint is noted, under the receiver of a grant or the prover.
Noted(seen, t) ==
    IF IsMint(t) /\ AdmitMint(seen, t) = "set"
    THEN seen \cup {IF t.kind = "grant" THEN t.to ELSE t.signer}
    ELSE seen

\* Fault: the last proof of the prover is not looked at.
LateForHead(t) == t.frame < currentFrameNumber - 1

Late(t) ==
    \/ t.signer \in DOMAIN proofs /\ t.frame <= proofs[t.signer].frame
    \/ t.frame < currentFrameNumber - 1

\* The proof of a known prover replaces the last one.  It is rewarded when it
\* opens the tree that the last one committed to.
preProcessMint(t) ==
    LET known == t.signer \in DOMAIN proofs
        verified == known /\ InTree(t) /\ proofs[t.signer].parallelism = t.parallelism
        Result(what, valid, weso) ==
            [what |-> what, deletes |-> known, valid |-> valid, weso |-> weso]
    IN IF (known /\ ~Stored(proofs[t.signer].frame)) \/ t.proofs = "malformed"
       THEN Result("penalty", FALSE, FALSE)
       ELSE IF Late(t) THEN Result("error", FALSE, FALSE)
       ELSE IF ~verified THEN Result("proof", FALSE, TRUE)
       ELSE IF ~Stored(t.frame) \/ t.proofs = "wrongsize"
       THEN Result("penalty", FALSE, FALSE)
       ELSE Result("proof", t.proofs = "good", t.proofs = "good")

\* Fault: every prover is paid what its ring earns.
RewardUndivided(t, ring, total) == PomwBasis(ring) * t.parallelism

\* The reward of one prover: its share of what its ring earns in a frame.
Reward(t, ring, total) == (PomwBasis(ring) \div Max({total, 1})) * t.parallelism

ProofOutput(t, amount) ==
    [out |-> "proof", owner |-> t.signer, frame |-> t.frame,
     parallelism |-> t.parallelism, amount |-> amount]

\* A grant is refused when the receiver has a proof of the same amount.
handleGrant(t) ==
    IF \/ <<t.to, t.amount>> \in grants
       \/ t.to \in DOMAIN proofs /\ proofs[t.to].amount = t.amount
    THEN Refused({})
    ELSE Accepted({}, <<[out |-> "grant", owner |-> t.to, amount |-> t.amount],
                        CoinOutput(t.amount, t.to)>>)

\* parallelismMap[r] is what the rewarded provers of ring r work with in total.
handleMint(t, processed, parallelismMap) ==
    LET ring == Max(RingsOf(t.signer))
        amount == Reward(t, ring, parallelismMap[ring])
        deleted == IF processed.deletes THEN <<[out |-> "deletedProof", owner |-> t.signer]>>
                   ELSE <<>>
        issued == IF processed.valid
                  THEN <<ProofOutput(t, amount), CoinOutput(amount, t.signer)>>
                  ELSE <<ProofOutput(t, 0)>>
        punished == IF processed.weso THEN <<>> ELSE <<Penalty(t.signer)>>
    IN CASE processed.what = "error" -> Refused({})
         [] processed.what = "penalty" -> Accepted({}, <<Penalty(t.signer)>>)
         [] processed.what = "proof" -> Accepted({}, deleted \o issued \o punished)

-----------------------------------------------------------------------------
(* ApplyTransitions.                                                       *)

Priority(t) == IF t.kind = "mint" /\ t.proofs # "two" THEN t.frame ELSE 0

\* The requests as the array of the heap "mints" holds them.
InHeapOrder(requests) ==
    LET order == All([i \in DOMAIN requests |-> Priority(requests[i])])
    IN [i \in DOMAIN requests |-> requests[order[i]]]

\* The second pass: which requests are in the set.
Admit(requests) ==
    LET seen[i \in 0 .. Len(requests)] ==
            IF i = 0 THEN {} ELSE Noted(seen[i - 1], requests[i])
    IN [i \in DOMAIN requests |->
           IF IsMint(requests[i]) THEN AdmitMint(seen[i - 1], requests[i]) ELSE "set"]

Handle(lock, t) ==
    CASE t.kind = "transfer" -> handleTransfer(lock, t)
      [] t.kind = "split" -> handleSplit(lock, t)
      [] t.kind = "merge" -> handleMerge(lock, t)
      [] t.kind = "announce" -> handleAnnounce(lock, t.keys)
      [] t.kind = "join" -> handleDataAnnounceProverJoin(lock, t)
      [] t.kind = "leave" -> handleDataAnnounceProverLeave(lock, t)
      [] t.kind = "pause" -> handleDataAnnounceProverPause(lock, t)
      [] t.kind = "resume" -> handleDataAnnounceProverResume(lock, t)
      [] IsMint(t) -> Refused(lock)

\* The pass over the requests other than mints, with its lock map.
HandleAll(requests) ==
    LET handled[i \in 0 .. Len(requests)] ==
            IF i = 0 THEN Accepted({}, <<>>)
            ELSE Handle(handled[i - 1].lock, requests[i])
    IN [i \in DOMAIN requests |-> handled[i]]

\* The mints that share what a ring earns; the prover counts in its first ring.
Working(requests, processed, ring) ==
    {i \in DOMAIN processed :
        processed[i].valid /\ ring = Min(RingsOf(requests[i].signer))}

\* What each of the requests gives.
Results(requests, verdicts) ==
    LET handled == HandleAll(requests)
        mints == {i \in DOMAIN requests : requests[i].kind = "mint" /\ verdicts[i] = "set"}
        processed == [i \in mints |-> preProcessMint(requests[i])]
        parallelismMap ==
            [r \in DOMAIN rings |->
                SumFunction([i \in Working(requests, processed, r) |->
                                requests[i].parallelism])]
    IN [i \in DOMAIN requests |->
           IF i \in mints THEN handleMint(requests[i], processed[i], parallelismMap)
           ELSE IF verdicts[i] # "set" THEN Refused({})
           ELSE IF requests[i].kind = "grant" THEN handleGrant(requests[i])
           ELSE handled[i]]

\* The sequences one after the other, and a sequence at some positions only.
Flatten(seqs) ==
    LET flat[i \in 0 .. Len(seqs)] == IF i = 0 THEN <<>> ELSE flat[i - 1] \o seqs[i]
    IN flat[Len(seqs)]
At(seq, positions) ==
    Flatten([i \in DOMAIN seq |-> IF i \in positions THEN <<seq[i]>> ELSE <<>>])

\* The requests that succeed and the outputs, each in the order of the
\* requests.  With skipFailures the requests come in heap order.
ApplyTransitions(transitions, skipFailures) ==
    LET requests == IF skipFailures THEN InHeapOrder(transitions) ELSE transitions
        verdicts == Admit(requests)
        result == Results(requests, verdicts)
        fails == {i \in DOMAIN requests : verdicts[i] # "neither" /\ ~result[i].ok}
    IN [ok |-> skipFailures \/ fails = {},
        requests |-> At(requests, {i \in DOMAIN requests : result[i].ok}),
        outputs |-> Flatten([i \in DOMAIN requests |-> result[i].outs])]
=============================================================================
