-------------------------- MODULE MCTokenExecution --------------------------
(***************************************************************************)
(* Small instances of TokenExecution.                                      *)
(***************************************************************************)
EXTENDS TokenExecution, TLC

CONSTANTS a1, a2, a3, a4

\* The addresses in the order of their names.
MCAddressOrder ==
    LET all == <<NoAddress, a1, a2, a3, a4>>
    IN At(all, {i \in DOMAIN all : all[i] \in Account \cup {NoAddress}})

\* Coins of two holders, or none.
MCCoins == (<<0, 1>> :> [amount |-> 3, owner |-> a1])
             @@ (<<0, 2>> :> [amount |-> 1, owner |-> a2])
NoCoins == [c \in {} |-> 0]

\* Two programs: a1 earned in both, a2 in the second, a3 in the first.
MCRetro == <<[a \in Account |-> CASE a = a1 -> 30 [] a = a3 -> 40 [] OTHER -> 0],
             [a \in Account |-> CASE a = a1 -> 20 [] a = a2 -> 60 [] OTHER -> 0]>>

\* What is asked of the node: only some fields matter to a kind of request.
Workload(kinds, accounts, frames) ==
    [kinds |-> kinds, accounts |-> accounts, amounts |-> {1}, parallelism |-> {1},
     qualities |-> {"good"}, height |-> frames, restarts |-> 0]

\* Coins that change hands; announces of keys with seniority, provers that join
\* with them, grants, and a restart.
HoldingWorkloads ==
    {[Workload({"transfer", "split", "merge"}, {a1, a2}, 2) EXCEPT !.amounts = {1, 2}],
     [Workload({"announce", "joinAs"}, {a1, a2, a3}, 2) EXCEPT !.restarts = 1],
     [Workload({"announce", "grant"}, {a1, a2, a3}, 2) EXCEPT !.restarts = 1],
     Workload({"announce", "joinAs", "grant"}, {a1, a2}, 2)}

\* Provers with one and two processors whose proofs may be wrong; provers whose
\* requests are not of the right form, and grants; more provers than a ring has
\* room for; provers that pause.
ProverWorkloads ==
    {[Workload({"join", "mint"}, {a1, a2}, 3) EXCEPT
         !.parallelism = {1, 2}, !.qualities = {"good", "badleaf", "unverified"}],
     [Workload({"join", "mint", "grant"}, {a1, a2}, 3) EXCEPT
         !.qualities = {"good", "wrongsize", "malformed", "two"}],
     Workload({"join", "leave"}, {a1, a2, a3, a4}, 5),
     Workload({"join", "leave", "pause", "resume"}, {a1, a2}, 3)}

\* A few announces and a restart.
AnnounceWorkloads ==
    {[Workload({"announce"}, {a1, a2, a3}, 2) EXCEPT !.restarts = 1]}
=============================================================================
