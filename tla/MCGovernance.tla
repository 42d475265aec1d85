---------------------------- MODULE MCGovernance ----------------------------
(***************************************************************************)
(* A sale and a redemption in one queue, two requests under way at a time, *)
(* and a clock that lets a proposal be published, voted on, ended, and     *)
(* looked at again.                                                        *)
(***************************************************************************)
EXTENDS Governance, TLC

CONSTANTS sale, redemption

MCKind == [p \in Proposals |-> IF p = sale THEN "SALE" ELSE "REDEMPTION"]
MCAmount == [p \in Proposals |-> IF p = sale THEN 2 ELSE 1]
MCSymmetry == Permutations(Handlers) \cup Permutations(FundingCoins)

\* The creator of a row matters to its review only.
MCView == <<now, [p \in Proposals |-> IF rows[p].state = "DRAFT" THEN rows[p] ELSE [rows[p] EXCEPT !.creator = Owner]],
            approvals, fundings, handlers, mempool, chain>>
=============================================================================
