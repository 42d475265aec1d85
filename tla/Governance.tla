----------------------------- MODULE Governance -----------------------------
(***************************************************************************)
(* The governance queue (governance_queue.py) and what administrators do   *)
(* with a proposal: draft, review, approve and publish it to the           *)
(* on-chain tracker (governance_publisher.py), let SGT holders vote on it, *)
(* execute it (governance_execution.py), fund a redemption before its      *)
(* execution (funded_redemptions.py), follow the native sale it opens      *)
(* (governance_sale_offer.py) and reconcile the row with the chain.        *)
(*                                                                         *)
(* The endpoints are coroutines: between the read of a row, the push of a  *)
(* bundle and the write that records it, other requests run, the process   *)
(* may stop, and the node may mine or drop the bundle.  Handlers holds the *)
(* requests under way.  The tracker, the reserve and the coins belong to   *)
(* the chain; the tracker also serves mint proposals, here Other.          *)
(***************************************************************************)
EXTENDS Integers, FiniteSets

CONSTANTS
    Proposals,      \* bills; the queue keeps one row for each (proposal_hash is UNIQUE)
    Kind,           \* "SALE", "GRANT" or "REDEMPTION", for each proposal
    Amount,         \* the SGT each proposal asks of the reserve
    Voters,         \* vault-held SGT coins, of one vote each
    Coadmins,       \* the slots of the other administrators, 1 and 2
    Handlers,       \* requests that can be under way together
    FundingCoins,   \* exact treasury outputs a wallet may be asked to create
    ReserveVotes,   \* what the locked reserve counts in the tally
    Quorum,         \* votes an execution needs
    Supply,         \* SGT in the company reserve at the start
    Window,         \* votingWindowSeconds
    MaxTime,        \* bound on the clock
    MaxRevision,    \* bound on the revision that sale snapshots raise
    NoProposal, Other, NoCoin

ASSUME GovernanceAssumption ==
    /\ Kind \in [Proposals -> {"SALE", "GRANT", "REDEMPTION"}]
    /\ Amount \in [Proposals -> Nat \ {0}]
    /\ {ReserveVotes, Quorum, Supply, MaxTime, MaxRevision} \subseteq Nat
    /\ Window \in Nat \ {0}
    /\ Coadmins \subseteq {1, 2}
    /\ {NoProposal, Other} \cap Proposals = {}
    /\ NoCoin \notin FundingCoins

VARIABLES
    now,            \* seconds
    rows,           \* governance_proposal_queue
    approvals,      \* governance_queue_signatures: the actions signed, by proposal
    fundings,       \* funded_redemption_funding
    handlers,       \* the requests under way
    mempool,        \* bundles the node holds
    tracker,        \* the proposal tracker singleton
    reserve,        \* the company SGT reserve coin
    identities,     \* the administrators' identity coins, by slot
    ballots,        \* until when each voter's SGT coin is locked
    coins,          \* what became of each funding coin
    entered,        \* the tracker coin through which each proposal entered, 0 before
    entries,        \* how often each proposal entered (history)
    ended,          \* how the tracker ended each proposal
    outputs,        \* the coin whose outputs the execution of each proposal created
    sales           \* what became of the coin each native sale put up

store == <<rows, approvals, fundings>>
chain == <<tracker, reserve, identities, ballots, coins, entered, entries, ended, outputs, sales>>
vars == <<now, store, handlers, mempool, chain>>

Owner == 0
Slots == {Owner} \cup Coadmins

Idle == [op |-> "idle"]
NoFunding == [status |-> "none", coin |-> NoCoin]
NoSale == "none"

Init ==
    /\ now = 1
    /\ rows = [p \in Proposals |-> [state |-> "none", revision |-> 0, creator |-> Owner,
                 coadmin |-> 0, deadline |-> 0, coin |-> 0, execution |-> NoCoin, sale |-> NoSale]]
    /\ approvals = [p \in Proposals |-> {}]
    /\ fundings = [p \in Proposals |-> NoFunding]
    /\ handlers = [h \in Handlers |-> Idle]
    /\ mempool = {}
    /\ tracker = [holder |-> NoProposal, coin |-> 1, tally |-> 0, deadline |-> 0]
    /\ reserve = [coin |-> 1, locked |-> FALSE, until |-> 0, amount |-> Supply]
    /\ identities = [s \in Slots |-> 1]
    /\ ballots = [v \in Voters |-> 0]
    /\ coins = [c \in FundingCoins |-> [state |-> "none", for |-> NoProposal]]
    /\ entered = [p \in Proposals |-> 0]
    /\ entries = [p \in Proposals |-> 0]
    /\ ended = [p \in Proposals |-> "none"]
    /\ outputs = [p \in Proposals |-> NoCoin]
    /\ sales = [p \in Proposals |-> NoSale]

-----------------------------------------------------------------------------
(* The queue.                                                              *)

\* create: a draft at revision 1; the same bill is refused a second row.
Create(p, a) ==
    /\ rows[p].state = "none"
    /\ rows' = [rows EXCEPT ![p].state = "DRAFT", ![p].revision = 1, ![p].creator = a]
    /\ UNCHANGED <<now, approvals, fundings, handlers, mempool, chain>>

Allowed(state) ==
    CASE state = "DRAFT" -> {"READY", "CANCELED"}
      [] state = "READY" -> {"ACTIVE", "CANCELED"}
      [] state = "ACTIVE" -> {"EXECUTED", "FAILED"}
      [] OTHER -> {}

\* The checks of transition: the revision read is the row's, the table
\* allows the target, and the unique index lets one row be ACTIVE.
MayBecome(p, revision, target) ==
    /\ rows[p].revision = revision
    /\ target \in Allowed(rows[p].state)
    /\ target = "ACTIVE" => \A q \in Proposals : rows[q].state # "ACTIVE"

\* transition_proposal: review or cancel, at the revision shown; the
\* reviewer is another administrator than the creator.
Decide(p, a, target) ==
    /\ MayBecome(p, rows[p].revision, target)
    /\ target = "READY" => a # rows[p].creator
    /\ rows' = [rows EXCEPT ![p].state = target, ![p].revision = @ + 1]
    /\ UNCHANGED <<now, approvals, fundings, handlers, mempool, chain>>

-----------------------------------------------------------------------------
(* Publication.                                                            *)

\* _idle_tracker_from_parent.
TrackerFree == tracker.holder = NoProposal

\* One free reserve coin that covers the request (and at least one SGT).
ReserveCovers(p) == ~reserve.locked /\ Amount[p] <= reserve.amount

\* What build_governance_publication asks of the row and reads of the chain.
Publishable(p) == rows[p].state = "READY" /\ TrackerFree /\ ReserveCovers(p)

\* Mutant: a package past its deadline is bound again.
Package_Rebinding(p, c) ==
    /\ Publishable(p)
    /\ rows[p].deadline <= now
    /\ rows' = [rows EXCEPT ![p].coadmin = c, ![p].deadline = now + Window]
    /\ UNCHANGED <<now, approvals, fundings, handlers, mempool, chain>>

\* bind_publication_coadmin: the owner's first package fixes the second
\* administrator and the voting deadline of this row, once.
Package(p, c) ==
    /\ Publishable(p)
    /\ rows[p].deadline = 0
    /\ rows' = [rows EXCEPT ![p].coadmin = c, ![p].deadline = now + Window]
    /\ UNCHANGED <<now, approvals, fundings, handlers, mempool, chain>>

Open(p) == rows[p].deadline # 0 /\ now < rows[p].deadline

\* What one administrator signs: the identity coin to be spent, and
\* through the delegated puzzle the proposal and its deadline.
Action(p, s) == [slot |-> s, coin |-> identities[s], deadline |-> rows[p].deadline]

Signers(p) == {Owner, rows[p].coadmin}

\* publication_signature.
Approve(p, s) ==
    /\ Publishable(p)
    /\ Open(p)
    /\ s \in Signers(p)
    /\ Action(p, s) \notin approvals[p]
    /\ approvals' = [approvals EXCEPT ![p] = @ \cup {Action(p, s)}]
    /\ UNCHANGED <<now, rows, fundings, handlers, mempool, chain>>

Approved(p) == \A s \in Signers(p) : Action(p, s) \in approvals[p]

\* The publication over the coins now live.
PublicationOf(p) ==
    [op |-> "publish", p |-> p, deadline |-> rows[p].deadline, tracker |-> tracker.coin,
     reserve |-> reserve.coin, signers |-> {<<s, identities[s]>> : s \in Signers(p)}]

\* submit_publication, up to the push.
PublishBuild(h, p) ==
    /\ handlers[h] = Idle
    /\ Publishable(p)
    /\ Open(p)
    /\ Approved(p)
    /\ handlers' = [handlers EXCEPT ![h] =
         [op |-> "publish", step |-> "push", p |-> p, revision |-> rows[p].revision,
          bundle |-> PublicationOf(p)]]
    /\ UNCHANGED <<now, store, mempool, chain>>

\* The second half: ACTIVE with the coin the bundle creates.
PublishRecord(h) ==
    LET job == handlers[h] IN
    /\ job.op = "publish" /\ job.step = "record"
    /\ IF MayBecome(job.p, job.revision, "ACTIVE")
         THEN rows' = [rows EXCEPT ![job.p].state = "ACTIVE", ![job.p].revision = @ + 1,
                                   ![job.p].coin = job.bundle.tracker + 1]
         ELSE UNCHANGED rows
    /\ handlers' = [handlers EXCEPT ![h] = Idle]
    /\ UNCHANGED <<now, approvals, fundings, mempool, chain>>

-----------------------------------------------------------------------------
(* What the chain says of a row's proposal coin                            *)
(* (trace_allocation_proposal).                                            *)

Traced(p) ==
    IF entered[p] = 0 \/ entered[p] # rows[p].coin THEN "MEMPOOL_OR_WAITING"
    ELSE IF ended[p] # "none" THEN ended[p]
    ELSE IF now < tracker.deadline THEN "VOTING"
    ELSE IF tracker.tally >= Quorum THEN "AWAITING_EXECUTE"
    ELSE "AWAITING_EXPIRE"

VoteOf(p, v) == [op |-> "vote", p |-> p, voter |-> v, tracker |-> tracker.coin]

\* complete_allocation_vote: the vote is rebuilt over the live tracker coin
\* and pushed; nothing is recorded.
Vote(p, v) ==
    /\ rows[p].state = "ACTIVE"
    /\ Traced(p) = "VOTING"
    /\ ballots[v] <= now
    /\ \A b \in mempool : b.op = "vote" => b.voter # v
    /\ mempool' = mempool \cup {VoteOf(p, v)}
    /\ UNCHANGED <<now, store, handlers, chain>>

-----------------------------------------------------------------------------
(* Funding of a redemption, after the vote and before the execution.       *)

\* _refresh_funding, and build_allocation_execution on the way: an intent
\* whose exact coin is seen unspent becomes CONFIRMED.
Seen(p) ==
    IF fundings[p].coin # NoCoin /\ coins[fundings[p].coin].state = "unspent"
      THEN [fundings[p] EXCEPT !.status = "CONFIRMED"]
      ELSE fundings[p]

Executable(p) ==
    /\ rows[p].state = "ACTIVE"
    /\ Traced(p) = "AWAITING_EXECUTE"

\* submit_redemption_funding with no funding row yet: the administrator's
\* wallet signed a bundle for one exact new output.
FundBuild(h, p, c) ==
    /\ handlers[h] = Idle
    /\ Kind[p] = "REDEMPTION"
    /\ Executable(p)
    /\ fundings[p] = NoFunding
    /\ coins[c].state = "none" /\ coins[c].for = NoProposal
    /\ coins' = [coins EXCEPT ![c].for = p]
    /\ handlers' = [handlers EXCEPT ![h] =
         [op |-> "fund", step |-> "intend", p |-> p,
          bundle |-> [op |-> "fund", p |-> p, coin |-> c]]]
    /\ UNCHANGED <<now, store, mempool, tracker, reserve, identities, ballots, entered, entries,
                   ended, outputs, sales>>

\* Mutant: the intent of the last request is kept.
FundIntend_Last(h) ==
    LET job == handlers[h] IN
    /\ job.op = "fund" /\ job.step = "intend"
    /\ fundings' = [fundings EXCEPT ![job.p] = [status |-> "SUBMITTING", coin |-> job.bundle.coin]]
    /\ handlers' = [handlers EXCEPT ![h].step = "push"]
    /\ UNCHANGED <<now, rows, approvals, mempool, chain>>

\* prepare_funding_submission, inside the dispatch and before the push: the
\* first intent of the proposal is kept, another one is refused.
FundIntend(h) ==
    LET job == handlers[h]
        first == fundings[job.p] = NoFunding IN
    /\ job.op = "fund" /\ job.step = "intend"
    /\ fundings' = IF first
                     THEN [fundings EXCEPT ![job.p] = [status |-> "SUBMITTING", coin |-> job.bundle.coin]]
                     ELSE fundings
    /\ handlers' = [handlers EXCEPT ![h] = IF first THEN [job EXCEPT !.step = "push"] ELSE Idle]
    /\ UNCHANGED <<now, rows, approvals, mempool, chain>>

\* _recover_funding_submission: of a stored intent that is not confirmed,
\* the retained bundle is recognised in the mempool or pushed again.
FundRecover(h, p) ==
    LET bundle == [op |-> "fund", p |-> p, coin |-> fundings[p].coin] IN
    /\ handlers[h] = Idle
    /\ Executable(p)
    /\ fundings[p] # NoFunding
    /\ fundings' = [fundings EXCEPT ![p] = Seen(p)]
    /\ handlers' = IF Seen(p).status # "SUBMITTING" THEN handlers
                   ELSE [handlers EXCEPT ![h] =
                          [op |-> "fund", p |-> p, bundle |-> bundle,
                           step |-> IF bundle \in mempool THEN "record" ELSE "push"]]
    /\ UNCHANGED <<now, rows, approvals, mempool, chain>>

\* mark_funding_submitted.
FundRecord(h) ==
    LET job == handlers[h] IN
    /\ job.op = "fund" /\ job.step = "record"
    /\ fundings' = IF fundings[job.p].status \in {"SUBMITTING", "SUBMITTED"}
                     THEN [fundings EXCEPT ![job.p].status = "SUBMITTED"]
                     ELSE fundings
    /\ handlers' = [handlers EXCEPT ![h] = Idle]
    /\ UNCHANGED <<now, rows, approvals, mempool, chain>>

-----------------------------------------------------------------------------
(* Execution.                                                              *)

\* The exact, still unspent funding output a redemption spends; other
\* proposals spend none.
Treasury(p) == IF Kind[p] = "REDEMPTION" THEN fundings[p].coin ELSE NoCoin

\* A redemption releases the reserve with its execution, unless somebody has
\* done so already; an allocation spends the reserve, locked or released.
ReserveStays(p) == Kind[p] = "REDEMPTION" /\ ~reserve.locked

ExecutionOf(p) ==
    [op |-> "execute", p |-> p, tracker |-> tracker.coin,
     reserve |-> IF ReserveStays(p) THEN 0 ELSE reserve.coin, coin |-> Treasury(p)]

\* execute_allocation, up to the push.  Execution evidence recorded before
\* answers the request; nothing is rebuilt.
ExecuteBuild(h, p) ==
    /\ handlers[h] = Idle
    /\ rows[p].execution = NoCoin
    /\ Executable(p)
    /\ Kind[p] = "REDEMPTION" => Seen(p).status = "CONFIRMED" /\ coins[Treasury(p)].state = "unspent"
    /\ fundings' = [fundings EXCEPT ![p] = Seen(p)]
    /\ handlers' = [handlers EXCEPT ![h] =
         [op |-> "execute", step |-> "push", p |-> p, revision |-> rows[p].revision,
          bundle |-> ExecutionOf(p)]]
    /\ UNCHANGED <<now, rows, approvals, mempool, chain>>

\* The coin whose spend creates the outputs that are recorded.
Parent(b) == IF b.coin = NoCoin THEN b.reserve ELSE b.coin

\* record_execution_submission: the bundle and the outputs it creates.
ExecuteRecord(h) ==
    LET job == handlers[h]
        row == rows[job.p] IN
    /\ job.op = "execute" /\ job.step = "record"
    /\ IF row.state = "ACTIVE" /\ row.execution = NoCoin /\ row.revision = job.revision
         THEN rows' = [rows EXCEPT ![job.p].execution = Parent(job.bundle), ![job.p].revision = @ + 1]
         ELSE UNCHANGED rows
    /\ handlers' = [handlers EXCEPT ![h] = Idle]
    /\ UNCHANGED <<now, approvals, fundings, mempool, chain>>

-----------------------------------------------------------------------------
(* Reconciliation of a row with the chain, on an administrator's request.  *)

\* reconstruct_governed_sale_offer: what became of the sale's coin.  The
\* labels of an unspent coin (AVAILABLE, PENDING, EXPIRED) are one here.
SaleStatus(p) == sales[p]

\* Mutant: recorded evidence is enough, confirmed or not.
ReconcileRead_Unconfirmed(h, p) ==
    /\ handlers[h] = Idle
    /\ rows[p].state = "ACTIVE"
    /\ Traced(p) \in {"EXECUTED", "FAILED"}
    /\ Traced(p) = "EXECUTED" => rows[p].execution # NoCoin
    /\ handlers' = [handlers EXCEPT ![h] =
         [op |-> "reconcile", p |-> p, revision |-> rows[p].revision, target |-> Traced(p),
          sale |-> SaleStatus(p),
          step |-> IF Traced(p) = "EXECUTED" /\ Kind[p] = "SALE" THEN "sale" ELSE "end"]]
    /\ UNCHANGED <<now, store, mempool, chain>>

\* reconcile_publication of an ACTIVE row.  An executed proposal needs the
\* recorded evidence and its outputs confirmed; otherwise the row stays.
ReconcileRead(h, p) ==
    /\ handlers[h] = Idle
    /\ rows[p].state = "ACTIVE"
    /\ Traced(p) \in {"EXECUTED", "FAILED"}
    /\ Traced(p) = "EXECUTED" => rows[p].execution # NoCoin /\ rows[p].execution = outputs[p]
    /\ handlers' = [handlers EXCEPT ![h] =
         [op |-> "reconcile", p |-> p, revision |-> rows[p].revision, target |-> Traced(p),
          sale |-> SaleStatus(p),
          step |-> IF Traced(p) = "EXECUTED" /\ Kind[p] = "SALE" THEN "sale" ELSE "end"]]
    /\ UNCHANGED <<now, store, mempool, chain>>

\* The same request while the proposal is voted on or waits: building the
\* execution confirms a funding output it sees.
ReconcileLook(p) ==
    /\ Executable(p)
    /\ Seen(p) # fundings[p]
    /\ fundings' = [fundings EXCEPT ![p] = Seen(p)]
    /\ UNCHANGED <<now, rows, approvals, handlers, mempool, chain>>

\* reconcile_publication of an EXECUTED native sale: the offer's status.
RefreshRead(h, p) ==
    /\ handlers[h] = Idle
    /\ rows[p].state = "EXECUTED" /\ Kind[p] = "SALE"
    /\ handlers' = [handlers EXCEPT ![h] =
         [op |-> "refresh", step |-> "sale", p |-> p, sale |-> SaleStatus(p)]]
    /\ UNCHANGED <<now, store, mempool, chain>>

\* record_sale_offer_snapshot: no revision is expected; an unchanged
\* snapshot raises none.
SaleRecord(h) ==
    LET job == handlers[h]
        row == rows[job.p]
        same == row.sale = job.sale
        after == IF same THEN row ELSE [row EXCEPT !.sale = job.sale, !.revision = @ + 1] IN
    /\ job.op \in {"reconcile", "refresh"} /\ job.step = "sale"
    /\ row.state \in {"ACTIVE", "EXECUTED"}
    /\ same \/ row.revision < MaxRevision
    /\ rows' = [rows EXCEPT ![job.p] = after]
    /\ handlers' = [handlers EXCEPT ![h] =
         IF job.op = "refresh" THEN Idle
         ELSE [job EXCEPT !.step = "end", !.revision = after.revision]]
    /\ UNCHANGED <<now, approvals, fundings, mempool, chain>>

\* The transition to what the tracker shows.
ReconcileEnd(h) ==
    LET job == handlers[h] IN
    /\ job.op = "reconcile" /\ job.step = "end"
    /\ rows' = IF MayBecome(job.p, job.revision, job.target)
                 THEN [rows EXCEPT ![job.p].state = job.target, ![job.p].revision = @ + 1]
                 ELSE rows
    /\ handlers' = [handlers EXCEPT ![h] = Idle]
    /\ UNCHANGED <<now, approvals, fundings, mempool, chain>>

-----------------------------------------------------------------------------
(* The node and the tracker's other users.                                 *)

\* The coins a bundle spends.
Inputs(b) ==
    CASE b.op = "publish" -> {<<"tracker", b.tracker>>, <<"reserve", b.reserve>>}
                               \cup {<<"identity", i>> : i \in b.signers}
      [] b.op = "vote" -> {<<"tracker", b.tracker>>, <<"sgt", b.voter>>}
      [] b.op = "execute" -> {<<"tracker", b.tracker>>}
                               \cup (IF b.reserve = 0 THEN {} ELSE {<<"reserve", b.reserve>>})
                               \cup (IF b.coin = NoCoin THEN {} ELSE {<<"treasury", b.coin>>})
      [] b.op = "fund" -> {<<"wallet", b.coin>>}

\* The coins that are unspent now.
Unspent ==
    {<<"tracker", tracker.coin>>, <<"reserve", reserve.coin>>}
      \cup {<<"identity", <<s, identities[s]>>>> : s \in Slots}
      \cup {<<"sgt", v>> : v \in {v \in Voters : ballots[v] <= now}}
      \cup {<<"wallet", c>> : c \in {c \in FundingCoins : coins[c].state = "none"}}
      \cup {<<"treasury", c>> : c \in {c \in FundingCoins : coins[c].state = "unspent"}}

\* What the puzzles ask besides: a vote before the deadline, an execution
\* after it and with the quorum.
Valid(b) ==
    /\ Inputs(b) \subseteq Unspent
    /\ b.op = "vote" => now < tracker.deadline
    /\ b.op = "execute" => now >= tracker.deadline /\ tracker.tally >= Quorum

\* The push of any of the bundles: refused when an input is spent or is
\* already in a mempool item; accepted, with or without an answer.
Push(h) ==
    LET job == handlers[h]
        clear == \A b \in mempool : b = job.bundle \/ Inputs(b) \cap Inputs(job.bundle) = {} IN
    /\ job.op \in {"publish", "fund", "execute"} /\ job.step = "push"
    /\ \/ /\ Valid(job.bundle) /\ clear
          /\ mempool' = mempool \cup {job.bundle}
          /\ \E answered \in BOOLEAN : handlers' =
               [handlers EXCEPT ![h] = IF answered THEN [job EXCEPT !.step = "record"] ELSE Idle]
       \/ /\ handlers' = [handlers EXCEPT ![h] = Idle]
          /\ UNCHANGED mempool
    /\ UNCHANGED <<now, store, chain>>

\* The tracker after it ends a proposal.
IdleTracker == [holder |-> NoProposal, coin |-> tracker.coin + 1, tally |-> 0, deadline |-> 0]

MinePublication(b) ==
    /\ b.op = "publish"
    /\ tracker' = [holder |-> b.p, coin |-> b.tracker + 1, tally |-> ReserveVotes, deadline |-> b.deadline]
    /\ reserve' = [reserve EXCEPT !.coin = @ + 1, !.locked = TRUE, !.until = b.deadline]
    /\ identities' = [s \in Slots |-> identities[s] + (IF <<s, identities[s]>> \in b.signers THEN 1 ELSE 0)]
    /\ entered' = [entered EXCEPT ![b.p] = b.tracker + 1]
    /\ entries' = [entries EXCEPT ![b.p] = @ + 1]
    /\ UNCHANGED <<ballots, coins, ended, outputs, sales>>

MineVote(b) ==
    /\ b.op = "vote"
    /\ tracker' = [tracker EXCEPT !.coin = @ + 1, !.tally = @ + 1]
    /\ ballots' = [ballots EXCEPT ![b.voter] = tracker.deadline]
    /\ UNCHANGED <<reserve, identities, coins, entered, entries, ended, outputs, sales>>

MineFunding(b) ==
    /\ b.op = "fund"
    /\ coins' = [coins EXCEPT ![b.coin].state = "unspent"]
    /\ UNCHANGED <<tracker, reserve, identities, ballots, entered, entries, ended, outputs, sales>>

\* The execution with its outputs: the allocation leaves the reserve, or
\* the funding output becomes the redemption's leaves.
Executes(p, coin) ==
    /\ tracker' = IdleTracker
    /\ reserve' = IF ReserveStays(p) THEN reserve
                  ELSE [reserve EXCEPT !.coin = @ + 1, !.locked = FALSE, !.until = 0,
                          !.amount = @ - (IF Kind[p] = "REDEMPTION" THEN 0 ELSE Amount[p])]
    /\ coins' = IF coin = NoCoin THEN coins ELSE [coins EXCEPT ![coin].state = "spent"]
    /\ ended' = [ended EXCEPT ![p] = "EXECUTED"]
    /\ outputs' = [outputs EXCEPT ![p] = IF coin = NoCoin THEN reserve.coin ELSE coin]
    /\ sales' = IF Kind[p] = "SALE" THEN [sales EXCEPT ![p] = "AVAILABLE"] ELSE sales
    /\ UNCHANGED <<identities, ballots, entered, entries>>

MineExecution(b) == b.op = "execute" /\ Executes(b.p, b.coin)

Mine(b) ==
    /\ b \in mempool /\ Valid(b)
    /\ MinePublication(b) \/ MineVote(b) \/ MineFunding(b) \/ MineExecution(b)
    /\ mempool' = {c \in mempool \ {b} : Inputs(c) \cap Inputs(b) = {}}
    /\ UNCHANGED <<now, store, handlers>>

\* The node forgets a bundle (evicted, or never reached a block).
Evict(b) ==
    /\ b \in mempool
    /\ mempool' = mempool \ {b}
    /\ UNCHANGED <<now, store, handlers, chain>>

AtEnd(p) == tracker.holder = p /\ now >= tracker.deadline

\* The execution carries no signature: anyone may push one over the same
\* coins, or one that drives the tracker alone and creates no output.
OutsiderExecutes(p) ==
    /\ AtEnd(p) /\ tracker.tally >= Quorum
    /\ \/ /\ Kind[p] = "REDEMPTION" => Treasury(p) # NoCoin /\ coins[Treasury(p)].state = "unspent"
          /\ Executes(p, Treasury(p))
       \/ /\ tracker' = IdleTracker
          /\ ended' = [ended EXCEPT ![p] = "EXECUTED"]
          /\ UNCHANGED <<reserve, identities, ballots, coins, entered, entries, outputs, sales>>
    /\ UNCHANGED <<now, store, handlers, mempool>>

\* Anyone may expire a proposal without its quorum.
OutsiderExpires(p) ==
    /\ AtEnd(p) /\ tracker.tally < Quorum
    /\ tracker' = IdleTracker
    /\ ended' = [ended EXCEPT ![p] = "FAILED"]
    /\ UNCHANGED <<now, store, handlers, mempool, reserve, identities, ballots, coins, entered, entries,
                   outputs, sales>>

\* Anyone may release a locked reserve once its deadline has passed.
OutsiderReleases ==
    /\ reserve.locked /\ now >= reserve.until
    /\ reserve' = [reserve EXCEPT !.coin = @ + 1, !.locked = FALSE, !.until = 0]
    /\ UNCHANGED <<now, store, handlers, mempool, tracker, identities, ballots, coins, entered, entries,
                   ended, outputs, sales>>

\* A mint proposal takes the idle tracker, and later leaves it.
OtherProposal ==
    /\ \/ /\ tracker.holder = NoProposal
          /\ tracker' = [holder |-> Other, coin |-> tracker.coin + 1, tally |-> 0, deadline |-> now + Window]
       \/ /\ AtEnd(Other)
          /\ tracker' = IdleTracker
    /\ UNCHANGED <<now, store, handlers, mempool, reserve, identities, ballots, coins, entered, entries,
                   ended, outputs, sales>>

\* A buyer takes the sale's coin, or it returns to the reserve.
SaleSettles(p) ==
    /\ sales[p] = "AVAILABLE"
    /\ \E outcome \in {"TAKEN", "RETURNED"} : sales' = [sales EXCEPT ![p] = outcome]
    /\ UNCHANGED <<now, store, handlers, mempool, tracker, reserve, identities, ballots, coins, entered,
                   entries, ended, outputs>>

\* The process stops with whatever requests it had.
Crash ==
    /\ \E h \in Handlers : handlers[h] # Idle
    /\ handlers' = [h \in Handlers |-> Idle]
    /\ UNCHANGED <<now, store, mempool, chain>>

Tick ==
    /\ now < MaxTime
    /\ now' = now + 1
    /\ UNCHANGED <<store, handlers, mempool, chain>>

-----------------------------------------------------------------------------
Queue(p) ==
    \/ \E a \in Slots : Create(p, a)
    \/ \E a \in Slots, target \in {"READY", "CANCELED"} : Decide(p, a, target)
    \/ \E c \in Coadmins : Package(p, c)
    \/ \E s \in Slots : Approve(p, s)
    \/ \E v \in Voters : Vote(p, v)
    \/ ReconcileLook(p)

Request(h) ==
    \/ \E p \in Proposals : \/ PublishBuild(h, p) \/ FundRecover(h, p) \/ ExecuteBuild(h, p)
                            \/ ReconcileRead(h, p) \/ RefreshRead(h, p)
                            \/ \E c \in FundingCoins : FundBuild(h, p, c)
    \/ Push(h) \/ PublishRecord(h) \/ FundIntend(h) \/ FundRecord(h) \/ ExecuteRecord(h)
    \/ SaleRecord(h) \/ ReconcileEnd(h)

Outside ==
    \/ \E b \in mempool : Mine(b) \/ Evict(b)
    \/ \E p \in Proposals : OutsiderExecutes(p) \/ OutsiderExpires(p) \/ SaleSettles(p)
    \/ OutsiderReleases \/ OtherProposal \/ Crash \/ Tick

Next == (\E p \in Proposals : Queue(p)) \/ (\E h \in Handlers : Request(h)) \/ Outside

Spec == Init /\ [][Next]_vars

-----------------------------------------------------------------------------
\* A closed row tells the truth about the chain: EXECUTED only when the
\* tracker executed that very proposal and its recorded outputs exist, FAILED
\* only when it expired, and a sale shown as settled is settled.  It is about
\* reconcile_publication, which writes what an earlier read of the chain saw
\* while other requests, and outsiders, act on the same proposal.
QueueFollowsChain ==
    \A p \in Proposals :
      /\ rows[p].state = "EXECUTED" => /\ ended[p] = "EXECUTED" /\ rows[p].execution = outputs[p]
                                       /\ Kind[p] = "SALE" => rows[p].sale # NoSale
      /\ rows[p].state = "FAILED" => ended[p] = "FAILED"
      /\ rows[p].sale \in {"TAKEN", "RETURNED"} => sales[p] = rows[p].sale

\* A bill enters the tracker at most once, although the process may stop
\* between the push of a publication and the record of it, and the row is then
\* READY, with valid approvals, while the tracker runs or has ended the bill.
\* It rests on bind_publication_coadmin fixing the deadline once: a proposal
\* leaves the tracker only after it.
PublishedOnce == \A p \in Proposals : entries[p] <= 1

\* Treasury money moves at most once for a redemption: whatever request is
\* repeated, lost or cut off, only one funding output of it is ever created.  It
\* is about prepare_funding_submission, which keeps the first intent before the
\* first push, and _recover_funding_submission, which sends only that one.
FundedOnce ==
    \A p \in Proposals :
      Cardinality({c \in FundingCoins : coins[c].for = p /\ coins[c].state # "none"}) <= 1
=============================================================================
