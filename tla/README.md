# Solslot API: a verification development

TLA+ models of the coordinator service `solslot_api`, the TLC configurations
that check them on small instances, and proofs for TLAPS. Source references are
relative to the repository root; `W` stands for
`solslot_api/stripe_delivery_worker.py` and `S` for
`solslot_api/stripe_delivery_store.py`.

Modelled are the delivery of paid purchases; the sponsored publication and
execution of MINT proposals; what keeps a deed sold to one buyer (the ledgers of
three validators) and the API's own record of a checkout; the life of a presale
series and its vouchers; the replacement of an administrator's key on two
chains; the governance queue against the tracker it publishes to; and the genesis
ceremony that everything else starts from.

1. [The system](#1-the-system)
2. [Modules](#2-modules)
3. [How the models correspond to the code](#3-how-the-models-correspond-to-the-code)
4. [Runs and bounds](#4-runs-and-bounds)
5. [Fairness](#5-fairness)
6. [Proofs](#6-proofs)
7. [Where the code and its texts disagree](#7-where-the-code-and-its-texts-disagree)
8. [Not modelled](#8-not-modelled)
9. [Plan](#9-plan)

## 1. The system

The coordinator sells tokenised property deeds on Chia. A buyer pays through
Stripe, in USDC on Base, or in Chia assets; the coordinator reserves the deed,
verifies the payment, has a threshold of independent validators sign, and
delivers the deed with an exact, fee-funded spend bundle that an external
executor (Key of Solomon) submits to the chain. Everything is kept in SQLite
databases of a FastAPI process; background tasks poll them.

| Component | State it keeps | Operations | Interacts with | Hard behaviour | What makes it correct |
|---|---|---|---|---|---|
| External delivery (`stripe_delivery_store`, `stripe_delivery_worker`, `stripe_deliveries`) | one row per paid purchase: state, write-once commitments, last error, lease | queue, claim, twelve recorded transitions, errors, review | governed index, fee funding, validators, executor, node, Base relay | crash between two writes, lease against deadline, stale snapshots, lost answers | one receipt and one delivery per payment, stages never go back, done means delivered and paid |
| Governed output index (`governed_output_index`) | per purchase: prepared manifest, bound bundle, CONFIRMED / BLOCKED | prepare, bind_submission, record_confirmed, record_blocked, reconcile | delivery worker, `GET /native-purchases/{id}`, native completion | two databases, outputs and inputs read at different times | a settled row agrees with the chain |
| Fee funding (`protocol_submission`, `protocol_funding_store`, `faucet`) | funded bundles, in-process lock | select a coin, attach a fee, submit or dispatch | every writer on chain | coins shared by all flows, one process assumed | no coin in two unfinished bundles |
| Executor and node (external) | accepted bundles, mempool, blocks | dispatch, resubmit, include, drop | all of the above | lost answers, evicted bundles, conflicting spends | - |
| Purchase ledger and inventory reservation (`payment_purchase_store`, `inventory_payment_hold*`, `purchase_admission`) | purchases, artifacts, one-buyer reservations, payment holds | admit, reserve, hold, verify, release, expire | checkout, validators, delivery | two buyers of one deed, expiry against payment | a deed is promised to one buyer at a time |
| Inventory extension, expiry, recovery (`inventory_*`) | extension claims, timeout submissions | extend, time out, recover | chain, ledger | extension against chain timeout | no delivery of a timed-out reservation |
| Base inventory holds (`base_inventory_hold*`) | holds and their submission | open, submit, settle | Base chain, ledger | two-chain ordering | hold before payment |
| Checkout lifecycle and terminals (`checkout_*`, `base_checkout_*`, `base_lifecycle_*`) | lifecycle claims, terminal outcomes | prepare, cancel, expire, refund | Stripe, ledger | cancel against late payment | one terminal per checkout |
| Vouchers (`voucher_*`, `presale_endpoints`, `funded_redemptions`, `refund_continuation`) | work items, reviews, redemptions | issue, refund, redeem | executor, Stripe | series lineage, refund against issue | one terminal per voucher |
| Validator service, quorum, ledger (`validator_*`) | signed claims | sign, collect a threshold | coordinator | retry with other signers | never two claims for one operation |
| Native purchases and wallet offers (`native_purchases`, `wallet_offer_worker`, `tibet_wallet_offer`) | offers, completions | prepare, watch, complete | index, node | offer taken while being cancelled | completion only with evidence |
| Genesis ceremony (`genesis*`) | ceremonies with their plan, signatures, reservation and artifact; the one-shot slot; two published files | enroll, fund, plan, renew, sign, broadcast, replay, confirm, publish | launch control, fee funding, node, rehearsal coordinator | a plan, a window and a slot read long before they are used; crash around each push; reorganisations | one genesis ever, of the plan that was signed; a confirmation that stands; a lock that seals the artifact |
| Administration (`admin_*`) | keys, approvals, records | propose, approve, apply | governance | replayed or stale approvals | thresholds, one-time challenges |
| Governance queue (`governance_*`, `funded_redemptions`) | bills with revision, approvals, publication, execution and sale snapshot; funding intents | review, approve, publish, vote, fund, execute, reconcile | tracker, reserve, wallets, node | crash between push and record, outsiders on chain, stale reads | a bill is published and funded once; a closed row agrees with the chain |
| zkPassport enrollment (`zkpassport_*`, `credential_*`) | enrollments, credentials | verify, issue, revoke | signer service | replay | one credential per proof |
| SOLS market (`sols_*`) | swaps, funding | quote, fund, execute | fee funding | reserve against swap | no coin in two swaps |
| Minting (`mint_*`, `kos_mint_*`) | proposals; their deeds in the collection database; the funding journal with its completions | publish, execute, cancel, recover | fee funding, node, governance tracker, collections | answer lost after the push, three databases written in turn, cancel against a publication in flight | what was sent can be recorded, once, and is |
| Launch control (`launch_*`) | signed windows, approvals, funding receipts, the payment rehearsal | propose, approve, open, rehearse | all writers | gate closed mid-flight, answers out of order | no broadcast outside its window; no customer before the rehearsal |
| Omnichain evidence, collections, vaults, wiring | documents, caches, small tables | verify, read, configure | - | mostly I/O | - |

The delivery of paid purchases is where money that was taken must turn into an
asset: it spans two databases, three external services and a chain, and nearly
every other flow copies its pattern (durable row, lease, sealed bundle, recovery
from the chain). Before it comes the contest for the deed (`InventoryAuthority`)
and the record of the checkout (`Checkout`); beside it, the presale
(`Vouchers`), in which every operation spends one singleton; above it, the
administrators: MINT proposals (`MintSubmission`), every other bill of the
treasury (`Governance`) and their own keys (`KeyChange`). Before all of them
comes the genesis ceremony (`Genesis`), whose gate and whose payment rehearsal
are the part of launch control that the rest depends on. `PROJECT.json` lists the status of every component and the
hazards with their lines.

## 2. Modules

| Module | What it is |
|---|---|
| `DeliveryTerms` | purchases, rails, till coins, signer sets; a funded bundle as a record of what tells two bundles apart |
| `DeliveryStore` | the delivery table and each of its methods, under arbitrary callers (`StoreSpec`) |
| `GovernedOutputIndex` | the four writes of the governed index |
| `ChiaNode` | environment: executor, mempool, chain |
| `ExternalDelivery` | the workers, composing the three above; crashes, deadlines, the gate, status reads, the settlement relay |
| `DeliveryPromise` | abstract specification: word, asset, money |
| `DeliveryClaims` | what the repository says of delivery and the code does not keep |
| `ExternalDelivery_proofs` | theorems about the table (`StoreSpec`), about the workers, and that they implement `DeliveryPromise` |
| `FundingJournal` | the write-once journal of sponsored transactions and their completions |
| `MintSubmission` | MINT endpoints, the submitter's lock and push, the recovery worker, the node; EXTENDS `FundingJournal` |
| `MintSubmission_proofs` | theorems about MINT submission; EXTENDS `MintSubmission` |
| `InventoryAuthority` | three validators with a ledger each, any two of which sign: reservation, payment hold, renewal, delivery, release of one deed |
| `InventoryAuthority_proofs` | theorems about one deed |
| `Checkout` | the API's rows of a checkout, from the quote to the terminal receipt, for one person's purchases |
| `Checkout_proofs` | theorems about the rows |
| `Vouchers` | one presale series: payments, issuance, launch or cancellation, refunds, redemptions; the worker's lanes, the owner and the administrator |
| `Vouchers_proofs` | theorems about a series |
| `KeyChange` | an administrator's key change on the Base coordinator and Authority V3, the API's case of it, and a request that reads before it writes |
| `KeyChange_proofs` | theorems about ended cases and the administrators in force |
| `Governance` | the queue's rows, approvals and funding intents, the requests that read, push and record, the tracker, the reserve and outsiders |
| `Governance_proofs` | theorems about publication, funding and closed rows |
| `Genesis` | the ceremony ledger, the broadcast gate, the fan-out, the submitter's lock, the publication and the rehearsal |
| `Genesis_proofs` | theorems about the ceremony |
| `MC...` | small instances |

`ExternalDelivery` EXTENDS `DeliveryStore`, `GovernedOutputIndex` and `ChiaNode`
(their variables are disjoint) and INSTANCEs `DeliveryPromise` with a refinement
mapping. A definition `X_Variant` is `X` with a plausible mistake; nothing uses
it, and putting it in the place of `X` breaks the property it is paired with.

## 3. How the models correspond to the code

**Store.** Every method of `StripeDeliveryStore` opens `BEGIN IMMEDIATE`,
decides and commits, so a method is one action. `_transition` (S:841) is the
operator `Transition(p, change)`; a recording method is a record that says from
which states it may start, where it goes, which columns it binds and whether it
gives the lease up. A column that is not NULL is never changed, a UNIQUE column
never repeated. `updated_at` is the relation `older`, which is what `claim_next`
orders by. `lease_expires_at - now` counts down by `LeaseTick`. `last_error` is
kept apart from the write-once columns because `record_error` overwrites it and
every transition clears it, whereas `record_manual_review` binds it through
`_transition`. `confirmedBy` stands for the confirmation height and names the
bundle of that block. Texts, hashes and JSON documents are abstracted to what
tells two values apart.

**Worker.** `job[w]` is the coroutine: a program counter, the claimed purchase,
the row as the claim returned it (`reconcile_once` works on that snapshot, not
on the row), what an earlier step of this advance read, and the seconds left of
`asyncio.timeout`. From one await to the next the coroutine runs alone, so that
stretch is one action. Each action is named for the stretch of `W` it models
and `PROJECT.json` gives its lines. Where two tables are written with no await
between them (`output_index.prepare` then `record_delivery_prepared`, W:770), the
two writes are two actions because the process can die in between, and the
point in between belongs to `Synchronous`: neither the deadline nor an exception
of a call strikes there. `Interrupt` stands for everything that ends an advance
at an await: deadline, cancellation, node or executor error, lost answer. It is
enabled after `Dispatch` too, so an accepted bundle whose answer is lost is in
the model. `Crash` ends the process; the restarted worker has another owner name
(W:163), so the dead one's lease is renamed to `Departed` and has to run out.
`_advance_lock` is the single `job[w]` per worker.

**Reads.** The reads of one purpose that the code makes coin by coin are one
read (all expected outputs; all inputs), but reads of different purpose stay
apart: output, input and mempool are three actions, till list and mempool are
two, outputs and inputs of a status read are two.

**Till.** Coins are named by their amounts and both selections take the smallest
eligible one, as `Faucet.select_coin` does. There are no change coins: they only
make more coins available later. Fee estimation reads nothing that a property
tells apart.

**Executor and chain.** Key of Solomon keeps every bundle it accepted and may
submit it again at any time; the mempool refuses conflicts and may drop a bundle;
a block includes a bundle whole. A deed reservation may be timed out on chain
(`reclaim`) and other services may spend the till (`foreign`). Blocks are final,
as the code takes them to be (W:1693).

**Settlement on Base.** The relay is outside `src`; it captures what
`GET /base-settlements/pending` lists and posts the evidence until it is taken.

**MINT requests.** A request (`job[r]`) runs from a checked package to its
answer; the recovery worker is one more hand (`Recovery`) that takes up the same
recording steps. `waiting` is a request before the submitter's `asyncio.Lock`;
`funding` to `polling` are inside it; `accepted`, `recorded` and `mirrored` are
the points between the three commits that follow, each in a database of its own
(`mint_proposals`, `collection_store`, the journal). No await lies behind those
three and `reserved`, so nothing else of the process runs there (`LoopIsFree`),
but the process may die or a write may raise (`Crash`, `Interrupt`). The state
checks of an endpoint happen at `Begin...` and everything it writes comes after,
as in the code; `Cancel` may come in between.

**Sponsored bundles.** An original is told apart by its phase, its proposal, the
generation of the governance tracker it was built on, and the stake it locks; a
funded bundle is an original and a till coin. `Inputs` are the coins two bundles
may fight over. `reserve` inserts every input under a primary key or rolls back,
which is `Reservable`. Which till coin is the smallest eligible one depends on
the quoted fee, so `Fund` takes any. The votes, expiry and other actions of
governance are one external step of the tracker (`Govern`). An execution has one
original for each generation: the co-signer signs one request for each tracker
coin (its own ledger is not modelled). `accepted` is a history variable.

**Recording.** `RecordRow`, `RecordCollection` and `MarkRecorded` stand both for
the tail of the endpoints and for `record_completion`: both skip a transition
that is already made, refuse a row with another transaction, and close the
completion last. The states VOTING, PASSED, FAILED and MINTED are left out: no
code of `src` makes those transitions. Collections are taken to be enabled.

**Evidence that may be stale.** In `InventoryAuthority`, `Checkout` and
`Vouchers` a request has no program counter. An action of the API is one
`BEGIN IMMEDIATE` transaction; what the request learnt before it, behind an
await, is a condition that stays true once it is (a coin was created or spent, a
receipt was issued, a payment was seen to succeed). So requests of any age and
number are in the model, and only what the transaction reads itself is current.
Where a request acts on something that can change back, the model keeps the
history instead: a deed's coin carries what a provider query made after the coin
existed could have answered (`seen`), and `MaxLag` bounds how many coins old
signed evidence may be.

**One deed, three ledgers.** `Sign...(s, ...)` is one transaction of validator
`s`; `Push...` needs the signatures of a quorum. Two quorums meet in one
validator, which is all the proofs use of "two of three". One clock stands for
the times of the chain and the validators; `Checkout` keeps two, the chain's and
the API's, and lets the reservation lapse for one before the other.

**Checkout.** A row of each table is a variable on the purchases. The deed of a
purchase is bought by nobody else there: that contest, and what the validators
sign, is `InventoryAuthority`. Leases and back-off decide only who works and
when; `Recovery(p)` is what the worker does with a row whatever the state a crash
left it in.

**Vouchers.** The series is one singleton, so `chain` is the sequence of its
spends and a coin is its place in it. `Lane` keeps the order of the nine lanes
of the worker where it matters (a redemption is resumed before it can be
refunded). The XCH rail cannot be sold in this release
(`XCH_VOUCHER_RELEASE_READY`), so its voucher starts as issued by an earlier one.
Base payments arrive in canonical order (`Height`), a Stripe payment's key sorts
after all of them (presale_endpoints.py:1136).

**Key changes.** `Serve` is a request nothing interleaves with; `Read`, then
`Resume` or `Abandon`, one whose chain reads take time: it keeps the case it read
and the snapshot it took. `Slip` lets one request wait or stop between two of its
transactions. `View` writes the state it computed from the case it had read,
`update_recovery_case` refuses only to leave a terminal state. The approvals of a
change are collapsed to the last one the coordinator waits for. The coordinator
and Authority V3 are external: one active change, the last nonce, one pending
change on Chia, a bundle that fits one version.

**Governance.** `handlers[h]` is a request between its read, its push and its
write: `PublishBuild`, `Push`, `PublishRecord` and the like; `Reconcile...` keeps
what it read of the chain until `ReconcileEnd` writes it. A write to a row is
guarded by the revision read, as in `transition`; the sale snapshot is not
(governance_queue.py:622). The tracker is one singleton that holds one proposal;
`Outsider...` are the steps anyone may take on chain, `Other` is a MINT bill. One
publication attempt of a bill is told from another by the bytes its
administrators approved.

**Genesis.** A request keeps what it read (the plan's number, the window, the
reservation) from `Start...` to the transaction that tests it again. `"sealed"`
and `"push"` are inside the submitter's `asyncio.Lock`. The funded bytes of a
ceremony depend on the ceremony and on the till coin that pays the fee: a renewal
changes the plan's expiry and its hash, not the bundle. A confirmation reads the
inputs, then the outputs, then the peak, each behind an await (genesis.py:1831-1902),
so `ReadInputs`, `ReadOutputs` and `ReadPeak` are three actions, and the row is
written by a fourth. `height` is the block a genesis is in and `peak` the last
block, counted from the first that held one. A reorganisation takes a block away
that is less deep than `genesis_chia_confirmations`; it leaves the peak where it
was, and what it took away is mined again in a later block or never.
`Authority` is `current_launch_authority`: who may act changes with the slot, the
publication and the files. Publication and file contents are told apart by the
signatures they carry. Each ceremony has a source coin of its own; gates are
proposed to open at once; the lapse of an approval after ten minutes is left out,
because it only takes a chance away.

## 4. Runs and bounds

`CHECK_DEADLOCK FALSE` everywhere but in `genesis` and `overtaken`: once every purchase is final,
or every row in review, the service has nothing left to do. To a ceremony requests
can always be made again.

| Run | Instance | Properties | What it shows |
|---|---|---|---|
| `crash` | one Base purchase, 2 workers, 2 quorums, a deed that may be reclaimed, a till coin another service may spend, 3 faults | TypeOK, StageEvidence, CaptureAfterDelivery, AdvanceIsLeased | crashes, interruptions and gate closings at every point |
| `stalls` | the same with event loops that outlive their lease and with status reads, 1 fault | DispatchedIsSealed, FinalizedIsDelivered, KeepsPromise | two workers do advance one purchase, with two snapshots, and safety still holds |
| `liveness` | a Stripe and a Base purchase, one worker, a till of 3 coins, a deed that may be reclaimed, status reads, 1 fault, a mempool that drops bundles | FeeCoinsDisjoint, EveryPaymentEnds | the till runs short and no fee coin is promised twice; every payment comes to rest in a delivery, in review or in one of five named situations the code does not leave |
| `mint` | one proposal, its owner and another administrator with a request each, 2 stakes, 2 till coins, 2 tracker moves, 2 faults | RecordedWasAccepted, CompletedIsRecorded, MirrorAgrees, MinedIsRecorded | publication, cancellation and execution with crashes, lost answers, evictions and foreign till spends, recorded by request and recovery worker at once; a completion that can never be recorded does not keep recovery from one that can |
| `deed` | a deed with a card, a Base and an offer buyer, 2 validators that sign together, 4 coins, 1 renewal, evidence 1 coin old | OneBuyerMayPay, ClosedIsSettled, PaidBuyerKeepsDeed, OneFuture, OneLiveReservation, AbortIsFinal | reservation, hold, renewal, delivery, release and the two transactions of a Base observation, on stale evidence: the deed is never sold twice, and a second buyer is asked for money only after the first one's is over |
| `checkout` | one person, a card and a Base purchase, 1 renewal, two clocks | SlotFreedWhenOver, OneDeedEach, ClaimsAreTrue, TimeoutExcludesHold, CheckoutsSettle | admission, hold, abort, release, renewal, time-out and terminal with a crash after every transaction; every held checkout is closed |
| `vouchers` | a voucher on each rail, 2 launches, both deadlines | OneSpendPerCoin, BooksFollowChain, VouchersSettle | one signed spend of the singleton at a time; the books follow the chain; every paid voucher is settled but for three named cases |
| `key_change` | two changes of one recovery kit, 4 versions of Authority V3, one request that waits or stops halfway | EndedAgrees, RosterIsInForce | what the API calls ended agrees with both chains; the derived administrators are in force whenever privileged writes are open |
| `governance` | a sale and a redemption, 2 requests, 2 administrators, 1 vote besides the reserve's, 2 funding outputs, a clock of 3, revisions to 8 | QueueFollowsChain, PublishedOnce, FundedOnce | review, publication, vote, funding, execution, reconciliation with crashes, lost answers, evictions and outsiders: a bill enters the tracker once, a redemption is funded once, a closed row agrees with the tracker |
| `genesis` | two ceremonies, 2 requests, an owner and two administrators, 4 till coins, 2 rehearsals, 2 plans each, a clock of 2 | OneGenesis, BroadcastIsSigned, FanOutIsKnown, ConfirmedIsFinal, LockSealsArtifact, RehearsalStands | from the draft to the first customer with crashes, lost answers, evictions, reorganisations, a plan that expires and a window that is replaced while a request waits, and a confirmation read piece by piece |
| `unreviewed_conflict` | as small as the behaviour needs | ConflictLeavesPrepared | section 7 |
| `overtaken` | the instance of `genesis` | ArtifactIsFinal | section 7 |

Why the bounds are enough. One purchase is enough for what concerns one row,
because rows interact only through UNIQUE columns, the till and `claim_next`;
those have `liveness` with two purchases. Two workers are enough for a
stale advance and a fresh one. `LeaseSeconds = 2`, `AdvanceTimeout = 1` is the
smallest pair with a deadline strictly inside the lease (the configuration
refuses anything else, W:131). `MaxFaults` bounds crashes, interruptions and gate
closings together; three are needed for a crash, a failing retry and another
crash, and the invariants do not mention the counter. Two quorums let a retry
meet other signers. Three coins are one receipt input and two fees, so that two
purchases fight over them. In `liveness` most of what strands a purchase happens:
`EveryPaymentEnds` fails there when `Watched`, `Unauthorizable` or `TillDry` is
left out of `Stranded`, when `Unreviewed` speaks of losses only or of blocked
index rows only, and when `Lost` forgets the coins of sealed bundles. `Obstructed`,
a preparation that other validators signed and a receipt input that somebody else
spent need a fourth coin, a foreign spender or another quorum, with which this
instance is too large for one run. In `stalls`
the two workers are declared symmetric: no definition tells them apart and the
properties are safety. Coins are ordered by amount and are not.

For MINT, two requests are enough for a retry and a rival, since the lock lets
one in at a time, and one proposal is enough for two originals to compete: the
owner may publish it again with another stake, or with the same one, once the
tracker has moved. `MaxTip` bounds the moves of the tracker; publication and
execution take one each, or a first package goes stale and a second is mined. Two
faults are a crash and a failing retry. Two till coins are one for each sponsored
transaction.

One deed: the properties compare two buyers; one of each rail is in `deed`. Its
two validators are one quorum, so that what is checked there is what each ledger
refuses; that two different quorums meet in a validator whose ledger refuses is
what the theorems prove, for any validators and any quorums that intersect. Four coins
are minted, reserved, renewed and delivered. `MaxLag = 1` is the smallest
staleness; the theorems hold for every lag. Checkout: one renewal stands for 128;
two purchases of one person are what admission compares. Vouchers: one voucher on
each rail, because the rails differ and serials of one rail do not;
`MaxLaunches = 2` is a launch that expires and another attempt. Key changes: four
versions are two complete changes; `MaxSlips = 1` is one request that waits or
stops, the smallest fault; the state is viewed without the columns of cases that
no request can read any more (`Readable`).

Governance: the tracker holds one bill, so two bills compete for it; a sale and a
redemption take every path a grant takes and more. Two requests are a retry and
its first try. Two funding outputs are two wallets' bundles for one redemption.
`Window` 1 and `MaxTime` 3 let a vote end, and another be published after it.
Genesis: two ceremonies are what the one-shot slot keeps apart. `PlanTTL` is
shorter than `Window`, as a plan that expires inside an open window is the case
that matters; two plans are one renewal. Four till coins are one for each of four
bundles. `Confirmations` is the 3 of the configuration; no state of the search
comes near `MaxPeak`. `Bounded` names what the search leaves aside (steps of the
second ceremony that repeat those of the first while both are prepared, seats in
another order, two confirmations read side by side, what follows an artifact
signed for a genesis that is gone) and `View` does not tell apart what can no
longer matter, such as anything of a block but its depth and whether the genesis
is still in it. The proofs leave nothing aside.

The service is deployed with one process (docs/STAGING_BACKEND_DEPLOY.md:71).
Two workers occur while a replaced process still runs, or with a second process;
`crash` and `stalls` keep their safety with two. `FeeCoinsDisjoint` is claimed
for one process only, because the lock that serialises the selection is an
`asyncio.Lock` (protocol_submission.py:124).

## 5. Fairness

`FairSpec` assumes: the poll loop comes round whenever it can claim something
again and again (`PollNext`, strong: the gate and leases come and go); a worker
with a next step takes it (`Work`) and a dead process is restarted by systemd
(`Restart`); time passes (`Tick`, strong: a worker at its deadline holds it back
until `asyncio.timeout` fires); a closed gate is opened again; the executor keeps
resubmitting; a bundle that keeps coming back to the mempool is mined (strong:
it may be dropped in between); the relay captures what it lists and repeats its
post. Nothing is assumed of callers of `reconcile`, faults, dropped bundles or
foreign spenders. For MINT, `FairSpec` assumes only that a stretch without await
runs to its end and that the event loop comes round to the recovery worker, a
task that sleeps 15 seconds between passes (strong: it is kept waiting while a
request runs such a stretch); no request is assumed to go on, so what liveness
shows is that the worker alone is enough. Faults are finite (`MaxFaults`): with a deadline at every
attempt nothing could be promised.

`Checkout` assumes that the recovery worker comes round to each purchase (its
back-off is at most 300 seconds) and nothing of buyers, validators that are asked
again, or administrators. `Vouchers` assumes that the worker's lanes rotate
(strong, because a lane that holds the series keeps the others out for a lease),
that pushed bundles are mined except a redemption past its window, that a launch
under way is signed, pushed, confirmed or archived, and that time passes;
nothing of owners, administrators or redemptions being asked for.

## 6. Proofs

### The delivery table

`ExternalDelivery_proofs`, part one, proves, for every set of purchases, coins, quorums,
owners and texts, and every lease length (assumptions: `RailAssumption`,
`CoinAssumption`, `NoneAssumption`, `LeaseAssumption`, `NullAssumption`, which
say that NULL is none of the values and that a lease lasts), under `StoreSpec`:

| Theorem | States |
|---|---|
| `StoreTyped` | `[]StoreTypeOK` |
| `ColumnsAreWriteOnce` | `WriteOnce` |
| `StagesOnlyAdvance` | `NeverBackward` |
| `LeasesAreExclusive` | `LeaseIsExclusive` |
| `HoldersAreUnique` | `[]OneHolder` |
| `StagesHaveEvidence` | `[]StageEvidence` |

The argument. `StoreTypeOK` is inductive by itself. `Changes` goes through the
ten transitions once: each is well typed, leads from a stage to a later one and
binds what that stage needs (`Sound`). `StepCases` reduces every step to a queue,
a lease call, an error, a review or a sound transition, and the theorems treat
all transitions alike through `TransitionRow`. `StageEvidence` is not inductive:
a row that does not exist could hold columns, and `queue` would then enter
`PAYMENT_VERIFIED` on top of them. The strengthening is `AbsentIsEmpty` (an
absent row holds nothing), proved as `StoreEmpty`. `OneHolder` needs only the
typing and the uniqueness test inside `Accepts`.

### The workers

`ExternalDelivery_proofs`, parts two and three, proves for `Spec`, that is for
every number of workers, purchases, coins, quorums and faults, with stalls and
status reads switched on or off except where the table says otherwise:

| Theorem | States | Under |
|---|---|---|
| `DispatchedAreSealed` | `[]DispatchedIsSealed` | |
| `CapturesFollowDelivery` | `[]CaptureAfterDelivery` | |
| `TypesHold` | `[]TypeOK` | |
| `WorkersKeepEvidence` | `[]StageEvidence` | |
| `WorkersKeepRows` | `[]OneHolder`, and every step keeps bound columns and stages | |
| `FinishedIsDelivered` | `[]FinalizedIsDelivered` | |
| `DeliveryIsKept` | `KeepsPromise`: the composition implements `DeliveryPromise` | |
| `AdvancesAreLeased` | `[]AdvanceIsLeased` | `~Stalls` |
| `FeeCoinsApart` | `[]FeeCoinsDisjoint` | `OneWorker` |

The two hypotheses are those of the runs that check the properties. With an event
loop that outlives its lease a worker does advance a purchase it no longer
leases, and two processes do choose one fee coin (section 4). The other theorems
hold without either: what the table and the chain promise does not rest on
mutual exclusion.

*Part two.* Neither of its invariants is inductive. The snapshot of a worker may
be older than the row, and a worker that lost its lease may still be running, so
the inductive invariant `IInv` says what a worker's hands hold at each step: its
snapshot agrees with the row on every exact bundle the snapshot has (`Advance`; it
may lack one the row has got since), what it is about to seal is for its own
purchase, what it is about to dispatch is the sealed one, the exact bundle of a
row is a bundle of that purchase and that column (`RowsOwn`), and a row waits for
settlement only after its delivery was mined (`PendingIsDelivered`). Nothing in
`IInv` mentions leases. Most steps commit nothing and keep `IInv` for one reason
(`Harmless`); taking up a sealed bundle, funding, sealing and dispatching have a
lemma each.

*Part three* adds to `IInv` what the other properties need (`Whole`):

- `Table`, `Books`, `Switches`, `Equipped`: values of their kinds, with the stage
  evidence of each row, of each snapshot, and the kind of thing a worker holds at
  each await;
- `Confirmations`: a row that is settling or done was confirmed by the bundle
  sealed in it, which is mined, with the index CONFIRMED first and, on Base, the
  payment captured. It is kept because the three columns are write-once and
  blocks stay;
- `LeasesHeld`: without stalls a running worker either holds a lease that outlasts
  its own deadline on a row still in the stage it read, or is in the synchronous
  tail of a Base confirmation (`Unleased`), where the row is past all others'
  reach. This is the inductive form of `AdvanceIsLeased`: the deadline must be
  strictly inside the lease (`LeaseAssumption`, W:131);
- `FeesApart`: with one worker, nothing is sealed between the choice of a fee coin
  and the sealing of its bundle;
- `NoConflicts`: the mempool holds no two bundles that spend one coin, which is what
  lets a mined bundle be told from its rival.

A worker's step is proved once to be one of a few kinds, and a row's change to
come with its evidence (`Arrives`) and its lease (`GoesOnLeased`); each conjunct
of `Whole` is then kept for every kind.

*The refinement.* `DeliveryIsKept` takes `Whole` and shows that `Init` maps to the
initial states of `DeliveryPromise` and each step to one of its steps or to a
stutter: a queued payment is owed, a mined delivery moves the asset once, a foreign
spend of the deed reclaims it, the relay captures what was delivered, and a row
that is FINALIZED or in MANUAL_REVIEW is done or with the reviewers. `NoConflicts`
is what makes a delivery and a reclaim exclude each other. `IInv` and `Whole` were
first checked with TLC on instances with one purchase and with two.

### MINT submission

`MintSubmission_proofs` proves for `Spec`, that is for every number of requests,
proposals, administrators, stakes, till coins and faults:

| Theorem | States |
|---|---|
| `SentAreInstructed` | `[]SentIsInstructed` |
| `OnlyAcceptedIsRecorded` | `[]RecordedWasAccepted` |
| `ClosedIsRecorded` | `[]CompletedIsRecorded` |
| `CollectionAgrees` | `[]MirrorAgrees` |
| `RowsOnlyAdvance` | `RowsAreFinal` |

Assumptions: `BundleAssumption` (NULL is no bundle) and `TipAssumption`
(`MaxTip \in Nat`). None of them is inductive. The inductive
invariant `IInv` has three layers, each inductive on top of the one before:

- `Typed`: values of their kinds, and past funding a job has a bundle;
- `Journaled`: what a hand is about to send is funded and has instructions, what
  it is about to record was accepted, and the node holds nothing else;
- `Recording`: a hand between the proposal and the collection database has its
  transaction in the row, one before the completion has it in the deed too;
  a draft has no transaction and only an executed row an execution (`RowShape`).

`RowShape` is what makes `MirrorAgrees` survive the write to the row: the columns
being written hold nothing, so the deed holds nothing either (`RowSet`). A hand
keeps its part of `Recording` while others write, because rows and deeds that
hold something stay (`RowsStay`, `DeedsStay`). Nothing in `IInv` mentions the
lock of the submitter or the synchronous stretches: these theorems rest on the
conditions each step tests in the databases, not on one request running at a
time. `IInv` was first checked with TLC on the instance of
`mint`.

### One deed

`InventoryAuthority_proofs` proves `OneBuyerTheorem`, `PaidBuyerTheorem`,
`ClosedIsSettledTheorem`, `OneFutureTheorem`, `OneLiveReservationTheorem` and
`AbortIsFinalTheorem` for every number of buyers, validators, coins, renewals and
every lag, from `QuorumAssumption` (two quorums meet) and
`PurchaseAssumption`. `IInv` has fourteen conjuncts, among them: the ledger's
active reservation of a coin is a reservation a quorum could have made
(`LiveIsActive`, `ReservedWasOnSale`); a validator that holds for a buyer holds
for the last one in its history (`HeldIsLast`, `OneHeld`); what a hold of one
quorum says excludes what another could sign (`QuorumExcludes`); the chain's side
and the ledgers' side of a coin agree (`SoldIsCurrent`, `OneSide`); an aborted
buyer has nothing signed (`AbortedIsUnsigned`). The theorems then take two
quorums, pick the validator they share and read its ledger.

### The checkout's rows

`Checkout_proofs` proves `SlotFreedTheorem`, `OneDeedTheorem`, `ClaimsTheorem`
and `TimeoutTheorem` for any purchases of any persons and any number of
renewals. The inductive invariant is the type invariant, a relation `Row(p)` of
the columns of one purchase to each other, the chain and the payment, and
`OneActive` between two purchases of one person; nothing else crosses purchases,
so each action is one row's lemma.

### A series and its vouchers

`Vouchers_proofs` proves `TypeSafety`, `OneSpendTheorem` and `BooksTheorem` for
any vouchers, rails and launches. `IInv`: the four tables exclude each other
(`Exclusive`), a retained bundle is its voucher's and for the current coin
(`Bound`, `PoolIsRetained`), the books are the chain or one spend behind it
(`OneBehind`), a voucher under way has its bundle (`UnderWay`), and series and
vouchers are what the spends up to the current coin made of them
(`SeriesFollows`, `VouchersFollow`).

### Key changes

`KeyChange_proofs` proves `EndedChangesAgree` for any changes, slots and
requests that stop halfway. The difficulty is that the end of a change on Chia is
identified by the version alone. `Told(c, v)` is what a preparation seen at
version `v` tells ever after: at `v` the change is pending, and at `v + 1` it is
what the last spend says. `IInv` says that requests and receipts are told the
truth (`RequestIsTrue`, `ReceiptsAreTrue`), that one change is pending at a time
(`OnePending`) and that bundles fit their version (`PoolFits`).

`RostersAreInForce` proves `RosterIsInForce` in the same generality. The API does
not store who is in force; it takes the completed case with the highest number of
the coordinator. The proof has to show that this is what both chains came to.
`RInv` adds to `IInv`: the coordinator's numbers tell changes apart and the change
in flight has the highest (`Numbers`, which counts, as the coordinator does); its
key is that of the newest converged change, except while one is executed, whose
old key is (`BaseKeys`); Chia's key is that of a completed change, and never one
that a newer completed change was to replace (`ChiaKeys`); nothing is recorded of
a change Base does not know (`Begun`). While writes are open and no change is
`Loose`, every case has ended, and `EndedAgrees` makes completed, converged and
completed on Chia the same set: its newest member is the one answer. The
exceptions are those of section 7.

`RInv` was first checked with TLC on the instance of `key_change`, `QInv` below on
that of `governance`.

### Governance

`Governance_proofs` proves `PublishedSafe`, `FundedSafe` and `QueueSafe` for any
bills, administrators, voters, funding outputs and requests. None is inductive.
`PInv` adds that every publication in a request's hands or in the mempool carries
the one deadline its row has and names a tracker coin, and that it names the
current one only while the tracker is idle and the bill has not been in it
(`PublicationsFit`); a bill that has been in the tracker is still there, or its
deadline has passed, after which none is built (`EntriesEnd`). `FInv` adds that
every funding bundle that may reach the node carries the output of the intent
stored first, and that an output is bound to one redemption (`FundingsFit`).

`QueueFollowsChain` (`QueueSafe`) rests on `QInv`, which adds to `PInv` that what a
reconciliation has read stays so until it writes (`JobsTrue`). That is true
because of how bills end (`Endings`): the tracker says once how, a bill that
entered and has not ended is the one it holds, outputs and a settled sale come
only with an execution, and neither an ending nor a settled sale is undone. An
execution in a request's hands or in the mempool names the current tracker coin
only while its own bill is there (`ExecutionsFit`), so nobody executes another
one. `RowsTrue` is the property with the evidence a closed row must have.

### The ceremony

`Genesis_proofs` proves, for any ceremonies, requests, administrators, till coins,
rehearsals, plans and times, from `GenesisAssumption`; the instance of `genesis`
leaves aside most of a second ceremony's steps, and the proofs do not:

| Theorem | States |
|---|---|
| `OneGenesisForEver` | `[]OneGenesis` |
| `SignedBroadcast` | `[]BroadcastIsSigned` |
| `KnownFanOut` | `[]FanOutIsKnown` |
| `FinalConfirmation` | `[]ConfirmedIsFinal` |
| `ConfirmationStands` | a confirmation that is not overtaken when it is written never is |
| `SealedArtifact` | `[]LockSealsArtifact` |
| `StandingRehearsal` | `[]RehearsalStands` |
| `NothingTakenBack` | `[][Stable]_vars` |

Every request reads, waits for a lock, the node or a disk, and then writes, so no
property is inductive: what matters is what a request may still rely on when it
goes on. `HandlerOK` says this for each place it may stand at: that it pushes the
coin the journal or the slot names, confirms the ceremony that has the slot,
writes the publication that is bound. `Stable` says that nothing of the sort is
ever taken back by any step, a reorganisation within the depth included; with it
the requests that do not move keep their `HandlerOK` for one reason. `LedgerOK` is
what the tables say of each other: the ceremony past its broadcast is the one with
the slot (`SlotTaken`), what is approved was approved by owner and coadministrator
(`Approved`), publication, files and states agree (`Published`).

`FinalConfirmation` adds `Depths` to it: a genesis is in a block exactly while its
block is on record (`BlocksOK`); a request that has read the peak holds a block
that is deep by now, whatever is in it (`ReadsOK`); so does a confirmed row
(`RowsOK`). That the genesis is in the block the row names cannot be part of it,
because a reorganisation may come between the reads (`Overtaken`, section 7). What
is proved instead is that this is the only way: a row that names the right block
when it is written has a final genesis, and no later step overtakes it
(`ConfirmationStands`), for every depth and every number of requests.

### Only model-checked

Liveness: `EveryPaymentEnds`, `MinedIsRecorded`, `CheckoutsSettle` and
`VouchersSettle`, which rest on fairness and ENABLED and are beyond the prover.
Every invariant, action property and refinement that a passing run checks is also
a theorem. The other way round, `WriteOnce`, `OneHolder`, `NeverBackward`,
`LeaseIsExclusive`, `SentIsInstructed`, `RowsAreFinal` and the type invariants of
the store, of `MintSubmission` and of `Vouchers` are proved, and no run repeats
them.

## 7. Where the code and its texts disagree

`unreviewed_conflict` and `overtaken` are runs that end in a counterexample
(`DeliveryClaims` and `Genesis` quote the texts); the other behaviours are in the models, which therefore do not
claim the opposite.

Delivery:

- After any retryable error `last_error` is not NULL, so `record_manual_review`
  with another text raises out of `reconcile_once`: a real conflict is never
  recorded and the row is retried for ever (S:790-810). Run `unreviewed_conflict`;
  `Unreviewed` in `EveryPaymentEnds`.
- A purchase whose deed, or a coin it has committed, was spent by somebody else
  while the worker waits for its block, or asks the validators again, is never
  sent to review (`Watched`); one that finds no coin left in the till waits for
  the till to be filled (`TillDry`).
- A purchase that went to review, or is stranded, with its receipt input unspent
  keeps the coin on record. Every later purchase picks the same smallest coin
  (W:1498-1524) and is refused by the unique key (S:115), as a retryable error, for
  ever (`Obstructed`).
- The receipt's output is read, its own bundle is mined, then its input is read
  as spent: the purchase goes to MANUAL_REVIEW as a conflict although its own
  receipt confirmed (W:482-524; the delivery has the same window, W:1249-1292).
- A committed receipt input is in no reservation, and the selection of a receipt
  input honours none; both take the smallest coin, so one purchase seals as its
  fee the coin another has committed (W:1498, protocol_submission.py:453).
- A Base delivery confirmed before its submission was recorded has no
  `delivery_bundle_id`; the settlement authorization needs it and no transition
  sets it any more, so the payment is never captured (W:1249, W:1413-1427;
  `Unauthorizable`).
- A status read that takes the outputs before and the inputs after the block of
  the delivery writes BLOCKED on a delivered purchase, which nothing undoes
  (governed_output_index.py:509-560).
- A crash between the index write and the row write of a preparation, then a
  retry that other validators answer first: `index.prepare` refuses the second
  manifest and the purchase ends in review (W:770-793).

MINT:

- A draft canceled while its publication is in flight ends CANCELED with its
  publication mined; `set_published` is refused and the completion stays pending
  for ever (mint_endpoints.py:734, 862, 882), although "/cancel cannot pre-empt
  chain state" (mint_endpoints.py:435).
- The row of a MINT proposal is written when the local mempool has the bundle, and
  the completion is closed; a bundle the mempool drops later leaves a PROPOSED row
  with nothing on chain (mint_endpoints.py:882, mint_proposals.py:49).
- An execution recorded while its publication's deed is still missing finds no
  deed and is closed; mirrored later, the deed stays PROPOSED
  (collection_store.py:1019). It takes a failure that outlasts the recovery passes,
  which come every 15 seconds. This is why `CompletedIsRecorded` speaks of the
  deeds of publications only.

Checkout:

- `POST /abort` pins ABORTING on a checkout that is armed and alive; if the
  payment then succeeds or is refunded, nothing leaves ABORTING
  (inventory_payment_holds.py:102). `PinnedByHand` in `CheckoutsSettle`.
- An admission in SIGNING whose quorum failed before anything was reserved is
  never closed: the person cannot buy again.
- `_mempool_bundle_id` takes any mempool spend of the available coin for this
  purchase's own reservation.

Vouchers:

- A Stripe order key starts with "stripe:" and sorts after digits: after one, every
  later Base payment is refused as out of order (presale_endpoints.py:1136).
- A payment recorded while a launch or a cancellation is retained, or (Stripe)
  after the phase it was checked against is over, leaves its voucher pending with
  no lane that issues it; `claim_direct_voucher_work` then refuses every owner
  refund of the series, although "Existing vouchers can still be refunded or
  reconciled" (voucher_rail_policy.py:19). `Stray` in `VouchersSettle`.
- An owner's presale refund, retained and unmined at the refund deadline, keeps
  the series for ever (`LateRefund`); so does a redemption unmined at the end of
  the delivery window, whose refund lane is then out of reach (`LateRedemption`).
- A Base voucher of a canceled series has no refund path; a retained cancellation
  does not expire; nothing consumes REFUND_REQUIRED events.

Key changes:

- A submission, a second observation of a pending preparation, or a view that was
  read earlier takes a PARTIAL case back to SUBMITTED or READY
  (admin_key_changes.py:4658, 5520, 5097); it may then expire as FAILED, with the
  key changed on one chain or both, although the administrators were told
  "Privileged operations remain frozen until the matching Chia identity is
  confirmed" (admin_key_changes.py:4343). `Loose` in `RosterIsInForce`.
- A veto on Base observed before the Chia preparation is on record ends the case
  as CANCELLED, "No authority was changed", with Chia pending; the API has no case
  any more to cancel it, and it can complete. `strayed`.
- A change completed on Chia and then vetoed or expired on Base stays PARTIAL for
  ever, and every privileged write is answered 423. Execution on Base is offered
  only in READY, which a case that completed on Chia first has left.
- A case FAILED with Chia pending blocks every later change.
- A change canceled on Chia may be prepared there again: the receipt of the first
  preparation then contradicts the observation and the case is stuck.
- COMPLETED is written before the tested kit is activated: a crash in between
  leaves the kit table behind (admin_key_changes.py:4559). A stale view that fails
  a case cancels the slot's pending kit, which may be the next change's.

Governance:

- A publication the mempool drops stays ACTIVE with MEMPOOL_OR_WAITING for ever
  and blocks every other bill (governance_endpoints.py:1592); so does a recorded
  execution whose outputs an outsider's release made impossible: the evidence is
  never rebuilt (governance_endpoints.py:1649).
- A funding transaction that was SUBMITTED and dropped is only watched, never
  pushed again (funded_redemptions.py:291).
- The sale snapshot is written without the revision it was read at: a stale one
  may put AVAILABLE over TAKEN (governance_queue.py:622).
- A row canceled while its publication is in flight may still be voted on and
  executed on chain.

Genesis:

- A confirmation reads the inputs, the outputs and then the peak. A reorganisation
  between the last two takes the genesis out of the block whose depth the peak
  then counts: the ceremony is confirmed, and its artifact created and signed,
  for a genesis that is mined in another block or in none (genesis.py:1831-1902),
  although "ceremony must have three Chia confirmations" (genesis.py:1966). No
  confirmed ceremony is broadcast again. Run `overtaken`; `Overtaken` in
  `ConfirmedIsFinal`.
- An owner's claim link is consumed in one transaction and the invitation issued
  in another: a crash in between burns the link (launch_control.py:1797, 1827).
- The nine funding coins lie at the till's own puzzle hash and nothing reserves
  them until the genesis spends them (faucet.py:220, genesis.py:1161); two
  ceremonies may pick the same source coin.
- A fan-out is confirmed in its first block (launch_control.py:2776), while the
  ceremony waits for three; a late answer takes a confirmed receipt back to
  `broadcast`, and preparing again to `prepared`.
- A genesis output that is spent before the confirmation is read leaves the
  ceremony in `broadcast` for ever (genesis.py:1884), and the one-shot slot with it.
- `abandon` of the operator asks for no approval the guided one asks for.
- An answer PREPARED of a failed rehearsal that arrives late replaces the failed
  one after it, until the next poll.

These limit what is claimed elsewhere:
`AdvanceIsLeased` leaves out the synchronous tail after a Base confirmation,
which goes on after its write has given the lease up.

## 8. Not modelled

- Chain reorganisations outside `Genesis`: no other code waits for depth or reacts
  to one.
- Amounts, fee estimation and change coins; evidence documents and signatures
  (a document either is the purchase's or is refused before any write).
- Batch and fungible deliveries: they differ in how a bundle is built, not in the
  steps around it.
- Repeated lease names of two processes (`id(self)`, W:163).
- The executor's own states and its rejection of a bundle for ever.
- A rail that is switched off: the proofs hold for any `EnabledRails`, the runs
  have the rails of their purchases on. A row released at once is one of a
  delivery that waits for its block.
- The awaits between the till list, the reservations and the mempool while a fee
  coin is chosen (protocol_submission.py:461-495): one read. The lock is held over
  them, and what another service does in between it may as well do before or
  after.
- Of MINT: the stake endpoints, the building and checking of packages (a package
  is valid or refused before any write), the ledger of the KoS co-signer,
  submission without fee funding, `reconcile_reserved`.
- A journal row of another genesis: recovery skips it, as it skips one it cannot
  record.
- Checkout and deed: documents, signatures and their schemas (a document is the
  purchase's or is refused before any write); enrolment of validators; the mempool
  mistake above is kept out of `InventoryAuthority`, where a bundle is the buyer's.
- Vouchers: the fee bundle and its reservation, the funded refund attempts, reviewed
  redemptions, an owner's XCH refund in an overdue series, the legacy phase lane.
- Checkout: purchases paid without a hold. The guards of a deposit, of a payment's
  start and of a renewal let a row through that has no hold, as in the code; in the
  model only a buyer who was told pays, so none of these is paid.
- Key changes: Safe packages and signatures, the one-time challenges of the
  actors, administrators' records and operations. The receipt of a preparation is
  compared without its count of confirmations (admin_key_changes.py:4140-4150), so
  that the model takes one more often; what a preparation reads of the chain and
  writes (admin_key_changes.py:3895-4036) is one step.
- Governance: previews and drafts' parameters, the statutes, the redemption of a
  deed by its owner after its funding, a wallet's own steps.
- Genesis: audit, validator and Base evidence and the files that keep them (each is
  valid or the request is refused before any write), the network's own checks,
  sessions and challenges, recovery kits, the migration of an adopted release,
  operational windows other than that they open after a rehearsal.
- All components with status `not_modelled` in `PROJECT.json`.

## 9. Plan

1. *Done:* delivery, MINT, one deed, checkout, vouchers, key changes, governance,
   genesis, each with an instance and theorems; every safety property of the runs
   is proved, and so is the refinement of `DeliveryPromise`.
2. What in the liveness arguments is safety: a row that is neither final nor with
   the reviewers always has a step of a worker open to it.
3. `InventoryAuthority` as the environment of `Checkout`: the receipts and
   deliveries `Checkout` takes for given are what the validators sign.
