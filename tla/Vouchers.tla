------------------------------ MODULE Vouchers ------------------------------
(***************************************************************************)
(* The vouchers of one presale series: payment, issuance, launch or        *)
(* cancellation, refund and redemption.                                    *)
(*                                                                         *)
(* The series is one Chia singleton, so every issuance, refund, redemption *)
(* and phase change spends the same coin, and only one of them can follow  *)
(* it.  The store (presale_endpoints.PresaleStore with its voucher_work    *)
(* and campaign tables) therefore retains at most one signed spend of that *)
(* coin, and moves its own copy of it only on chain evidence.  The actors  *)
(* are the worker's lanes, the owner's refund request, the administrator's *)
(* launch or cancellation, and the chain, which mines a spend whenever it  *)
(* likes.  A coin of the series is its number in the chain of spends.      *)
(*                                                                         *)
(* New XCH vouchers cannot be sold by this release                         *)
(* (voucher_rail_policy.XCH_VOUCHER_RELEASE_READY is False): the XCH       *)
(* vouchers of the model were issued by an earlier one.                    *)
(***************************************************************************)
EXTENDS Naturals, Sequences, FiniteSets

CONSTANTS
  Voucher,          \* the serials of the series, one per deed
  Rail,             \* the rail a serial is paid on
  Height,           \* the canonical position of a Base payment
  MaxHeight,        \* above every Base position: where a Stripe key sorts
  MaxLaunches,      \* bound on the launches retained
  NoVoucher,        \* the subject of a launch or a cancellation
  None              \* no bundle, no campaign, no lease

ASSUME VoucherAssumption ==
  /\ NoVoucher \notin Voucher
  /\ Rail \in [Voucher -> {"XCH", "BASE", "STRIPE"}]
  /\ MaxHeight \in Nat
  /\ Height \in [Voucher -> 0..MaxHeight]
  /\ MaxLaunches \in Nat

VARIABLES
  chain,            \* Chia: the spends of the singleton, oldest first
  pool,             \* Chia: the bundles pushed and still minable
  clock,            \* Chia: 1 past the refund deadline, 2 past delivery
  series,           \* presale_series_v2.state
  current,          \* presale_series_v2.current_coin_id
  campaign,         \* the unconfirmed campaign operation
  launches,         \* how many launches were retained
  state,            \* voucher_records_v2.state
  funding,          \* the purchase launcher of a voucher
  bundle,           \* its unconfirmed issuance or terminal bundle
  raw,              \* the unconfirmed execution retained for it
  auth,             \* the settlement authorized off Chia
  relayed,          \* the authorizations acknowledged
  lastKey,          \* the last order key among the payments
  checked,          \* Stripe payments past the phase check, not yet inserted
  lease             \* voucher_worker_series: the owner of the singleton

chainVars   == <<chain, pool, clock>>
seriesVars  == <<series, current, campaign, launches>>
voucherVars == <<state, funding, bundle, raw, auth, relayed>>
payVars     == <<lastKey, checked>>
vars == <<chainVars, seriesVars, voucherVars, payVars, lease>>

-----------------------------------------------------------------------------
Refunds   == {"REFUND_PRESALE", "REFUND_EXPIRED", "REFUND_CANCELED"}
Terminals == Refunds \cup {"REDEEM"}
Spend  == [kind : {"ISSUE"} \cup Terminals, v : Voucher]
            \cup [kind : {"LAUNCH", "CANCEL"}, v : {NoVoucher}]
Bundle == [spend : Spend, coin : Nat]
Lease  == [v : Voucher, by : {"worker", "owner"}]
Campaign == [target : {"LIVE", "CANCELED"}, coin : Nat, signed : BOOLEAN, lapsed : BOOLEAN]

ASSUME NoneAssumption == None \notin Bundle \cup Lease \cup Campaign

\* The coin of the singleton that is unspent on the chain.
Tip == Len(chain)

\* The spend is on the chain and follows the coin the bundle names.
Mined(b) == b.coin < Tip /\ chain[b.coin + 1] = b.spend

\* What the chain holds, up to a coin.
Before(n, kinds, v) ==
  \E i \in 1..n : chain[i].kind \in kinds /\ chain[i].v = v
ChainPhase ==
  CASE Before(Tip, {"LAUNCH"}, NoVoucher) -> "LIVE"
    [] Before(Tip, {"CANCEL"}, NoVoucher) -> "CANCELED"
    [] OTHER -> "PRESALE"

\* Launched vouchers are refunded once the delivery window is over.
Overdue == clock = 2

Pending  == {"PENDING_ISSUANCE", "ISSUANCE_SUBMITTED"}
Over     == {"REDEEMED", "REFUNDED"}
Retained == {"funding", "issuance", "terminal"}

\* A voucher with a submission that may still be mined, or with retained bytes.
Pinned(v) == bundle[v] # None
Raw(v)    == raw[v] \in Retained
Busy(v)   == Pinned(v) \/ Raw(v)

Phase(b) == [spend |-> [kind |-> IF b.target = "LIVE" THEN "LAUNCH" ELSE "CANCEL",
                        v |-> NoVoucher],
             coin |-> b.coin]

Init ==
  /\ chain = <<>> /\ pool = {} /\ clock = 0
  /\ series = "PRESALE" /\ current = 0 /\ campaign = None /\ launches = 0
  /\ state = [v \in Voucher |-> IF Rail[v] = "XCH" THEN "ESCROWED" ELSE "NONE"]
  /\ funding = [v \in Voucher |-> "none"]
  /\ bundle = [v \in Voucher |-> None]
  /\ raw = [v \in Voucher |-> "none"]
  /\ auth = [v \in Voucher |-> "none"]
  /\ relayed = {}
  /\ lastKey = 0 /\ checked = {}
  /\ lease = None

-----------------------------------------------------------------------------
(* Payments.  Neither insertion looks at the campaign operation.  A Base   *)
(* payment is checked against the phase and the canonical order in its own *)
(* transaction; a Stripe payment is checked before it, and its key sorts   *)
(* after every Base key.                                                   *)

IngestBase(v) ==
  /\ Rail[v] = "BASE" /\ state[v] = "NONE"
  /\ series = "PRESALE"
  /\ Height[v] >= lastKey
  /\ lastKey' = Height[v]
  /\ state' = [state EXCEPT ![v] = "PENDING_ISSUANCE"]
  /\ UNCHANGED <<chainVars, seriesVars, funding, bundle, raw, auth, relayed, checked, lease>>

CheckStripe(v) ==
  /\ Rail[v] = "STRIPE" /\ state[v] = "NONE" /\ v \notin checked
  /\ series = "PRESALE"
  /\ checked' = checked \cup {v}
  /\ UNCHANGED <<chainVars, seriesVars, voucherVars, lastKey, lease>>

IngestStripe(v) ==
  /\ v \in checked
  /\ checked' = checked \ {v}
  /\ state' = [state EXCEPT ![v] = "PENDING_ISSUANCE"]
  /\ lastKey' = MaxHeight
  /\ UNCHANGED <<chainVars, seriesVars, funding, bundle, raw, auth, relayed, lease>>

-----------------------------------------------------------------------------
(* Launch and cancellation.                                                *)

\* The claim is retained before the quorum is asked, in the transaction that
\* finds no voucher work unfinished and no lease held.
RetainPhase(target) ==
  /\ series = "PRESALE" /\ campaign = None
  /\ target = "LIVE" => launches < MaxLaunches
  /\ current = Tip
  /\ \A v \in Voucher : ~Busy(v) /\ state[v] \notin Pending
  /\ lease = None
  /\ campaign' = [target |-> target, coin |-> current, signed |-> FALSE, lapsed |-> FALSE]
  /\ launches' = IF target = "LIVE" THEN launches + 1 ELSE launches
  /\ UNCHANGED <<chainVars, series, current, voucherVars, payVars, lease>>

\* The signed bytes are retained, bound to the series, then pushed.
SignPhase ==
  /\ campaign # None /\ ~campaign.signed /\ ~campaign.lapsed
  /\ campaign' = [campaign EXCEPT !.signed = TRUE]
  /\ pool' \in {pool, pool \cup {Phase(campaign)}}
  /\ UNCHANGED <<chain, clock, series, current, launches, voucherVars, payVars, lease>>

\* A signed operation that is not on the chain is pushed again, unchanged.
PushPhase ==
  /\ campaign # None /\ campaign.signed /\ ~campaign.lapsed
  /\ ~Mined(Phase(campaign)) /\ Phase(campaign) \notin pool
  /\ pool' = pool \cup {Phase(campaign)}
  /\ UNCHANGED <<chain, clock, seriesVars, voucherVars, payVars, lease>>

\* Series, operation and escrowed vouchers move in one transaction.
ConfirmPhase ==
  /\ campaign # None /\ campaign.signed /\ Mined(Phase(campaign))
  /\ series = "PRESALE" /\ current = campaign.coin
  /\ series' = campaign.target
  /\ current' = current + 1
  /\ campaign' = None
  /\ state' = [v \in Voucher |->
       IF campaign.target = "LIVE" /\ state[v] = "ESCROWED" THEN "REDEEMING" ELSE state[v]]
  /\ UNCHANGED <<chainVars, launches, funding, bundle, raw, auth, relayed, payVars, lease>>

\* Mutant: the deadline alone archives.
ArchivePhase_Unproven ==
  /\ campaign # None /\ campaign.lapsed
  /\ series = "PRESALE" /\ current = campaign.coin
  /\ campaign' = None
  /\ UNCHANGED <<chainVars, series, current, launches, voucherVars, payVars, lease>>

\* A launch whose consensus deadline is over is archived once its input is
\* proven unspent: the launch may have been mined before its deadline and not
\* be confirmed yet.  A cancellation has no deadline.
ArchivePhase ==
  /\ campaign # None /\ campaign.lapsed
  /\ series = "PRESALE" /\ current = campaign.coin /\ current = Tip
  /\ campaign' = None
  /\ UNCHANGED <<chainVars, series, current, launches, voucherVars, payVars, lease>>

-----------------------------------------------------------------------------
(* The worker.  A job is one voucher; the lease on the series excludes     *)
(* every other job and every owner request until it is finished or over.   *)

Lane(v) ==
  \/ state[v] \in Pending /\ series = "PRESALE"
  \/ raw[v] = "sealed"
  \/ state[v] = "REFUNDING" /\ Pinned(v)
  \/ state[v] = "REDEEMING" /\ series = "LIVE"

\* Mutant: a lane does not look at the other vouchers of the series.
Claim_Unpinned(v) ==
  /\ lease = None /\ campaign = None
  /\ Raw(v) \/ Lane(v)
  /\ lease' = [v |-> v, by |-> "worker"]
  /\ UNCHANGED <<chainVars, seriesVars, voucherVars, payVars>>

\* Mutant: there is no lane for the executions left retained.
Claim_Unretained(v) ==
  /\ lease = None /\ campaign = None
  /\ Lane(v) /\ \A w \in Voucher \ {v} : ~Busy(w)
  /\ lease' = [v |-> v, by |-> "worker"]
  /\ UNCHANGED <<chainVars, seriesVars, voucherVars, payVars>>

Claim(v) ==
  /\ lease = None /\ campaign = None
  /\ \/ Raw(v)
     \/ /\ Lane(v)
        /\ \A w \in Voucher \ {v} : ~Busy(w)
  /\ lease' = [v |-> v, by |-> "worker"]
  /\ UNCHANGED <<chainVars, seriesVars, voucherVars, payVars>>

Working(v) == lease = [v |-> v, by |-> "worker"]

\* The job ends without a result, or its process does.
Lapse ==
  /\ lease # None
  /\ lease' = None
  /\ UNCHANGED <<chainVars, seriesVars, voucherVars, payVars>>

Done == lease' = None

\* The signed two-mojo launcher is retained, bound to the voucher and pushed;
\* a crash may come between.
FundLauncher(v) ==
  /\ Working(v) /\ state[v] = "PENDING_ISSUANCE" /\ raw[v] = "none"
  /\ funding[v] = "none" /\ campaign = None
  /\ raw' = [raw EXCEPT ![v] = "funding"]
  /\ funding' \in {funding, [funding EXCEPT ![v] = "retained"]}
  /\ Done
  /\ UNCHANGED <<chainVars, seriesVars, state, bundle, auth, relayed, payVars>>

ResumeFunding(v) ==
  /\ Working(v) /\ raw[v] = "funding" /\ funding[v] # "mined"
  /\ funding' = [funding EXCEPT ![v] = "retained"]
  /\ Done
  /\ UNCHANGED <<chainVars, seriesVars, state, bundle, raw, auth, relayed, payVars>>

ConfirmFunding(v) ==
  /\ Working(v) /\ raw[v] = "funding" /\ funding[v] = "mined"
  /\ raw' = [raw EXCEPT ![v] = "none"]
  /\ Done
  /\ UNCHANGED <<chainVars, seriesVars, state, funding, bundle, auth, relayed, payVars>>

\* The state a voucher gets when a spend retained for it is bound to it.
BoundState(v, kind) ==
  CASE kind = "ISSUE"     -> "ISSUANCE_SUBMITTED"
    [] kind \in Refunds   -> "REFUNDING"
    [] OTHER              -> state[v]

\* The signed bytes are retained, in the next transaction they are bound to
\* the voucher, and then they are pushed: a crash may come after each.
Dispatch(v, kind) ==
  LET b == [spend |-> [kind |-> kind, v |-> v], coin |-> current] IN
  /\ raw[v] = "none" /\ ~Pinned(v) /\ campaign = None
  /\ current = Tip
  /\ raw' = [raw EXCEPT ![v] = IF kind = "ISSUE" THEN "issuance" ELSE "terminal"]
  /\ bundle' = [bundle EXCEPT ![v] = b]
  /\ \/ UNCHANGED <<state, pool>>
     \/ /\ state' = [state EXCEPT ![v] = BoundState(v, kind)]
        /\ pool' \in {pool, pool \cup {b}}
  /\ Done
  /\ UNCHANGED <<chain, clock, seriesVars, funding, auth, relayed, payVars>>

\* A Stripe terminal is sealed on the voucher before Key of Solomon is asked
\* to send it, and recorded as submitted after.
Seal(v, kind) ==
  LET b == [spend |-> [kind |-> kind, v |-> v], coin |-> current] IN
  /\ raw[v] = "none" /\ ~Pinned(v) /\ campaign = None
  /\ current = Tip
  /\ state[v] \in {"ESCROWED", "REDEEMING"}
  /\ raw' = [raw EXCEPT ![v] = "sealed"]
  /\ bundle' = [bundle EXCEPT ![v] = b]
  /\ pool' \in {pool, pool \cup {b}}
  /\ Done
  /\ UNCHANGED <<chain, clock, seriesVars, state, funding, auth, relayed, payVars>>

SubmitIssuance(v) ==
  /\ Working(v) /\ state[v] = "PENDING_ISSUANCE" /\ funding[v] = "mined"
  /\ series = "PRESALE"
  /\ Dispatch(v, "ISSUE")

\* A launched voucher is delivered before the deadline, refunded after it.
Deliverable(v) == Working(v) /\ state[v] = "REDEEMING" /\ series = "LIVE" /\ ~Overdue
Expired(v)     == Working(v) /\ state[v] = "REDEEMING" /\ series = "LIVE" /\ Overdue

SubmitNativeRedemption(v) == Rail[v] = "XCH" /\ Deliverable(v) /\ Dispatch(v, "REDEEM")
SubmitBaseRedemption(v)   == Rail[v] = "BASE" /\ Deliverable(v) /\ Dispatch(v, "REDEEM")
SubmitStripeRedemption(v) == Rail[v] = "STRIPE" /\ Deliverable(v) /\ Seal(v, "REDEEM")

SubmitNativeExpiredRefund(v) == Rail[v] = "XCH" /\ Expired(v) /\ Dispatch(v, "REFUND_EXPIRED")
SubmitBaseExpiredRefund(v)   == Rail[v] = "BASE" /\ Expired(v) /\ Dispatch(v, "REFUND_EXPIRED")
SubmitStripeExpiredRefund(v) == Rail[v] = "STRIPE" /\ Expired(v) /\ Seal(v, "REFUND_EXPIRED")

SubmitRedemption(v) ==
  SubmitNativeRedemption(v) \/ SubmitBaseRedemption(v) \/ SubmitStripeRedemption(v)
SubmitExpiredRefund(v) ==
  SubmitNativeExpiredRefund(v) \/ SubmitBaseExpiredRefund(v) \/ SubmitStripeExpiredRefund(v)

\* An owner's refund is renewed when it is sent again: same inputs, same
\* effects, a later time, which must still be before the refund deadline.
Renewable(v) == bundle[v].spend.kind = "REFUND_PRESALE" => clock = 0

\* A retained execution that is not on the chain is bound, if it was not, and
\* sent again.
Resume(v) ==
  /\ Working(v) /\ Pinned(v) /\ raw[v] \in {"issuance", "terminal"}
  /\ ~Mined(bundle[v]) /\ Renewable(v)
  /\ pool' = pool \cup {bundle[v]}
  /\ state' = [state EXCEPT ![v] = BoundState(v, bundle[v].spend.kind)]
  /\ Done
  /\ UNCHANGED <<chain, clock, seriesVars, funding, bundle, raw, auth, relayed, payVars>>

ResumeStripe(v) ==
  /\ Working(v) /\ Pinned(v) /\ raw[v] = "sealed"
  /\ ~Mined(bundle[v]) /\ Renewable(v)
  /\ pool' = pool \cup {bundle[v]}
  /\ raw' = [raw EXCEPT ![v] = "none"]
  /\ state' = [state EXCEPT ![v] = BoundState(v, bundle[v].spend.kind)]
  /\ Done
  /\ UNCHANGED <<chain, clock, seriesVars, funding, bundle, auth, relayed, payVars>>

\* The store's transaction of a confirmation: voucher and series move
\* together, and only from the coin the spend names.
Confirmed(v, from, to) ==
  /\ state[v] \in from /\ current = bundle[v].coin
  /\ state' = [state EXCEPT ![v] = to]
  /\ bundle' = [bundle EXCEPT ![v] = None]
  /\ current' = current + 1

\* What the terminal authorizes off Chia is recorded in the same transaction.
Authorize(v, settlement) == auth' = [auth EXCEPT ![v] = settlement]

RecordIssued(v) ==
  Confirmed(v, {"ISSUANCE_SUBMITTED"}, "ESCROWED") /\ UNCHANGED auth
RecordRedeemed(v) ==
  /\ Confirmed(v, {"REDEEMING"}, "REDEEMED")
  /\ IF Rail[v] = "BASE" THEN Authorize(v, "DELIVERED") ELSE UNCHANGED auth
RecordNativeRefund(v) ==
  Confirmed(v, {"REFUNDING"}, "REFUNDED") /\ UNCHANGED auth
RecordBaseRefund(v) ==
  Confirmed(v, {"REFUNDING"}, "REFUNDED") /\ Authorize(v, "REFUND")
\* A sealed refund found mined is recorded as submitted first.
RecordStripeRefund(v) ==
  Confirmed(v, {"ESCROWED", "REDEEMING", "REFUNDING"}, "REFUNDED") /\ Authorize(v, "REFUND")

\* The execution is marked confirmed after that, in a transaction of its own;
\* a crash between the two leaves it retained.
Closing(v) == raw' \in {[raw EXCEPT ![v] = "none"],
                        IF Raw(v) THEN raw ELSE [raw EXCEPT ![v] = "none"]}

Observed(v, kinds) ==
  /\ Working(v) /\ Pinned(v) /\ bundle[v].spend.kind \in kinds /\ Mined(bundle[v])
  /\ Closing(v) /\ Done
  /\ UNCHANGED <<chainVars, series, campaign, launches, funding, relayed, payVars>>

ConfirmIssuance(v)     == Observed(v, {"ISSUE"}) /\ RecordIssued(v)
ConfirmRedemption(v)   == Observed(v, {"REDEEM"}) /\ RecordRedeemed(v)
ConfirmNativeRefund(v) == Rail[v] = "XCH" /\ Observed(v, Refunds) /\ RecordNativeRefund(v)
ConfirmBaseRefund(v)   == Rail[v] = "BASE" /\ Observed(v, Refunds) /\ RecordBaseRefund(v)
ConfirmStripeRefund(v) == Rail[v] = "STRIPE" /\ Observed(v, Refunds) /\ RecordStripeRefund(v)

\* An execution left retained by a crash is closed on the voucher's state.
CloseExecution(v) ==
  /\ Working(v) /\ ~Pinned(v) /\ raw[v] \in {"issuance", "terminal"}
  /\ raw' = [raw EXCEPT ![v] = "none"]
  /\ Done
  /\ UNCHANGED <<chainVars, seriesVars, state, funding, bundle, auth, relayed, payVars>>

-----------------------------------------------------------------------------
(* The owner's refund: the same lease, and no unfinished voucher at all.   *)

ClaimDirect(v) ==
  /\ lease = None /\ campaign = None
  /\ Rail[v] # "BASE"
  /\ \A w \in Voucher : ~Busy(w) /\ state[w] \notin Pending
  /\ lease' = [v |-> v, by |-> "owner"]
  /\ UNCHANGED <<chainVars, seriesVars, voucherVars, payVars>>

RefundAction ==
  IF series = "CANCELED" THEN "REFUND_CANCELED" ELSE "REFUND_PRESALE"

Refundable(v) ==
  /\ state[v] = "ESCROWED" /\ series # "LIVE"
  /\ series = "PRESALE" => clock = 0

OwnerRefund(v) ==
  /\ lease = [v |-> v, by |-> "owner"]
  /\ Refundable(v)
  /\ IF Rail[v] = "STRIPE" THEN Seal(v, RefundAction) ELSE Dispatch(v, RefundAction)

\* The relay of an authorized settlement is verified and recorded once.
Acknowledge(v) ==
  /\ auth[v] # "none" /\ v \notin relayed
  /\ relayed' = relayed \cup {v}
  /\ UNCHANGED <<chainVars, seriesVars, state, funding, bundle, raw, auth, payVars, lease>>

-----------------------------------------------------------------------------
(* Chia.                                                                   *)

MineFunding(v) ==
  /\ funding[v] = "retained"
  /\ funding' = [funding EXCEPT ![v] = "mined"]
  /\ UNCHANGED <<chainVars, seriesVars, state, bundle, raw, auth, relayed, payVars, lease>>

\* What the puzzles of the series, the voucher and the payment admit, and
\* the validators sign for.
AdmitsIssuance(s) == ChainPhase = "PRESALE" /\ ~Before(Tip, {"ISSUE"}, s.v)
AdmitsPhase(s)    == ChainPhase = "PRESALE"
AdmitsTerminal(s) ==
  /\ ~Before(Tip, Terminals, s.v)
  /\ ChainPhase = CASE s.kind \in {"REDEEM", "REFUND_EXPIRED"} -> "LIVE"
                    [] s.kind = "REFUND_CANCELED" -> "CANCELED"
                    [] s.kind = "REFUND_PRESALE"  -> "PRESALE"
  /\ s.kind = "REFUND_PRESALE" => clock = 0
  /\ s.kind = "REFUND_EXPIRED" => Overdue
Admitted(s) ==
  CASE s.kind = "ISSUE" -> AdmitsIssuance(s)
    [] s.kind \in Terminals -> AdmitsTerminal(s)
    [] OTHER -> AdmitsPhase(s)

Mine(b) ==
  /\ b.coin = Tip /\ Admitted(b.spend)
  /\ b.spend.kind = "LAUNCH" => campaign # None /\ ~campaign.lapsed
  /\ chain' = Append(chain, b.spend)
  /\ pool' = pool \ {b}
  /\ UNCHANGED <<clock, seriesVars, voucherVars, payVars, lease>>

Tick ==
  /\ clock < 2 /\ (clock = 1 => ChainPhase = "LIVE")
  /\ clock' = clock + 1
  /\ UNCHANGED <<chain, pool, seriesVars, voucherVars, payVars, lease>>

\* The consensus deadline of the retained launch passes: it cannot be mined
\* any more, if it was not.
LaunchLapses ==
  /\ campaign # None /\ campaign.target = "LIVE" /\ ~campaign.lapsed
  /\ campaign' = [campaign EXCEPT !.lapsed = TRUE]
  /\ pool' = pool \ {Phase(campaign)}
  /\ UNCHANGED <<chain, clock, series, current, launches, voucherVars, payVars, lease>>

-----------------------------------------------------------------------------
Work(v) ==
  \/ FundLauncher(v) \/ ResumeFunding(v) \/ ConfirmFunding(v) \/ SubmitIssuance(v)
  \/ SubmitExpiredRefund(v) \/ Resume(v) \/ ResumeStripe(v)
  \/ ConfirmIssuance(v) \/ ConfirmRedemption(v)
  \/ ConfirmNativeRefund(v) \/ ConfirmBaseRefund(v) \/ ConfirmStripeRefund(v)
  \/ CloseExecution(v)

Next ==
  \/ \E v \in Voucher :
       \/ IngestBase(v) \/ CheckStripe(v) \/ IngestStripe(v)
       \/ Claim(v) \/ Work(v) \/ SubmitRedemption(v)
       \/ ClaimDirect(v) \/ OwnerRefund(v)
       \/ Acknowledge(v) \/ MineFunding(v)
  \/ \E target \in {"LIVE", "CANCELED"} : RetainPhase(target)
  \/ SignPhase \/ PushPhase \/ ConfirmPhase \/ ArchivePhase
  \/ Lapse \/ Tick \/ LaunchLapses
  \/ \E b \in pool : Mine(b)

\* The lanes rotate over the vouchers, so a job that stays due is claimed
\* again after every lapse; blocks are made and time passes.  Nothing makes
\* an owner ask, an administrator launch, or a redemption before its deadline
\* succeed, and a redemption still unmined at the deadline may never be.
Fairness ==
  /\ \A v \in Voucher : /\ SF_vars(Claim(v)) /\ SF_vars(Work(v))
                        /\ WF_vars(MineFunding(v))
                        /\ WF_vars(\E b \in pool : /\ b.spend.v = v
                                                   /\ b.spend.kind = "REDEEM" => ~Overdue
                                                   /\ Mine(b))
  /\ WF_vars(\E b \in pool : b.spend.v = NoVoucher /\ Mine(b))
  /\ WF_vars(Lapse) /\ WF_vars(Tick)
  /\ WF_vars(SignPhase) /\ WF_vars(PushPhase) /\ WF_vars(ConfirmPhase) /\ WF_vars(ArchivePhase)

Spec == Init /\ [][Next]_vars /\ Fairness

-----------------------------------------------------------------------------
(* Properties.                                                             *)

\* A spend of the series that is mined, retained and not confirmed yet.
Awaited ==
  \/ \E v \in Voucher : Pinned(v) /\ Mined(bundle[v])
  \/ campaign # None /\ Mined(Phase(campaign))

\* Every variable holds a value the tables and the chain can hold.
TypeOK ==
  /\ chain \in Seq(Spend) /\ pool \in SUBSET Bundle /\ clock \in 0..2
  /\ series \in {"PRESALE", "LIVE", "CANCELED"} /\ current \in Nat
  /\ campaign \in Campaign \cup {None}
  /\ launches \in Nat
  /\ state \in [Voucher -> Pending \cup Over \cup {"NONE", "ESCROWED", "REDEEMING", "REFUNDING"}]
  /\ funding \in [Voucher -> {"none", "retained", "mined"}]
  /\ bundle \in [Voucher -> Bundle \cup {None}]
  /\ raw \in [Voucher -> Retained \cup {"none", "sealed"}]
  /\ auth \in [Voucher -> {"none", "DELIVERED", "REFUND"}]
  /\ relayed \subseteq Voucher /\ checked \subseteq Voucher
  /\ lastKey \in Nat
  /\ lease \in Lease \cup {None}

\* The series never has two spends of its coin outstanding: not of two
\* vouchers, not of a voucher and a launch or cancellation; and what is
\* outstanding spends the coin the store takes for current.  The lease, the
\* retained executions, the pinned submissions and the campaign operation are
\* four tables that exclude each other for this.
OneSpendPerCoin ==
  /\ \A v, w \in Voucher : Pinned(v) /\ Pinned(w) => v = w
  /\ \A v \in Voucher : Pinned(v) => campaign = None /\ bundle[v].coin = current
  /\ campaign # None => campaign.coin = current

\* What the store has confirmed is exactly what the chain did up to the coin
\* it takes for current, one spend behind the chain at most: a voucher is
\* redeemed or refunded, and a settlement authorized on Base or at Stripe,
\* if and only if that terminal was mined.  A spend not confirmed yet is one
\* that is still retained, so that it can be.
BooksFollowChain ==
  /\ current \in {Tip, Tip - 1}
  /\ current # Tip => Awaited
  /\ series = "LIVE" <=> Before(current, {"LAUNCH"}, NoVoucher)
  /\ series = "CANCELED" <=> Before(current, {"CANCEL"}, NoVoucher)
  /\ \A v \in Voucher :
       /\ state[v] = "REDEEMED" <=> Before(current, {"REDEEM"}, v)
       /\ state[v] = "REFUNDED" <=> Before(current, Refunds, v)
       /\ auth[v] = "DELIVERED" => state[v] = "REDEEMED"
       /\ auth[v] = "REFUND" => state[v] = "REFUNDED"
       /\ Rail[v] = "BASE" /\ state[v] \in Over => auth[v] # "none"

\* A payment that was recorded while, or after, the series left its presale.
Stray(v) == state[v] \in Pending /\ (campaign # None \/ series # "PRESALE")
\* An owner's presale refund whose deadline passed before it was mined.
LateRefund ==
  clock >= 1 /\ \E v \in Voucher : Pinned(v) /\ bundle[v].spend.kind = "REFUND_PRESALE"
                                   /\ ~Mined(bundle[v])
\* A redemption still unmined when the delivery window closed.
LateRedemption ==
  Overdue /\ \E v \in Voucher : Pinned(v) /\ bundle[v].spend.kind = "REDEEM"
                                /\ ~Mined(bundle[v])

\* A paid voucher is issued, a launched one is delivered or refunded, and a
\* refund under way ends: except behind a payment recorded too late to be
\* issued, an owner's refund that outlived its deadline, or a redemption that
\* did, each of which the store keeps retained for ever.
VouchersSettle ==
  \A v \in Voucher :
    /\ state[v] \in Pending ~> (state[v] \notin Pending \/ Stray(v) \/ LateRefund)
    /\ state[v] = "REDEEMING" ~> (state[v] \in Over \/ LateRedemption)
    /\ state[v] = "REFUNDING" ~> (state[v] = "REFUNDED" \/ LateRefund)
=============================================================================
