--------------------------- MODULE ExternalDelivery ---------------------------
(***************************************************************************)
(* Delivery of paid purchases: the workers of solslot_api/                 *)
(* stripe_delivery_worker.py advance the rows of DeliveryStore, prepare    *)
(* the governed output index, seal and dispatch exact bundles to the Key   *)
(* of Solomon executor and read the outcome from the chain.                *)
(*                                                                         *)
(* A worker is a coroutine: between two of its awaits it runs alone in its *)
(* process, so the code from one await to the next is one action.  Two     *)
(* writes to different tables with no await between them are two actions,  *)
(* because the process may die between them; such a place is not one where *)
(* the deadline of reconcile_once can strike (see Synchronous).            *)
(***************************************************************************)
EXTENDS DeliveryStore, GovernedOutputIndex, ChiaNode

CONSTANTS
  Workers,         \* one delivery worker per API process
  Departed,        \* the owner name of a process that died
  AdvanceTimeout,  \* advance_timeout_seconds
  EnabledRails,    \* rails whose settlement is switched on
  Stalls,          \* whether an event loop may stall past its deadline
  StatusReads,     \* whether GET /native-purchases/{id} is called as well
  MaxFaults        \* bound on crashes, interruptions and closings of the gate

ASSUME TimeoutAssumption ==
  AdvanceTimeout \in Nat \ {0} /\ AdvanceTimeout < LeaseSeconds
ASSUME WorkerAssumption ==
  /\ Departed \notin Workers /\ Owners = Workers \cup {Departed}
  /\ Stamps = Workers        /\ Payments = Purchases
  /\ Retryable = {"retry"}   /\ Reviews = {"conflict"}
ASSUME FaultAssumption ==
  /\ MaxFaults \in Nat        /\ EnabledRails \subseteq Rails
  /\ Stalls \in BOOLEAN       /\ StatusReads \in BOOLEAN

VARIABLES
  job,      \* job[w]: what worker w is doing
  poll,     \* a status read of the index that is under way, or None
  gate,     \* the purchases gate and the minting switch are open
  settled,  \* payments captured on Base by the settlement relay
  faults    \* faults so far

vars == <<storeVars, indexVars, chainVars, job, poll, gate, settled, faults>>

\* op is the claimed purchase, row the snapshot the claim returned, held what
\* an earlier step of this advance read or built, left the seconds until
\* asyncio.timeout fires.
Idle == [pc |-> "idle", op |-> None, row |-> None, held |-> None, left |-> 0]

Row(p) == [state |-> state[p], column |-> column[p]]

Init ==
  /\ StoreInit /\ IndexInit /\ ChainInit
  /\ job     = [w \in Workers |-> Idle]
  /\ poll    = None
  /\ gate    = TRUE
  /\ settled = {}
  /\ faults  = 0

\* Points with no await behind them: the process can die there, but neither
\* the deadline nor an exception of a call can take the advance away.
Synchronous == {"disabled", "rc_record", "dp_record", "dc_record",
                "dc_authorize", "esp"}
Resting == {"idle", "down"}
Running(w)  == job[w].pc \notin Resting
Awaiting(w) == Running(w) /\ job[w].pc \notin Synchronous

-----------------------------------------------------------------------------
(* How an advance goes on and how it ends (reconcile_once).                 *)

Env == <<poll, gate, settled, faults>>

Goto(w, pc)       == job' = [job EXCEPT ![w].pc = pc]
Hold(w, pc, what) == job' = [job EXCEPT ![w].pc = pc, ![w].held = what]
Finish(w)         == job' = [job EXCEPT ![w] = Idle]

\* The next await, with nothing written.
Observe(w, pc)       == Goto(w, pc)       /\ UNCHANGED <<storeVars, indexVars, chainVars>>
ObserveHold(w, pc, x) == Hold(w, pc, x)   /\ UNCHANGED <<storeVars, indexVars, chainVars>>

Release(w) ==
  /\ ReleaseLease(job[w].op)
  /\ Finish(w)
  /\ UNCHANGED <<indexVars, chainVars>>

\* Every exception but a manual review is recorded as a retryable error.
Fail(w) ==
  /\ RecordError(job[w].op, "retry")
  /\ Finish(w)
  /\ UNCHANGED <<indexVars, chainVars>>

\* A refused record_manual_review raises out of reconcile_once: the lease stays.
ManualReview(w) ==
  /\ \/ RecordManualReview(job[w].op, "conflict")
     \/ ~AcceptsReview(job[w].op, "conflict") /\ UNCHANGED storeVars
  /\ Finish(w)
  /\ UNCHANGED <<indexVars, chainVars>>

\* The write an advance ends with; a conflict in the table is an exception.
Record(w, change) ==
  \/ /\ Transition(job[w].op, change)
     /\ Finish(w)
     /\ UNCHANGED <<indexVars, chainVars>>
  \/ ~Accepts(job[w].op, change) /\ Fail(w)

\* bind_..._exact_bundle inside prepare_and_dispatch, before the dispatch.
SealExact(w, change, next) ==
  \/ /\ Transition(job[w].op, change)
     /\ Goto(w, next)
     /\ UNCHANGED <<indexVars, chainVars>>
  \/ ~Accepts(job[w].op, change) /\ Fail(w)

\* exact_executor.dispatch: accepted by the executor, whose answer is awaited.
Dispatch(w, next) ==
  /\ executor' = executor \cup {job[w].held}
  /\ Goto(w, next)
  /\ UNCHANGED <<storeVars, indexVars, mempool, mined>>

Smallest(coins) == CHOOSE c \in coins : \A d \in coins : c <= d

FeeCoins_Unreserved(w) == UnspentCoins \ PendingCoins

\* ProtocolBundleSubmitter._select_fee_coin: the smallest confirmed coin that
\* is not the bundle's own, not sealed in an unfinished exact bundle and not
\* in the mempool.
FeeCoins(w) ==
  UnspentCoins \ (PendingCoins \cup PendingExactFeeCoinIds)

-----------------------------------------------------------------------------
(* Claiming a row.                                                          *)

Entry ==
  [PAYMENT_VERIFIED            |-> "pv_read",
   RECEIPT_FUNDING_PREPARED    |-> "rfp_output",
   RECEIPT_FUNDING_SUBMITTED   |-> "rfs_output",
   RECEIPT_CONFIRMED           |-> "rc_receipt",
   DELIVERY_PREPARED           |-> "dp_outputs",
   DELIVERY_SUBMITTED          |-> "ds_outputs",
   EXTERNAL_SETTLEMENT_PENDING |-> "esp"]

Start(w, p) ==
  /\ job[w].pc = "idle"
  /\ gate
  /\ job' = [job EXCEPT ![w] =
               [pc   |-> IF Rail[p] \in EnabledRails THEN Entry[state[p]] ELSE "disabled",
                op   |-> p, row |-> Row(p), held |-> None, left |-> AdvanceTimeout]]
  /\ UNCHANGED <<indexVars, chainVars, Env>>

\* _run_forever, and POST /stripe-deliveries/{id}/reconcile.
PollNext(w)     == \E p \in Purchases : ClaimNext(p, w) /\ Start(w, p)
ReconcileOne(w) == \E p \in Purchases : Claim(p, w) /\ Start(w, p)

-----------------------------------------------------------------------------
(* PAYMENT_VERIFIED: pick the coin that funds the receipt.                  *)

At(w, pc) == job[w].pc = pc
Op(w)     == job[w].op
Col(w, c) == job[w].row.column[c]

ReadTill(w) == At(w, "pv_read") /\ ObserveHold(w, "pv_pick", UnspentCoins)

\* The mempool is asked about each coin after the list was read.
PickReceiptInput(w) ==
  LET eligible == job[w].held \ PendingCoins
  IN  /\ At(w, "pv_pick")
      /\ \/ eligible = {} /\ Fail(w)
         \/ eligible # {} /\ Record(w, RecordReceiptPrepared(Smallest(eligible)))

-----------------------------------------------------------------------------
(* RECEIPT_FUNDING_PREPARED: submit or recover the receipt's funding.       *)

Delivered(p)      == \E b \in mined : b.kind = "delivery" /\ b.purchase = p
ReceiptUnspent(p) == ReceiptExists(p) /\ ~Delivered(p)

ReadReceiptOutput(w) ==
  /\ At(w, "rfp_output")
  /\ \/ ReceiptUnspent(Op(w)) /\ Record(w, RecordReceiptConfirmed)
     \/ ~ReceiptUnspent(Op(w)) /\ Observe(w, "rfp_input")

\* held: the input if it is still unspent.
ReadReceiptInput(w) ==
  /\ At(w, "rfp_input")
  /\ ObserveHold(w, "rfp_mempool", UnspentCoins \cap {Col(w, "receiptInput")})

ReadReceiptMempool_AnySpend(w) ==
  LET pending == {b \in mempool : Col(w, "receiptInput") \in TillInputs(b)}
  IN  /\ At(w, "rfp_mempool")
      /\ \/ \E b \in pending : Record(w, RecordReceiptFunding(b, w))
         \/ pending = {} /\ job[w].held = {} /\ ManualReview(w)
         \/ /\ pending = {} /\ job[w].held # {}
            /\ IF Col(w, "receiptExact") = None
                 THEN Observe(w, "rfp_fund")
                 ELSE ObserveHold(w, "rfp_dispatch", Col(w, "receiptExact"))

ReadReceiptMempool(w) ==
  LET pending == {b \in mempool : Col(w, "receiptInput") \in TillInputs(b)}
      exact   == Col(w, "receiptExact")
  IN  /\ At(w, "rfp_mempool")
      /\ \/ exact \in pending /\ Record(w, RecordReceiptFunding(exact, w))
         \/ exact \notin pending /\ pending # {} /\ ManualReview(w)
         \/ pending = {} /\ job[w].held = {} /\ ManualReview(w)
         \/ /\ pending = {} /\ job[w].held # {}
            /\ IF exact = None THEN Observe(w, "rfp_fund")
                               ELSE ObserveHold(w, "rfp_dispatch", exact)

FundReceipt_Unsealed(w) ==
  LET coins == FeeCoins(w) \ {Col(w, "receiptInput")}
  IN  /\ At(w, "rfp_fund") /\ coins # {}
      /\ ObserveHold(w, "rfp_dispatch",
           ReceiptBundle(Op(w), Col(w, "receiptInput"), Smallest(coins)))

FundReceipt(w) ==
  LET coins == FeeCoins(w) \ {Col(w, "receiptInput")}
  IN  /\ At(w, "rfp_fund")
      /\ \/ coins = {} /\ Fail(w)
         \/ /\ coins # {}
            /\ ObserveHold(w, "rfp_seal",
                 ReceiptBundle(Op(w), Col(w, "receiptInput"), Smallest(coins)))

SealReceipt(w) ==
  At(w, "rfp_seal") /\ SealExact(w, BindReceiptExactBundle(job[w].held), "rfp_dispatch")

DispatchReceipt(w) == At(w, "rfp_dispatch") /\ Dispatch(w, "rfp_accepted")

ReceiptAccepted(w) ==
  At(w, "rfp_accepted") /\ Record(w, RecordReceiptFunding(job[w].held, w))

-----------------------------------------------------------------------------
(* RECEIPT_FUNDING_SUBMITTED and RECEIPT_CONFIRMED.                         *)

ConfirmReceipt(w) ==
  /\ At(w, "rfs_output")
  /\ \/ ReceiptUnspent(Op(w)) /\ Record(w, RecordReceiptConfirmed)
     \/ ~ReceiptUnspent(Op(w)) /\ Release(w)

ReadReceipt(w) ==
  /\ At(w, "rc_receipt")
  /\ \/ ReceiptUnspent(Op(w)) /\ Observe(w, "rc_quorum")
     \/ ~ReceiptUnspent(Op(w)) /\ Release(w)

\* Any threshold of validators may answer first; the bundle they sign goes to
\* the index, and only then to the row.
PrepareDelivery(w) ==
  /\ At(w, "rc_quorum")
  /\ \/ Op(w) \in SpentDeeds /\ Fail(w)
     \/ /\ Op(w) \notin SpentDeeds
        /\ \E signers \in Quorums :
             \/ /\ Prepare(Op(w), signers)
                /\ Hold(w, "rc_record", signers)
                /\ UNCHANGED <<storeVars, chainVars>>
             \/ PrepareConflicts(Op(w), signers) /\ ManualReview(w)

RecordPrepared(w) ==
  At(w, "rc_record") /\ Record(w, RecordDeliveryPrepared(job[w].held))

-----------------------------------------------------------------------------
(* DELIVERY_PREPARED: submit or recover the delivery.                       *)

BeginConfirmation_Unindexed(w) == Observe(w, "dc_record")

\* _record_delivery_confirmation reads the index as soon as it is called.
BeginConfirmation(w) ==
  \/ index[Op(w)].state = "BLOCKED"   /\ ManualReview(w)
  \/ index[Op(w)].state = "CONFIRMED" /\ Observe(w, "dc_record")
  \/ ~Settled(Op(w))                  /\ Observe(w, "dc_index")

ReadDeliveryOutputs(w) ==
  /\ At(w, "dp_outputs")
  /\ \/ Delivered(Op(w)) /\ BeginConfirmation(w)
     \/ ~Delivered(Op(w)) /\ Observe(w, "dp_mempool")

BindGovernedSubmission(w, b) ==
  \/ /\ BindSubmission(Op(w), b)
     /\ Hold(w, "dp_record", b)
     /\ UNCHANGED <<storeVars, chainVars>>
  \/ ~BindAccepts(Op(w), b) /\ ManualReview(w)

ReadDeliveryMempool(w) ==
  LET pending == {b \in mempool : Op(w) \in DeedInputs(b)}
      exact   == Col(w, "deliveryExact")
  IN  /\ At(w, "dp_mempool")
      /\ \/ exact \in pending /\ BindGovernedSubmission(w, exact)
         \/ exact \notin pending /\ pending # {} /\ ManualReview(w)
         \/ pending = {} /\ Observe(w, "dp_inputs")

ReadDeliveryInputs(w) ==
  LET exact == Col(w, "deliveryExact")
  IN  /\ At(w, "dp_inputs")
      /\ \/ Op(w) \in SpentDeeds /\ ManualReview(w)
         \/ /\ Op(w) \notin SpentDeeds
            /\ IF exact = None THEN Observe(w, "dp_fund")
                               ELSE ObserveHold(w, "dp_dispatch", exact)

FundDelivery(w) ==
  LET coins == FeeCoins(w)
  IN  /\ At(w, "dp_fund")
      /\ \/ coins = {} /\ Fail(w)
         \/ /\ coins # {}
            /\ ObserveHold(w, "dp_seal",
                 DeliveryBundle(Op(w), Col(w, "deliverySigners"), Smallest(coins)))

SealDelivery(w) ==
  At(w, "dp_seal") /\ SealExact(w, BindDeliveryExactBundle(job[w].held), "dp_dispatch")

DispatchDelivery(w) == At(w, "dp_dispatch") /\ Dispatch(w, "dp_accepted")

DeliveryAccepted(w) == At(w, "dp_accepted") /\ BindGovernedSubmission(w, job[w].held)

RecordSubmission(w) ==
  At(w, "dp_record") /\ Record(w, RecordDeliverySubmission(job[w].held, w))

-----------------------------------------------------------------------------
(* Confirmation and settlement.                                             *)

\* The rest of reconcile_governed_delivery: outputs and inputs were read in one
\* block, but a status read may have blocked the row in between.
ConfirmIndex(w) ==
  /\ At(w, "dc_index")
  /\ \/ /\ RecordConfirmed(Op(w))
        /\ Goto(w, "dc_record")
        /\ UNCHANGED <<storeVars, chainVars>>
     \/ index[Op(w)].state = "BLOCKED" /\ Fail(w)

\* A Base purchase goes on to its authorization although the write has given
\* the lease up.
RecordConfirmation(w) ==
  /\ At(w, "dc_record")
  /\ \E b \in mined :
       /\ b.kind = "delivery" /\ b.purchase = Op(w)
       /\ LET change == RecordDeliveryConfirmed(Op(w), b)
          IN  \/ Rail[Op(w)] = "stripe"    /\ Record(w, change)
              \/ Rail[Op(w)] = "base_usdc" /\ SealExact(w, change, "dc_authorize")

\* build_direct_settlement_authorization refuses a row without the id of its
\* submitted bundle.
Authorize(w, bundleId) ==
  \/ bundleId = None /\ Fail(w)
  \/ bundleId # None /\ Record(w, RecordExternalSettlementAuthorization(Op(w)))

AuthorizeSettlement(w) ==
  At(w, "dc_authorize") /\ Authorize(w, column[Op(w)]["deliveryBundleId"])

ConfirmDelivery(w) ==
  /\ At(w, "ds_outputs")
  /\ \/ Delivered(Op(w)) /\ BeginConfirmation(w)
     \/ ~Delivered(Op(w)) /\ Release(w)

ResumeSettlement(w) ==
  /\ At(w, "esp")
  /\ \/ Col(w, "authorization") = None /\ Authorize(w, Col(w, "deliveryBundleId"))
     \/ Col(w, "authorization") # None /\ Release(w)

ReleaseDisabled(w) == At(w, "disabled") /\ Release(w)

Step(w) ==
  \/ ReadTill(w)            \/ PickReceiptInput(w)
  \/ ReadReceiptOutput(w)   \/ ReadReceiptInput(w)    \/ ReadReceiptMempool(w)
  \/ FundReceipt(w)         \/ SealReceipt(w)
  \/ DispatchReceipt(w)     \/ ReceiptAccepted(w)
  \/ ConfirmReceipt(w)      \/ ReadReceipt(w)
  \/ PrepareDelivery(w)     \/ RecordPrepared(w)
  \/ ReadDeliveryOutputs(w) \/ ReadDeliveryMempool(w) \/ ReadDeliveryInputs(w)
  \/ FundDelivery(w)        \/ SealDelivery(w)
  \/ DispatchDelivery(w)    \/ DeliveryAccepted(w)    \/ RecordSubmission(w)
  \/ ConfirmIndex(w)        \/ RecordConfirmation(w)  \/ AuthorizeSettlement(w)
  \/ ConfirmDelivery(w)     \/ ResumeSettlement(w)    \/ ReleaseDisabled(w)

Work(w) == Step(w) /\ UNCHANGED Env

-----------------------------------------------------------------------------
(* Faults, time, and the services around the workers.                       *)

Fault == faults < MaxFaults /\ faults' = faults + 1

\* A node or executor error, a lost answer, the deadline, or a cancellation:
\* whatever was asked for at the last await may have happened.
Interrupt(w) == Awaiting(w) /\ Fault /\ Fail(w) /\ UNCHANGED <<poll, gate, settled>>

\* A new process has a new owner name, so the leases of the dead one run out.
Crash(w) ==
  /\ job[w].pc # "down"
  /\ Fault
  /\ Goto(w, "down")
  /\ lease' = [p \in Purchases |->
                 IF lease[p].owner = w THEN [lease[p] EXCEPT !.owner = Departed]
                                       ELSE lease[p]]
  /\ UNCHANGED <<state, column, lastError, older, indexVars, chainVars, poll, gate, settled>>

Restart(w) ==
  /\ At(w, "down")
  /\ Finish(w)
  /\ UNCHANGED <<storeVars, indexVars, chainVars, Env>>

CloseGate == gate /\ Fault /\ gate' = FALSE
             /\ UNCHANGED <<storeVars, indexVars, chainVars, job, poll, settled>>
OpenGate  == ~gate /\ gate' = TRUE
             /\ UNCHANGED <<storeVars, indexVars, chainVars, job, poll, settled, faults>>

\* asyncio.timeout keeps a running advance inside its deadline unless the
\* event loop itself stands still.
Tick ==
  /\ \E p \in Purchases : ~Lapsed(p)
  /\ Stalls \/ \A w \in Workers : Running(w) => job[w].left > 0
  /\ LeaseTick
  /\ job' = [w \in Workers |-> [job[w] EXCEPT !.left = IF @ > 0 THEN @ - 1 ELSE 0]]
  /\ UNCHANGED <<state, column, lastError, older, indexVars, chainVars, Env>>

\* A verified payment is queued; its payment id is its own.
QueuePurchase ==
  /\ \E p \in Purchases : Queue(p, p)
  /\ UNCHANGED <<indexVars, chainVars, job, Env>>

Chain == ChainNext /\ UNCHANGED <<storeVars, indexVars, job, Env>>

RelaySettlement_Unfiltered(p) ==
  /\ Exists(p) /\ column[p]["evidence"] = None
  /\ p \notin settled
  /\ settled' = settled \cup {p}
  /\ UNCHANGED <<storeVars, indexVars, chainVars, job, poll, gate, faults>>

\* The relay captures the payments GET /base-settlements/pending lists, and
\* posts the evidence of the capture until it is taken.
RelaySettlement(p) ==
  /\ state[p] = "EXTERNAL_SETTLEMENT_PENDING"
  /\ column[p]["authorization"] # None /\ column[p]["evidence"] = None
  /\ p \notin settled
  /\ settled' = settled \cup {p}
  /\ UNCHANGED <<storeVars, indexVars, chainVars, job, poll, gate, faults>>

AcknowledgeSettlement(p) ==
  /\ p \in settled
  /\ Transition(p, RecordExternalSettlementFinalized(p))
  /\ UNCHANGED <<indexVars, chainVars, job, Env>>

\* GET /native-purchases/{id} runs reconcile_governed_delivery on any row of
\* the index: the outputs first, then the inputs the row named at the start.
ReadStatusOutputs(p) ==
  /\ StatusReads
  /\ poll = None
  /\ index[p].state # "ABSENT" /\ ~Settled(p)
  /\ poll' = [op |-> p, bundle |-> index[p].bundle, seen |-> Delivered(p)]
  /\ UNCHANGED <<storeVars, indexVars, chainVars, job, gate, settled, faults>>

InputsSpent(p, bundle) ==
  p \in SpentDeeds \/ (bundle # None /\ bundle.fee \in SpentCoins)

ReadStatusInputs ==
  /\ poll # None
  /\ \/ poll.seen /\ RecordConfirmed(poll.op)
     \/ ~poll.seen /\ InputsSpent(poll.op, poll.bundle) /\ RecordBlocked(poll.op)
     \/ UNCHANGED index   \* neither, a refused write, or a failed request
  /\ poll' = None
  /\ UNCHANGED <<storeVars, chainVars, job, gate, settled, faults>>

Next ==
  \/ \E w \in Workers :
       \/ PollNext(w) \/ ReconcileOne(w) \/ Work(w)
       \/ Interrupt(w) \/ Crash(w) \/ Restart(w)
  \/ \E p \in Purchases : RelaySettlement(p) \/ AcknowledgeSettlement(p) \/ ReadStatusOutputs(p)
  \/ ReadStatusInputs
  \/ QueuePurchase \/ CloseGate \/ OpenGate \/ Tick \/ Chain

Spec == Init /\ [][Next]_vars

-----------------------------------------------------------------------------
(* Fairness: a worker that can run runs, the poll loop comes round, a dead  *)
(* process is restarted, time passes, the executor keeps resubmitting, and  *)
(* a bundle that keeps coming back to the mempool is included.  Nothing is  *)
(* assumed of callers, faults or services that spend the till.              *)

Others == <<storeVars, indexVars, job, Env>>

Fairness ==
  /\ \A w \in Workers : SF_vars(PollNext(w)) /\ WF_vars(Work(w)) /\ WF_vars(Restart(w))
  /\ SF_vars(Tick)
  /\ WF_vars(OpenGate)
  /\ WF_vars(Resubmit /\ UNCHANGED Others)
  /\ SF_vars(\E b \in mempool : Include(b) /\ UNCHANGED Others)
  /\ WF_vars(\E p \in Purchases : RelaySettlement(p))
  /\ WF_vars(\E p \in Purchases : AcknowledgeSettlement(p))

FairSpec == Spec /\ Fairness

-----------------------------------------------------------------------------
(* Properties.                                                              *)

\* Every column holds what its name says: a coin, a receipt of this kind, a
\* delivery, never a bundle of somebody else that was found on the chain
\* (stripe_delivery_store.py, the columns of _transition).
TypeOK ==
  /\ StoreTypeOK
  /\ index \in [Purchases -> IndexRows]
  /\ executor \subseteq ExactBundles
  /\ mempool \subseteq ExactBundles \cup ForeignBundles
  /\ mined \subseteq ExactBundles \cup ForeignBundles
  /\ \A w \in Workers :
       /\ job[w].op \in Purchases \cup {None}
       /\ job[w].left \in 0 .. AdvanceTimeout
       /\ Running(w) => job[w].op \in Purchases /\ job[w].row.state \in Pending
  /\ poll = None \/ poll.op \in Purchases
  /\ gate \in BOOLEAN
  /\ settled \subseteq Purchases
  /\ faults \in 0 .. MaxFaults

ExactColumn(b) == IF b.kind = "receipt" THEN "receiptExact" ELSE "deliveryExact"

\* A bundle reaches the executor, the mempool or a block only after that very
\* bundle was sealed in its row, so a purchase never has two funded receipts
\* or two deliveries in flight, whatever was retried after whatever crash.
DispatchedIsSealed ==
  \A b \in ExactBundles \cap (executor \cup mempool \cup mined) :
    column[b.purchase][ExactColumn(b)] = b

\* A finished purchase was delivered in a block by the bundle its row names,
\* the governed index says so too, and on the Base rail its payment was
\* captured: three stores written one after the other agree.
FinalizedIsDelivered ==
  \A p \in Purchases : state[p] = "FINALIZED" =>
    /\ column[p]["confirmedBy"] \in mined
    /\ column[p]["confirmedBy"] = column[p]["deliveryExact"]
    /\ index[p].state = "CONFIRMED"
    /\ Rail[p] = "base_usdc" => p \in settled

\* Money on Base is captured only for an asset already delivered.
CaptureAfterDelivery == \A p \in settled : Delivered(p)

\* As long as no event loop stalls, a worker that advances a purchase holds a
\* live lease on it: two workers never advance one purchase.  The synchronous
\* tail after the row waits for Base settlement runs without a lease.
AdvanceIsLeased ==
  \A w \in Workers :
    Running(w) /\ job[w].pc \notin {"dc_authorize", "esp"} =>
      lease[Op(w)].owner = w /\ ~Lapsed(Op(w))

\* Two unfinished purchases never hold the same fee coin in their sealed
\* bundles, with one coordinator process.
FeeCoinsDisjoint ==
  \A p, q \in {r \in Purchases : state[r] # "FINALIZED"} : p # q =>
    {b.fee : b \in SealedBundles(p)} \cap {b.fee : b \in SealedBundles(q)} = {}

\* A purchase whose delivery was recorded as submitted is never sent to review
\* or back: it waits for the chain.
SubmittedStays ==
  [][\A p \in Purchases : state[p] = "DELIVERY_SUBMITTED" =>
       state'[p] \in {"DELIVERY_SUBMITTED", "EXTERNAL_SETTLEMENT_PENDING",
                      "FINALIZED"}]_vars

\* Where the code never ends a payment, whatever is retried.  Somebody else
\* spent the deed, or a coin the purchase had committed:
Lost(p) ==
  \/ p \in SpentDeeds /\ ~Delivered(p)
  \/ column[p]["receiptInput"] \in SpentCoins /\ ~ReceiptExists(p)
  \/ \E b \in SealedBundles(p) \ mined : TillInputs(b) \cap SpentCoins # {}

\* - the worker only waits for the block, or asks the validators again;
Watched(p) ==
  /\ state[p] \in {"RECEIPT_FUNDING_SUBMITTED", "RECEIPT_CONFIRMED", "DELIVERY_SUBMITTED"}
  /\ Lost(p)

\* - a conflict (a loss, a blocked index row, a preparation that other
\*   validators signed) came after a retryable error, and
\*   record_manual_review refuses the second last_error;
Unreviewed(p) ==
  /\ lastError[p] # None
  /\ \/ Lost(p)
     \/ index[p].state = "BLOCKED"
     \/ state[p] = "RECEIPT_CONFIRMED" /\ index[p].state # "ABSENT"

\* - the delivery was mined before its submission was recorded, so that its
\*   settlement can never be authorized;
Unauthorizable(p) ==
  state[p] = "EXTERNAL_SETTLEMENT_PENDING" /\ column[p]["deliveryBundleId"] = None

\* - no coin of the till is left for the next bundle of the purchase;
TillDry(p) ==
  \/ state[p] = "PAYMENT_VERIFIED" /\ UnspentCoins = {}
  \/ /\ state[p] = "RECEIPT_FUNDING_PREPARED" /\ column[p]["receiptExact"] = None
     /\ UnspentCoins \subseteq PendingExactFeeCoinIds \cup {column[p]["receiptInput"]}
  \/ /\ state[p] = "DELIVERY_PREPARED" /\ column[p]["deliveryExact"] = None
     /\ UnspentCoins \subseteq PendingExactFeeCoinIds

\* - the coin it picks every time is the receipt input of a purchase that will
\*   not spend it, and the unique column refuses it.
Obstructed(p) ==
  /\ state[p] = "PAYMENT_VERIFIED" /\ UnspentCoins # {}
  /\ \E q \in Purchases \ {p} :
       /\ column[q]["receiptInput"] = Smallest(UnspentCoins)
       /\ state[q] = "MANUAL_REVIEW" \/ Watched(q) \/ Unreviewed(q) \/ TillDry(q)

Stranded(p) ==
  Watched(p) \/ Unreviewed(p) \/ Unauthorizable(p) \/ TillDry(p) \/ Obstructed(p)

\* Every payment taken on an enabled rail comes to rest in a delivery or in
\* review, or is stranded for good in the five situations named above: nothing
\* else keeps it (reconcile_once, claim_next).
EveryPaymentEnds ==
  \A p \in Purchases : Rail[p] \in EnabledRails =>
    (Exists(p) ~> [](state[p] \in Terminal \/ Stranded(p)))

-----------------------------------------------------------------------------
(* The abstract promise, seen through rows, blocks and captures.            *)

Word(p) ==
  CASE state[p] = "ABSENT"        -> "none"
    [] state[p] = "FINALIZED"     -> "done"
    [] state[p] = "MANUAL_REVIEW" -> "review"
    [] OTHER                      -> "owed"

Asset(p) ==
  CASE p \notin SpentDeeds -> "reserved"
    [] Delivered(p)        -> "delivered"
    [] OTHER               -> "reclaimed"

Promise ==
  INSTANCE DeliveryPromise WITH
    Prepaid <- {p \in Purchases : Rail[p] = "stripe"},
    word    <- [p \in Purchases |-> Word(p)],
    asset   <- [p \in Purchases |-> Asset(p)],
    money   <- [p \in Purchases |-> IF Rail[p] = "stripe" \/ p \in settled
                                      THEN "captured" ELSE "held"]

\* The workers, the tables and the chain together keep the promise: an asset
\* moves once, money follows it, and done means both, under every crash,
\* stall and status read.
KeepsPromise == Promise!PromiseSpec
=============================================================================
