---------------------------- MODULE DeliveryStore ----------------------------
(***************************************************************************)
(* The SQLite table of paid purchases that are to be delivered on Chia,    *)
(* solslot_api/stripe_delivery_store.py: one row per purchase, a lease on  *)
(* the row, and the transitions its methods commit.  Every method is one   *)
(* BEGIN IMMEDIATE transaction, so every method is one action.             *)
(*                                                                         *)
(* Next lets any caller run any method at any moment: it is the contract   *)
(* of the table alone, whoever drives it.  ExternalDelivery drives the     *)
(* same rows from the delivery workers.                                    *)
(*                                                                         *)
(* A definition named Operator_Variant is Operator with a mistake in it.   *)
(* Nothing uses it: put in the place of Operator it makes a property fail, *)
(* which shows what that property guards.                                  *)
(***************************************************************************)
EXTENDS DeliveryTerms

CONSTANTS
  Payments,      \* external payment ids (Stripe PaymentIntent, Base payment)
  Owners,        \* lease owners
  Stamps,        \* mempool observation times
  Retryable,     \* texts of retryable errors
  Reviews,       \* texts of manual-review errors
  LeaseSeconds   \* length of a lease

ASSUME LeaseAssumption == LeaseSeconds \in Nat \ {0}
ASSUME NullAssumption  ==
  /\ None \notin Payments  /\ None \notin Owners  /\ None \notin Stamps
  /\ None \notin Retryable /\ None \notin Reviews /\ None \notin ExactBundles

-----------------------------------------------------------------------------
(* Write-once columns.  confirmedBy stands for confirmation_height: the     *)
(* bundle whose block it is.                                                *)

ColumnType ==
  [externalPayment    |-> Payments,
   receiptInput       |-> Coins,
   receiptExact       |-> ReceiptBundles,
   receiptBundleId    |-> ReceiptBundles,
   receiptObservedAt  |-> Stamps,
   deliverySigners    |-> Quorums,
   deliveryExact      |-> DeliveryBundles,
   deliveryBundleId   |-> DeliveryBundles,
   observedAt         |-> Stamps,
   confirmedBy        |-> DeliveryBundles,
   authorization      |-> Purchases,
   evidence           |-> Purchases]

Columns == DOMAIN ColumnType
UniqueColumns ==
  {"externalPayment", "receiptInput", "receiptBundleId", "deliveryBundleId",
   "authorization"}

Pending ==
  {"PAYMENT_VERIFIED", "RECEIPT_FUNDING_PREPARED", "RECEIPT_FUNDING_SUBMITTED",
   "RECEIPT_CONFIRMED", "DELIVERY_PREPARED", "DELIVERY_SUBMITTED",
   "EXTERNAL_SETTLEMENT_PENDING"}
Terminal == {"FINALIZED", "MANUAL_REVIEW"}
States   == Pending \cup Terminal

Leases  == [owner : Owners, left : -1 .. LeaseSeconds]
NoLease == [owner |-> None, left |-> -1]

VARIABLES
  state,      \* state[p]: a state, or "ABSENT" before the row exists
  column,     \* column[p][c]: the write-once columns of the row
  lastError,  \* lastError[p]
  lease,      \* lease[p]: its owner and lease_expires_at - now
  older       \* <<p, q>>: updated_at of p is before that of q

storeVars == <<state, column, lastError, lease, older>>

Exists(p) == state[p] # "ABSENT"

\* updated_at := now
Touch(p) ==
  older' = {pair \in older : pair[1] # p} \cup {<<q, p>> : q \in Purchases \ {p}}

StoreInit ==
  /\ state     = [p \in Purchases |-> "ABSENT"]
  /\ column    = [p \in Purchases |-> [c \in Columns |-> None]]
  /\ lastError = [p \in Purchases |-> None]
  /\ lease     = [p \in Purchases |-> NoLease]
  /\ older     = {}

-----------------------------------------------------------------------------
(* Ingest and leases.                                                       *)

\* queue: a repeat of the same evidence returns the row unchanged, different
\* evidence for the purchase or evidence another purchase holds is a conflict.
Queue(p, payment) ==
  /\ state[p] = "ABSENT"
  /\ \A q \in Purchases : column[q]["externalPayment"] # payment
  /\ state'  = [state EXCEPT ![p] = "PAYMENT_VERIFIED"]
  /\ column' = [column EXCEPT ![p]["externalPayment"] = payment]
  /\ Touch(p)
  /\ UNCHANGED <<lastError, lease>>

Lapsed(p) == lease[p].left < 0

TakeLease(p, owner) ==
  /\ lease' = [lease EXCEPT ![p] = [owner |-> owner, left |-> LeaseSeconds]]
  /\ Touch(p)
  /\ UNCHANGED <<state, column, lastError>>

Claimable(p) == state[p] \in Pending /\ Lapsed(p)

ClaimNext_Unordered(p, owner) == Claimable(p) /\ TakeLease(p, owner)

\* claim_next: the longest untouched pending row without a live lease.
ClaimNext(p, owner) ==
  /\ Claimable(p)
  /\ \A q \in Purchases : Claimable(q) => <<q, p>> \notin older
  /\ TakeLease(p, owner)

Claim_Steals(p, owner) == state[p] \in Pending /\ TakeLease(p, owner)

\* claim: one named row; its owner may take it again before it lapses.
Claim(p, owner) ==
  /\ state[p] \in Pending
  /\ Lapsed(p) \/ lease[p].owner = owner
  /\ TakeLease(p, owner)

\* record_error and release_lease check neither the state nor the owner.
RecordError(p, error) ==
  /\ Exists(p)
  /\ lastError' = [lastError EXCEPT ![p] = error]
  /\ lease' = [lease EXCEPT ![p] = NoLease]
  /\ Touch(p)
  /\ UNCHANGED <<state, column>>

ReleaseLease(p) ==
  /\ Exists(p)
  /\ lease' = [lease EXCEPT ![p] = NoLease]
  /\ Touch(p)
  /\ UNCHANGED <<state, column, lastError>>

\* One second passes: every live lease is one second nearer its end.
LeaseTick ==
  lease' = [p \in Purchases |->
              [lease[p] EXCEPT !.left = IF @ < 0 THEN @ ELSE @ - 1]]

-----------------------------------------------------------------------------
(* _transition.  A change names the states it may start from, the state it  *)
(* ends in, the columns it binds and whether it gives the lease up.         *)

Binds(p, change, c) ==
  c \in DOMAIN change.values /\ column[p][c] # change.values[c]

Accepts(p, change) ==
  /\ state[p] \in change.from
  /\ \A c \in Columns : Binds(p, change, c) =>
       /\ column[p][c] = None
       /\ c \in UniqueColumns =>
            \A q \in Purchases : column[q][c] # change.values[c]

Transition(p, change) ==
  /\ Accepts(p, change)
  /\ state'  = [state EXCEPT ![p] = change.to]
  /\ column' = [column EXCEPT ![p] =
                  [c \in Columns |-> IF c \in DOMAIN change.values
                                       THEN change.values[c] ELSE column[p][c]]]
  /\ lastError' = [lastError EXCEPT ![p] = None]
  /\ lease' = IF change.release THEN [lease EXCEPT ![p] = NoLease] ELSE lease
  /\ Touch(p)

Change(from, to, values) ==
  [from |-> from, to |-> to, values |-> values, release |-> TRUE]
Seal(at, values) ==
  [from |-> {at}, to |-> at, values |-> values, release |-> FALSE]

NoColumns == [c \in {} |-> None]

RecordReceiptPrepared(input) ==
  Change({"PAYMENT_VERIFIED", "RECEIPT_FUNDING_PREPARED"},
         "RECEIPT_FUNDING_PREPARED", [receiptInput |-> input])

BindReceiptExactBundle(b) ==
  Seal("RECEIPT_FUNDING_PREPARED", [receiptExact |-> b])

RecordReceiptFunding(b, at) ==
  Change({"RECEIPT_FUNDING_PREPARED", "RECEIPT_FUNDING_SUBMITTED"},
         "RECEIPT_FUNDING_SUBMITTED",
         [receiptBundleId |-> b, receiptObservedAt |-> at])

RecordReceiptConfirmed ==
  Change({"RECEIPT_FUNDING_PREPARED", "RECEIPT_FUNDING_SUBMITTED",
          "RECEIPT_CONFIRMED"}, "RECEIPT_CONFIRMED", NoColumns)

RecordDeliveryPrepared(signers) ==
  Change({"RECEIPT_CONFIRMED", "DELIVERY_PREPARED"},
         "DELIVERY_PREPARED", [deliverySigners |-> signers])

BindDeliveryExactBundle(b) ==
  Seal("DELIVERY_PREPARED", [deliveryExact |-> b])

RecordDeliverySubmission(b, at) ==
  Change({"DELIVERY_PREPARED", "DELIVERY_SUBMITTED"}, "DELIVERY_SUBMITTED",
         [deliveryBundleId |-> b, observedAt |-> at])

RecordFinalized(b) ==
  Change({"DELIVERY_PREPARED", "DELIVERY_SUBMITTED", "FINALIZED"},
         "FINALIZED", [confirmedBy |-> b])

RecordDeliveryConfirmed_AnyRail(p, b) == RecordFinalized(b)

RecordDeliveryConfirmed(p, b) ==
  IF Rail[p] = "stripe" THEN RecordFinalized(b)
  ELSE Change({"DELIVERY_PREPARED", "DELIVERY_SUBMITTED",
               "EXTERNAL_SETTLEMENT_PENDING"},
              "EXTERNAL_SETTLEMENT_PENDING", [confirmedBy |-> b])

RecordExternalSettlementAuthorization(p) ==
  Change({"EXTERNAL_SETTLEMENT_PENDING"}, "EXTERNAL_SETTLEMENT_PENDING",
         [authorization |-> p])

RecordExternalSettlementFinalized(p) ==
  Change({"EXTERNAL_SETTLEMENT_PENDING", "FINALIZED"}, "FINALIZED",
         [evidence |-> p])

\* record_manual_review binds last_error, which _transition treats as
\* write-once like any column.
AcceptsReview(p, error) ==
  /\ state[p] \in Pending \cup {"MANUAL_REVIEW"}
  /\ lastError[p] \in {None, error}

RecordManualReview(p, error) ==
  /\ AcceptsReview(p, error)
  /\ state' = [state EXCEPT ![p] = "MANUAL_REVIEW"]
  /\ lastError' = [lastError EXCEPT ![p] = error]
  /\ lease' = [lease EXCEPT ![p] = NoLease]
  /\ Touch(p)
  /\ UNCHANGED column

\* pending_exact_fee_coin_ids
SealedBundles(p) == {column[p]["receiptExact"], column[p]["deliveryExact"]} \ {None}
PendingExactFeeCoinIds ==
  UNION {{b.fee : b \in SealedBundles(p)} : p \in {q \in Purchases : state[q] # "FINALIZED"}}

-----------------------------------------------------------------------------
(* Any caller, in any order.                                                *)

Transitions(p) ==
  \/ \E c \in Coins : Transition(p, RecordReceiptPrepared(c))
  \/ \E b \in ReceiptBundles :
       \/ Transition(p, BindReceiptExactBundle(b))
       \/ \E at \in Stamps : Transition(p, RecordReceiptFunding(b, at))
  \/ Transition(p, RecordReceiptConfirmed)
  \/ \E q \in Quorums : Transition(p, RecordDeliveryPrepared(q))
  \/ \E b \in DeliveryBundles :
       \/ Transition(p, BindDeliveryExactBundle(b))
       \/ \E at \in Stamps : Transition(p, RecordDeliverySubmission(b, at))
       \/ Transition(p, RecordDeliveryConfirmed(p, b))
  \/ Transition(p, RecordExternalSettlementAuthorization(p))
  \/ Transition(p, RecordExternalSettlementFinalized(p))

StoreNext ==
  \/ \E p \in Purchases :
       \/ \E x \in Payments  : Queue(p, x)
       \/ \E o \in Owners    : ClaimNext(p, o) \/ Claim(p, o)
       \/ \E e \in Retryable : RecordError(p, e)
       \/ \E e \in Reviews   : RecordManualReview(p, e)
       \/ ReleaseLease(p)
       \/ Transitions(p)
  \/ LeaseTick /\ UNCHANGED <<state, column, lastError, older>>

StoreSpec == StoreInit /\ [][StoreNext]_storeVars

-----------------------------------------------------------------------------
(* Properties of the table, whoever calls it.                               *)

\* Every row is a state, a typed set of columns, an error and a lease.
StoreTypeOK ==
  /\ state \in [Purchases -> States \cup {"ABSENT"}]
  /\ DOMAIN column = Purchases
  /\ \A p \in Purchases :
       /\ DOMAIN column[p] = Columns
       /\ \A c \in Columns : column[p][c] \in ColumnType[c] \cup {None}
  /\ lastError \in [Purchases -> Retryable \cup Reviews \cup {None}]
  /\ lease \in [Purchases -> Leases \cup {NoLease}]
  /\ older \subseteq Purchases \X Purchases

\* What a row has bound (its input coin, its exact bundles, its evidence) no
\* later call replaces: a retry must reuse the sealed execution.
WriteOnce ==
  [][\A p \in Purchases, c \in Columns :
       column[p][c] # None => column'[p][c] = column[p][c]]_storeVars

\* Position of a state in the life of a purchase; review is left by nothing.
Rank ==
  [ABSENT                      |-> 0,
   PAYMENT_VERIFIED            |-> 1,
   RECEIPT_FUNDING_PREPARED    |-> 2,
   RECEIPT_FUNDING_SUBMITTED   |-> 3,
   RECEIPT_CONFIRMED           |-> 4,
   DELIVERY_PREPARED           |-> 5,
   DELIVERY_SUBMITTED          |-> 6,
   EXTERNAL_SETTLEMENT_PENDING |-> 7,
   FINALIZED                   |-> 8,
   MANUAL_REVIEW               |-> 9]

\* No order of calls takes a purchase back to an earlier stage or out of
\* FINALIZED or MANUAL_REVIEW.
NeverBackward ==
  [][\A p \in Purchases :
       /\ Rank[state'[p]] >= Rank[state[p]]
       /\ state[p] = "FINALIZED" => state'[p] = "FINALIZED"]_storeVars

\* The columns that must be there by the time a row is in a state: an
\* unreviewed row never claims a stage whose commitments were not recorded.
Funded   == {"externalPayment", "receiptInput"}
Prepared == Funded \cup {"deliverySigners"}
StageColumns ==
  [ABSENT                      |-> {},
   PAYMENT_VERIFIED            |-> {"externalPayment"},
   RECEIPT_FUNDING_PREPARED    |-> Funded,
   RECEIPT_FUNDING_SUBMITTED   |-> Funded \cup {"receiptBundleId"},
   RECEIPT_CONFIRMED           |-> Funded,
   DELIVERY_PREPARED           |-> Prepared,
   DELIVERY_SUBMITTED          |-> Prepared \cup {"deliveryBundleId"},
   EXTERNAL_SETTLEMENT_PENDING |-> Prepared \cup {"confirmedBy"},
   FINALIZED                   |-> Prepared \cup {"confirmedBy"},
   MANUAL_REVIEW               |-> {}]

StageEvidence ==
  \A p \in Purchases :
    /\ \A c \in StageColumns[state[p]] : column[p][c] # None
    /\ state[p] = "FINALIZED" /\ Rail[p] = "base_usdc" =>
         column[p]["evidence"] # None

\* Two purchases never hold the same payment, receipt input, bundle id or
\* settlement authorization: one payment pays for one delivery.
OneHolder ==
  \A p, q \in Purchases : p # q =>
    \A c \in UniqueColumns :
      column[p][c] # None => column[p][c] # column[q][c]

\* A live lease passes to another owner only after it was given up.
LeaseIsExclusive ==
  [][\A p \in Purchases : lease[p].left >= 0 =>
       lease'[p].owner \in {lease[p].owner, None}]_storeVars
=============================================================================
