------------------------------- MODULE ChiaNode -------------------------------
(***************************************************************************)
(* What the delivery service uses and does not own: the Key of Solomon     *)
(* executor, which keeps every bundle it accepted and resubmits it, the    *)
(* mempool, which may drop a bundle, and the chain, which includes a       *)
(* bundle whole or not at all.  Modelled from how stripe_delivery_worker,  *)
(* protocol_submission and kos_exact_execution call them.  A confirmed     *)
(* block stays confirmed: reorganisations are not modelled.                *)
(***************************************************************************)
EXTENDS DeliveryTerms

CONSTANTS
  ForeignCoins,  \* till coins that other services of the coordinator may spend
  Reclaimable    \* purchases whose deed reservation may be timed out on chain

VARIABLES
  executor,  \* bundles Key of Solomon has accepted
  mempool,   \* bundles in the mempool
  mined      \* bundles confirmed in a block

chainVars == <<executor, mempool, mined>>

ForeignBundles ==
  [kind : {"foreign"}, fee : ForeignCoins]
    \cup [kind : {"reclaim"}, purchase : Reclaimable]

ASSUME ForeignAssumption ==
  /\ ForeignCoins \subseteq Coins /\ Reclaimable \subseteq Purchases
  /\ None \notin ForeignBundles

ChainInit == executor = {} /\ mempool = {} /\ mined = {}

TillInputs(b) ==
  CASE b.kind = "receipt" -> {b.input, b.fee}
    [] b.kind = "reclaim" -> {}
    [] OTHER              -> {b.fee}

\* The deed of a purchase; its receipt coin is spent by the same bundles.
DeedInputs(b) == IF b.kind \in {"delivery", "reclaim"} THEN {b.purchase} ELSE {}

Conflicts(b, d) ==
  \/ TillInputs(b) \cap TillInputs(d) # {}
  \/ DeedInputs(b) \cap DeedInputs(d) # {}

SpentCoins   == UNION {TillInputs(b) : b \in mined}
PendingCoins == UNION {TillInputs(b) : b \in mempool}
UnspentCoins == Coins \ SpentCoins
SpentDeeds   == UNION {DeedInputs(b) : b \in mined}
ReceiptExists(p) == \E b \in mined : b.kind = "receipt" /\ b.purchase = p

\* Every input of b exists and is unspent.
Spendable(b) ==
  /\ \A d \in mined : ~Conflicts(b, d)
  /\ b.kind = "delivery" => ReceiptExists(b.purchase)

EnterMempool(b) ==
  /\ b \notin mempool
  /\ Spendable(b)
  /\ \A d \in mempool : ~Conflicts(b, d)
  /\ mempool' = mempool \cup {b}
  /\ UNCHANGED <<executor, mined>>

Resubmit     == \E b \in executor : EnterMempool(b)
ForeignSpend == \E b \in ForeignBundles : EnterMempool(b)

Drop(b) ==
  /\ mempool' = mempool \ {b}
  /\ UNCHANGED <<executor, mined>>

Include(b) ==
  /\ mempool' = mempool \ {b}
  /\ mined'   = mined \cup {b}
  /\ UNCHANGED executor

ChainNext ==
  \/ Resubmit
  \/ ForeignSpend
  \/ \E b \in mempool : Drop(b) \/ Include(b)
=============================================================================
