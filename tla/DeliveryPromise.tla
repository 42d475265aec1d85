---------------------------- MODULE DeliveryPromise ----------------------------
(***************************************************************************)
(* What the delivery of paid purchases promises, without rows, leases,     *)
(* bundles or workers: each purchased asset changes hands at most once,    *)
(* the buyer's money on Base is captured only after that, and the service  *)
(* calls a purchase done only when both have happened.  A purchase it      *)
(* hands to review it never calls done, but what it has set in motion may  *)
(* still be delivered.                                                     *)
(***************************************************************************)
CONSTANTS Purchases, Prepaid, Reclaimable

VARIABLES
  word,   \* word[p]: what the service says of p
  asset,  \* asset[p]: who has the asset
  money   \* money[p]: the payment, "held" in escrow or "captured"

promiseVars == <<word, asset, money>>

PromiseInit ==
  /\ word  = [p \in Purchases |-> "none"]
  /\ asset = [p \in Purchases |-> "reserved"]
  /\ money = [p \in Purchases |-> IF p \in Prepaid THEN "captured" ELSE "held"]

Accept(p) ==
  /\ word[p] = "none"
  /\ word' = [word EXCEPT ![p] = "owed"]
  /\ UNCHANGED <<asset, money>>

Deliver(p) ==
  /\ word[p] \in {"owed", "review"}
  /\ asset[p] = "reserved"
  /\ asset' = [asset EXCEPT ![p] = "delivered"]
  /\ UNCHANGED <<word, money>>

Reclaim(p) ==
  /\ p \in Reclaimable
  /\ asset[p] = "reserved"
  /\ asset' = [asset EXCEPT ![p] = "reclaimed"]
  /\ UNCHANGED <<word, money>>

Capture(p) ==
  /\ word[p] = "owed" /\ asset[p] = "delivered" /\ money[p] = "held"
  /\ money' = [money EXCEPT ![p] = "captured"]
  /\ UNCHANGED <<word, asset>>

Complete(p) ==
  /\ word[p] = "owed" /\ asset[p] = "delivered" /\ money[p] = "captured"
  /\ word' = [word EXCEPT ![p] = "done"]
  /\ UNCHANGED <<asset, money>>

Escalate(p) ==
  /\ word[p] = "owed"
  /\ word' = [word EXCEPT ![p] = "review"]
  /\ UNCHANGED <<asset, money>>

PromiseNext ==
  \E p \in Purchases :
    \/ Accept(p) \/ Deliver(p) \/ Reclaim(p)
    \/ Capture(p) \/ Complete(p) \/ Escalate(p)

PromiseSpec == PromiseInit /\ [][PromiseNext]_promiseVars
=============================================================================
