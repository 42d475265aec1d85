---------------------------- MODULE DeliveryTerms ----------------------------
(***************************************************************************)
(* The vocabulary shared by the delivery modules: purchases, the fee till, *)
(* and the spend bundles that fund a receipt and deliver an asset.         *)
(***************************************************************************)
EXTENDS Integers, FiniteSets

CONSTANTS
  Purchases,     \* purchase ids
  Rail,          \* Rail[p]: the rail that collected the payment of p
  Coins,         \* coins of the fee till, named by their amount
  Quorums,       \* signer sets the validators can answer with
  None           \* SQL NULL

Rails == {"stripe", "base_usdc"}

ASSUME RailAssumption == Rail \in [Purchases -> Rails]
ASSUME CoinAssumption == Coins \subseteq Nat
ASSUME NoneAssumption ==
  None \notin Purchases /\ None \notin Coins /\ None \notin Quorums

(* A funded bundle is named by what tells it apart: the purchase it is for, *)
(* the coin or the signer set it commits, and the fee coin sealed into it.  *)
ReceiptBundles ==
  [kind : {"receipt"}, purchase : Purchases, input : Coins, fee : Coins]
DeliveryBundles ==
  [kind : {"delivery"}, purchase : Purchases, signers : Quorums, fee : Coins]
ExactBundles == ReceiptBundles \cup DeliveryBundles

ReceiptBundle(p, input, fee) ==
  [kind |-> "receipt", purchase |-> p, input |-> input, fee |-> fee]
DeliveryBundle(p, signers, fee) ==
  [kind |-> "delivery", purchase |-> p, signers |-> signers, fee |-> fee]
=============================================================================
