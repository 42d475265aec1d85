-------------------------- MODULE MCExternalDelivery --------------------------
(* The delivery workers on small instances. *)
EXTENDS DeliveryClaims, TLC

CONSTANTS p1, p2

RailStripe == p1 :> "stripe"
RailBase   == p1 :> "base_usdc"
RailMixed  == p1 :> "stripe" @@ p2 :> "base_usdc"

\* No definition tells one worker from another.
WorkerSymmetry == Permutations(Workers)
=============================================================================
