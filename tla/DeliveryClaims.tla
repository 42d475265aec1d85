---------------------------- MODULE DeliveryClaims ----------------------------
(***************************************************************************)
(* What the repository's own texts say of external delivery and the code   *)
(* does not keep; the README tells the behaviour that refutes it.          *)
(***************************************************************************)
EXTENDS ExternalDelivery

\* StripeDeliveryManualReview: "Chain state conflicts with the operation's
\* immutable commitments."  A prepared delivery whose deed was spent by
\* somebody else does not stay prepared for ever.
ConflictLeavesPrepared ==
  \A p \in Purchases :
    (state[p] = "DELIVERY_PREPARED" /\ p \in SpentDeeds /\ ~Delivered(p))
      ~> state[p] # "DELIVERY_PREPARED"
=============================================================================
