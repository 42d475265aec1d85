--------------------------- MODULE MCMintSubmission ---------------------------
(* MINT submissions on small instances. *)
EXTENDS MintSubmission, TLC

CONSTANTS m1, a1, a2, r1, r2

OwnerOne   == m1 :> a1
CallerOne  == r1 :> a1
CallerPair == r1 :> a1 @@ r2 :> a2
=============================================================================
