------------------------ MODULE MCInventoryAuthority ------------------------
(* Two validators and one buyer on each rail, all after one deed. *)
EXTENDS InventoryAuthority, TLC

CONSTANTS p1, p2, p3

EachRail == p1 :> "stripe" @@ p2 :> "base" @@ p3 :> "offer"
SignerSymmetry == Permutations(Signers)
=============================================================================
