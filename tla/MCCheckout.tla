----------------------------- MODULE MCCheckout -----------------------------
\* One person, who buys a deed by card and another on Base, in either order.
EXTENDS Checkout, TLC
CONSTANTS p1, p2
TwoRails  == (p1 :> "stripe") @@ (p2 :> "base")
OnePerson == {<<p1, p2>>, <<p2, p1>>}
=============================================================================
