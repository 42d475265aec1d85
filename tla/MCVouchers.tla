---------------------------- MODULE MCVouchers ----------------------------
EXTENDS Vouchers, TLC

CONSTANTS vx, vb, vs

Rails   == vx :> "XCH" @@ vb :> "BASE" @@ vs :> "STRIPE"
Heights == [v \in Voucher |-> 1]
=============================================================================
