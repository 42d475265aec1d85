SPECIFICATION Spec
CONSTANTS
  p1 = p1
  p2 = p2
  p3 = p3
  None = None
  Signers = {s1, s2}
  Quorums = {{s1, s2}}
  Purchases = {p1, p2, p3}
  Rail <- EachRail
  MaxCoins = 4
  MaxTerm = 1
  MaxLag = 1
SYMMETRY SignerSymmetry
INVARIANTS OneBuyerMayPay ClosedIsSettled PaidBuyerKeepsDeed OneFuture OneLiveReservation AbortIsFinal
CHECK_DEADLOCK FALSE
