SPECIFICATION Spec
CONSTANTS
  vx = vx
  vb = vb
  vs = vs
  Voucher = {vx, vb, vs}
  Rail <- Rails
  Height <- Heights
  MaxHeight = 2
  MaxLaunches = 2
  NoVoucher = NoVoucher
  None = None
INVARIANTS OneSpendPerCoin BooksFollowChain
PROPERTIES VouchersSettle
CHECK_DEADLOCK FALSE
