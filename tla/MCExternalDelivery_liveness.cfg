SPECIFICATION FairSpec
CONSTANTS
  p1 = p1
  p2 = p2
  None = None
  Purchases = {p1, p2}
  Rail <- RailMixed
  Coins = {1, 2, 3}
  Quorums = {q1}
  Payments = {p1, p2}
  Workers = {w1}
  Departed = departed
  Owners = {w1, departed}
  Stamps = {w1}
  Retryable = {"retry"}
  Reviews = {"conflict"}
  LeaseSeconds = 2
  AdvanceTimeout = 1
  ForeignCoins = {}
  Reclaimable = {p2}
  EnabledRails = {"base_usdc", "stripe"}
  Stalls = FALSE
  StatusReads = TRUE
  MaxFaults = 1
INVARIANTS FeeCoinsDisjoint
PROPERTIES EveryPaymentEnds
CHECK_DEADLOCK FALSE
