SPECIFICATION FairSpec
CONSTANTS
  p1 = p1
  p2 = p2
  None = None
  Purchases = {p1}
  Rail <- RailStripe
  Coins = {1, 2, 3}
  Quorums = {q1}
  Payments = {p1}
  Workers = {w1}
  Departed = departed
  Owners = {w1, departed}
  Stamps = {w1}
  Retryable = {"retry"}
  Reviews = {"conflict"}
  LeaseSeconds = 2
  AdvanceTimeout = 1
  ForeignCoins = {}
  Reclaimable = {p1}
  EnabledRails = {"stripe"}
  Stalls = FALSE
  StatusReads = FALSE
  MaxFaults = 1
PROPERTIES ConflictLeavesPrepared
CHECK_DEADLOCK FALSE
