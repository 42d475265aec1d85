SPECIFICATION Spec
CONSTANTS
  p1 = p1
  p2 = p2
  None = None
  Purchases = {p1}
  Rail <- RailBase
  Coins = {1, 2, 3}
  Quorums = {q1, q2}
  Payments = {p1}
  Workers = {w1, w2}
  Departed = departed
  Owners = {w1, w2, departed}
  Stamps = {w1, w2}
  Retryable = {"retry"}
  Reviews = {"conflict"}
  LeaseSeconds = 2
  AdvanceTimeout = 1
  ForeignCoins = {1}
  Reclaimable = {p1}
  EnabledRails = {"base_usdc"}
  Stalls = FALSE
  StatusReads = FALSE
  MaxFaults = 3
INVARIANTS TypeOK StageEvidence CaptureAfterDelivery AdvanceIsLeased
CHECK_DEADLOCK FALSE
