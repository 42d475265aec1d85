SPECIFICATION FairSpec
CONSTANTS
  m1 = m1
  a1 = a1
  a2 = a2
  r1 = r1
  r2 = r2
  None = None
  Proposals = {m1}
  Admins = {a1, a2}
  Requests = {r1, r2}
  Caller <- CallerPair
  Owner <- OwnerOne
  Stakes = {1, 2}
  Till = {1, 2}
  MaxTip = 2
  MaxFaults = 2
INVARIANTS RecordedWasAccepted CompletedIsRecorded MirrorAgrees
PROPERTIES MinedIsRecorded
CHECK_DEADLOCK FALSE
