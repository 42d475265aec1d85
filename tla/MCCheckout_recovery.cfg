SPECIFICATION LiveSpec
CONSTANTS
  p1 = p1
  p2 = p2
  Purchases = {p1, p2}
  Rail <- TwoRails
  SamePerson <- OnePerson
  None = None
  MaxTerm = 1
INVARIANTS
  SlotFreedWhenOver
  OneDeedEach
  ClaimsAreTrue
  TimeoutExcludesHold
PROPERTY CheckoutsSettle
CHECK_DEADLOCK FALSE
