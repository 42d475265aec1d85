SPECIFICATION Spec
CONSTANTS
  g1 = g1
  g2 = g2
  Ceremonies = {g1, g2}
  Coadmins = {2, 3}
  Handlers = {h1, h2}
  Till = {1, 2, 3, 4}
  Jobs = {j1, j2}
  PlanTTL = 1
  Window = 2
  MaxTime = 2
  MaxPlans = 2
  Confirmations = 3
  MaxPeak = 12
  NoCeremony = NoCeremony
  NoCoin = 0
  NoJob = NoJob
CONSTRAINT Bounded
VIEW View
SYMMETRY Symmetry
INVARIANTS OneGenesis BroadcastIsSigned FanOutIsKnown ConfirmedIsFinal LockSealsArtifact RehearsalStands
