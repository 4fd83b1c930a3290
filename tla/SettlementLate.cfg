\* A submission that stalls between its clock and its insert.
CONSTANTS
  alice = alice
  bob = bob
  None = None
  Workers = {w1, w2}
  Sessions = {1, 2, 3}
  PlayerOf <- TwoPlayers
  Values = {1, 2}
  Week = 2
  TierConfigs <- Tiers
  MaxTime = 2
SPECIFICATION Spec
SYMMETRY Symmetry
INVARIANTS
  SettlementIsFinal
