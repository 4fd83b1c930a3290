\* Three sessions of two players over two weeks, still running.
CONSTANTS
  alice = alice
  bob = bob
  None = None
  Workers = {w1, w2}
  Sessions = {1, 2, 3}
  PlayerOf <- TwoPlayers
  Values = {1, 2}
  Week = 2
  TierConfigs <- Tiers
  MaxTime = 3
SPECIFICATION Spec
SYMMETRY Symmetry
INVARIANTS
  TypeOK
  TimelyScoresCount
  RewardsFollowRanks
  RevisionCounts
  SettledOnce
  SameRecipients
PROPERTIES
  ImplementsSettlementContract
