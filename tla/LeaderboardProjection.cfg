\* Two rebuilds, one reader, two scores of a player and one failure.
CONSTANTS
  alice = alice
  None = None
  Garbage = Garbage
  Rebuilders = {w1, w2}
  Readers = {r1}
  Players = {alice}
  Scores = {1, 2}
  PlayerOf <- OnePlayer
  Asks <- PageAndRank
  MaxRebuilds = 2
  MaxFaults = 1
SPECIFICATION Spec
SYMMETRY Symmetry
CONSTRAINT Unanswered
CHECK_DEADLOCK FALSE
INVARIANTS
  TypeOK
  CurrentKept
PROPERTIES
  NoNeedlessFallback
  ImplementsBoard
