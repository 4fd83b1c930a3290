\* One board and its stream, two weeks, two players.
CONSTANTS
  None = None
  Weeks = {1, 2}
  Streams = {s1}
  Players = {alice, bob}
  QueueSize = 1
  WireSize = 1
  MaxScores = 2
  MaxDisturbances = 1
SPECIFICATION FairSpec
CHECK_DEADLOCK FALSE
INVARIANTS
  TypeOK
  ShutdownHeard
  BoardIsOfPage
  NoLostSignal
PROPERTIES
  NeverBackwards
  BoardCatchesUp
