\* Three games, two sessions, two answers, one lost or failed request or reload.
CONSTANTS
  None = None
  Answers = {a, b}
  MaxSessions = 2
  Games = {"spin", "card", "skill"}
  MaxDisturbances = 1
SPECIFICATION FairSpec
CHECK_DEADLOCK FALSE
INVARIANTS
  TypeOK
  OneAnswer
  
PROPERTIES
  PageSettles
