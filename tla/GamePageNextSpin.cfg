\* The wheel alone: two spins, and the page is loaded once more between them.
CONSTANTS
  None = None
  Answers = {a}
  MaxSessions = 2
  Games = {"spin"}
  MaxDisturbances = 1
SPECIFICATION Spec
CHECK_DEADLOCK FALSE
INVARIANTS
  SpinUsesItsProof
