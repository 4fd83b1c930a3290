\* One player and a fairness game: proofs, seeds, expiry, cancellation, claims.
CONSTANTS
  r1 = r1
  r2 = r2
  r3 = r3
  wheel = wheel
  card = card
  maze = maze
  None = None
  Workers = {w1, w2}
  Players = {p1}
  Games = {wheel}
  Requests = {r1, r2}
  Intents = {x, y}
  Mode <- FairnessGame
  IdOrder <- MCIdOrder
  Duration = 2
  Cooldown = 2
  TxLimit = 1
  MaxTime = 4
SPECIFICATION Spec
SYMMETRY Symmetry
INVARIANTS
  TypeOK
  OutcomeAgreement
  ProofAgreement
  EndedInTime
  DecisionsHold
  NoUniqueViolation
  CooldownRespected
  RecoveryFindsActive
  DeadlocksOnlyAtExpiry
PROPERTIES
  Irrevocable
  ImplementsContract
