\* Two players, a choice game and a skill game: shared request ids, retried creations
\* and plays.
CONSTANTS
  r1 = r1
  r2 = r2
  r3 = r3
  wheel = wheel
  card = card
  maze = maze
  None = None
  Workers = {w1, w2}
  Players = {p1, p2}
  Games = {card, maze}
  Requests = {r1, r2}
  Intents = {x, y}
  Mode <- DirectGames
  IdOrder <- MCIdOrder
  Duration = 1
  Cooldown = 2
  TxLimit = 1
  MaxTime = 1
SPECIFICATION Spec
SYMMETRY Symmetry
INVARIANTS
  RequestBinding
  AnswersAgree
  NoUniqueViolation
