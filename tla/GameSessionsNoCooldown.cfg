\* cooldown_seconds = 0, three sessions of one player: creations that overtake each
\* other.
CONSTANTS
  r1 = r1
  r2 = r2
  r3 = r3
  wheel = wheel
  card = card
  maze = maze
  None = None
  Workers = {w1, w2}
  Players = {p1}
  Games = {card}
  Requests = {r1, r2, r3}
  Intents = {x}
  Mode <- ChoiceGame
  IdOrder <- MCIdOrder
  Duration = 1
  Cooldown = 0
  TxLimit = 0
  MaxTime = 1
SPECIFICATION Spec
PROPERTIES
  ImplementsContract
