--------------------------- MODULE MCGameSessions ---------------------------
(* Model-checking instances of GameSessions. *)
EXTENDS GameSessions, TLC

CONSTANTS r1, r2, r3, wheel, card, maze

\* The random session ids, in the order they happen to sort.
MCIdOrder == [r \in Requests |-> CASE r = r1 -> 1 [] r = r2 -> 2 [] r = r3 -> 3]

FairnessGame == wheel :> "fairness"
ChoiceGame == card :> "choice"
DirectGames == (card :> "choice") @@ (maze :> "skill")

Symmetry == Permutations(Workers) \cup Permutations(Players) \cup Permutations(Intents)

==============================================================================
