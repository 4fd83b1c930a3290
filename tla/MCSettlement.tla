---------------------------- MODULE MCSettlement ----------------------------
(* Model-checking instances of Settlement. *)
EXTENDS Settlement, TLC

CONSTANTS alice, bob

TwoPlayers == [s \in Sessions |-> IF s = 2 THEN bob ELSE alice]
ThreePlayers == [s \in Sessions |-> s]

\* A version in force from the start and one published after the first period.
Tiers == <<
  [published |-> 0, tiers |-> <<[min |-> 1, max |-> 1, reward |-> 5],
                                [min |-> 1, max |-> 2, reward |-> 3]>>],
  [published |-> 3, tiers |-> <<[min |-> 1, max |-> 1, reward |-> 7]>>]>>

Symmetry == Permutations(Workers)

==============================================================================
