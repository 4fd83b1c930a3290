---------------------- MODULE MCLeaderboardProjection ----------------------
(* Model-checking instances of LeaderboardProjection. *)
EXTENDS LeaderboardProjection, TLC

CONSTANT alice

OnePlayer == [s \in Scores |-> alice]

\* The first row, with the look at the second, and a rank.
PageAndRank == {[kind |-> "page", offset |-> 0, limit |-> 1], [kind |-> "rank", player |-> alice]}

\* A request that has been answered has nothing more to show.
Unanswered == \A r \in Readers : read[r].answer = None

Symmetry == Permutations(Rebuilders)

==============================================================================
