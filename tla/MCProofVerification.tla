------------------------ MODULE MCProofVerification ------------------------
(* Two seeds, two client seeds, two maps with a common digest space of 8.   *)
EXTENDS ProofVerification, TLC

CONSTANTS s1, s2, k1, k2, c1, c2

Band(key, weight, value) == [key |-> key, weight |-> weight, value |-> value]
MCMaps == {<<Band("low", 2, 0), Band("high", 1, 2)>>, <<Band("low", 1, 0), Band("high", 2, 2)>>}

\* An integer for every digest: it is above the limit for some, then below.
Ordinal(x) == CASE x \in {s1, k1, c1, "session"} -> 0 [] OTHER -> 1
MCValue(digest) ==
  (3 * Ordinal(digest[2]) + 3 * Ordinal(digest[3]) + digest[4] + Ordinal(digest[5])
     + Ordinal(digest[6]) + digest[7][2][1].weight + 5 + 3 * digest[8]) % Space

\* The draws and the maps keep what they promise, over small spaces.
ASSUME Draws == \A n \in 1 .. Space : FairDraw(n)
ASSUME Rewards == \A bands \in Maps : FairMap(bands)
ASSUME Cards ==
  \A a, b \in 0 .. Space - 1 : b < Limit(2) => CardRules(<<"red", "black">>, <<a, b>>, 25)
ASSUME Skills ==
  \A n \in 0 .. 4 : \A actions \in [1 .. n -> 1 .. 4] : SkillRules(<<3, 1, 2>>, 10, actions)
==============================================================================
