----------------------------- MODULE GameRules -----------------------------
(***************************************************************************)
(* The deterministic rules of the three games and the draws they rest on:  *)
(* game_rules.py and the reward map and rejection sampling of rng.py.      *)
(* Numbers keep their roles and lose their size: Space stands for 2^256,   *)
(* MaxWeight for 2^63 - 1 and MaxValue for 2^31 - 1.                       *)
(***************************************************************************)
EXTENDS Integers, Sequences, FiniteSets, SequencesExt

CONSTANTS
  Space,      \* the values of a digest, read as an integer, are 0 .. Space - 1
  MaxWeight,  \* largest reward weight, and largest total
  MaxValue,   \* largest reward value
  None

ASSUME RangeAssumption == Space \in Nat \ {0}
ASSUME RewardBounds == MaxWeight \in Nat \ {0} /\ MaxValue \in Nat

------------------------------------------------------------------------------
(***************************************************************************)
(* Draws.  raw[k] is the integer of the k-th digest.                       *)
(***************************************************************************)
\* Digests from here on would favour the small results.
Limit(n) == Space - (Space % n)

\* The attempt that is accepted: the first below the limit.
Attempt(raw, n) ==
  CHOOSE k \in DOMAIN raw : raw[k] < Limit(n) /\ \A j \in DOMAIN raw : j < k => raw[j] >= Limit(n)

\* uniform()
Uniform(raw, n) == raw[Attempt(raw, n)] % n

------------------------------------------------------------------------------
(***************************************************************************)
(* The reward map of the wheel: a sequence of bands [key, weight, value].  *)
(***************************************************************************)
TotalWeight(bands) == FoldSeq(LAMBDA band, total : total + band.weight, 0, bands)

\* _validate_reward_bands
ValidBands(bands) ==
  /\ bands # <<>>
  /\ \A i, j \in DOMAIN bands : bands[i].key = bands[j].key => i = j
  /\ \A i \in DOMAIN bands : bands[i].weight \in 1 .. MaxWeight /\ bands[i].value \in 0 .. MaxValue
  /\ TotalWeight(bands) <= MaxWeight

\* select_daily_spin_reward: the band whose weight is reached when the weights of the
\* bands before it are taken off v.
SelectReward(bands, v) ==
  bands[CHOOSE i \in DOMAIN bands :
          LET before == TotalWeight(SubSeq(bands, 1, i - 1))
          IN before <= v /\ v < before + bands[i].weight]

------------------------------------------------------------------------------
(***************************************************************************)
(* The games.  An intent is [choice, actions]; an operation that raises    *)
(* InvalidRulesInputError returns None.                                    *)
(***************************************************************************)
\* retry_matches; the skill check declines to compare.
RetryMatches(game, outcome, intent) ==
  IF game = "skill_check" THEN None
  ELSE intent.actions = None /\ outcome.player_choice = intent.choice

EvaluateCard(choices, intent, raw) ==
  IF intent.actions # None \/ intent.choice \notin {choices[i] : i \in DOMAIN choices} THEN None
  ELSE LET drawn == choices[1 + Uniform(raw, Len(choices))]
       IN [player_choice |-> intent.choice, authoritative_choice |-> drawn,
           correct |-> intent.choice = drawn]

\* The actions that repeat the challenge from its start.
CorrectPrefix(actions, challenge) == Len(LongestCommonPrefix({actions, challenge}))

EvaluateSkill(challenge, maxScore, intent, createdAt, now) ==
  IF intent.actions = None \/ intent.choice # None \/ ~IsInjective(intent.actions) THEN None
  ELSE LET correct == CorrectPrefix(intent.actions, challenge)
       IN [score |-> (maxScore * correct) \div Len(challenge), correct_actions |-> correct,
           submitted_actions |-> Len(intent.actions),
           elapsed |-> IF now < createdAt THEN 0 ELSE now - createdAt]

\* reward_value and leaderboard_score, which agree in every game.
SpinValue(bands, outcome) ==
  LET won == {i \in DOMAIN bands : bands[i].key = outcome.reward_key}
  IN IF won = {} THEN None ELSE bands[CHOOSE i \in won : \A j \in won : i <= j].value
CardValue(reward, outcome) == IF outcome.correct THEN reward ELSE 0
SkillValue(maxScore, outcome) == IF outcome.score \in 0 .. maxScore THEN outcome.score ELSE None

------------------------------------------------------------------------------
(***************************************************************************)
(* What the draws promise.                                                 *)
(***************************************************************************)
\* The digests that an attempt accepts and that draw v of n.
Chances(n, v) == {x \in 0 .. Limit(n) - 1 : x % n = v}

\* A bounded draw is fair and soon over: every result has as many digests as any other,
\* and more digests are accepted than not.
FairDraw(n) ==
  /\ \A v, w \in 0 .. n - 1 : Cardinality(Chances(n, v)) = Cardinality(Chances(n, w))
  /\ n <= Space => 2 * Limit(n) > Space

\* A reward is won with the chances of its weight, and the outcome that names it is
\* worth its value.
FairMap(bands) ==
  \A i \in DOMAIN bands :
    /\ Cardinality({v \in 0 .. TotalWeight(bands) - 1 : SelectReward(bands, v) = bands[i]})
         = bands[i].weight
    /\ SpinValue(bands, [reward_key |-> bands[i].key]) = bands[i].value

\* A card played is a retry of itself and of no other choice, and is worth the reward
\* or nothing.
CardRules(choices, raw, reward) ==
  \A i, j \in DOMAIN choices :
    LET intent(n) == [choice |-> choices[n], actions |-> None]
        outcome == EvaluateCard(choices, intent(i), raw)
    IN /\ RetryMatches("prediction_card", outcome, intent(j)) = (choices[i] = choices[j])
       /\ CardValue(reward, outcome) \in {0, reward}

\* A skill check is scored within its maximum, which a perfect run alone reaches, and one
\* more right number never lowers the score.
SkillRules(challenge, maxScore, actions) ==
  LET score(as) == SkillValue(maxScore, EvaluateSkill(challenge, maxScore,
                                                     [choice |-> None, actions |-> as], 0, 0))
  IN IsInjective(actions) =>
       /\ score(actions) \in 0 .. maxScore
       /\ score(actions) = maxScore <=> IsPrefix(challenge, actions)
       /\ \A n \in 0 .. Len(actions) : score(SubSeq(actions, 1, n)) <= score(actions)

==============================================================================
