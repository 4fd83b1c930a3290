-------------------------- MODULE GameRules_proofs --------------------------
(***************************************************************************)
(* Theorems about the draws of GameRules, for a digest space and a number  *)
(* of results of any size; TLC checks them over small ones.                *)
(*                                                                         *)
(* The limit of a draw is a multiple of the number n of results, so that   *)
(* moving a digest from one result to another stays below it; hence any    *)
(* two results have equally many digests.                                  *)
(***************************************************************************)
EXTENDS GameRules, FiniteSetTheorems, WellFoundedInduction, TLAPS

LEMMA Division ==
  ASSUME NEW x \in Int, NEW n \in Nat \ {0}
  PROVE  x \div n \in Int /\ x % n \in 0 .. n - 1 /\ x = n * (x \div n) + (x % n)
OBVIOUS

LEMMA Remainder ==
  ASSUME NEW n \in Nat \ {0}, NEW q \in Int, NEW v \in 0 .. n - 1
  PROVE  (n * q + v) % n = v
OBVIOUS

LEMMA LimitFacts ==
  ASSUME NEW n \in Nat \ {0}
  PROVE  /\ Limit(n) \in Nat /\ Limit(n) <= Space
         /\ \E k \in Int : Limit(n) = n * k
         /\ n <= Space => 2 * Limit(n) > Space
<1>. DEFINE k == Space \div n
            r == Space % n
<1>1. k \in Int /\ r \in 0 .. n - 1 /\ Space = n * k + r
  BY Division, RangeAssumption
<1>2. Limit(n) = n * k
  BY <1>1, RangeAssumption DEF Limit
<1>. HIDE DEF k, r
<1>3. k >= 0
  <2>1. SUFFICES ASSUME k <= -1 PROVE FALSE
    BY <1>1
  <2>2. n * k <= -n
    BY <1>1, <2>1
  <2>. QED  BY <1>1, <2>2, RangeAssumption
<1>4. n * k \in Nat
  BY <1>1, <1>3
<1>5. ASSUME n <= Space PROVE n * k >= n
  <2>1. k # 0
    BY <1>1, <1>5
  <2>. QED  BY <1>1, <1>3, <2>1
<1>. QED  BY <1>1, <1>2, <1>4, <1>5, RangeAssumption

\* A digest moved from one result to another is accepted as well.
LEMMA Moved ==
  ASSUME NEW n \in Nat \ {0}, NEW v \in 0 .. n - 1, NEW w \in 0 .. n - 1,
         NEW x \in Chances(n, v)
  PROVE  x - v + w \in Chances(n, w)
<1>. DEFINE q == x \div n
<1>1. x \in 0 .. Limit(n) - 1 /\ x % n = v
  BY DEF Chances
<1>2. PICK k \in Int : Limit(n) = n * k
  BY LimitFacts
<1>3. x \in Int
  BY <1>1, LimitFacts
<1>4. q \in Int /\ x = n * q + v
  BY <1>1, <1>3, Division
<1>. HIDE DEF q
<1>5. 0 <= q /\ q < k
  <2>1. CASE q <= -1
    <3>1. n * q <= -n
      BY <1>4, <2>1
    <3>. QED  BY <1>1, <1>3, <1>4, <3>1
  <2>2. CASE q >= k
    <3>1. n * q >= n * k
      BY <1>2, <1>4, <2>2
    <3>2. x >= Limit(n)
      BY <1>2, <1>3, <1>4, <3>1
    <3>. QED  BY <1>1, <1>2, <1>3, <3>2
  <2>. QED  BY <1>2, <1>4, <2>1, <2>2
<1>6. n * q >= 0 /\ n * q <= n * k - n
  BY <1>2, <1>4, <1>5
<1>7. x - v + w = n * q + w
  BY <1>3, <1>4
<1>8. (n * q + w) % n = w
  BY <1>4, Remainder
<1>9. n * q + w \in 0 .. Limit(n) - 1
  BY <1>2, <1>4, <1>6
<1>. QED  BY <1>7, <1>8, <1>9 DEF Chances

\* Rejection sampling is fair and soon over, whatever the space of the digests and the
\* number of results: HmacOutcomeProvider.uniform and derive_daily_spin.
THEOREM DrawsAreFair == \A n \in Nat \ {0} : FairDraw(n)
<1>. SUFFICES ASSUME NEW n \in Nat \ {0} PROVE FairDraw(n)
  OBVIOUS
<1>1. ASSUME NEW v \in 0 .. n - 1
      PROVE  Chances(n, v) \subseteq Int /\ IsFiniteSet(Chances(n, v))
  <2>1. Chances(n, v) \in SUBSET (0 .. Limit(n) - 1)
    BY DEF Chances
  <2>2. IsFiniteSet(0 .. Limit(n) - 1)
    BY FS_Interval, LimitFacts
  <2>. QED  BY <2>1, <2>2, FS_Subset, LimitFacts
<1>2. ASSUME NEW v \in 0 .. n - 1, NEW w \in 0 .. n - 1
      PROVE  Cardinality(Chances(n, v)) = Cardinality(Chances(n, w))
  <2>. DEFINE move == [x \in Chances(n, v) |-> x - v + w]
  <2>1. move \in [Chances(n, v) -> Chances(n, w)]
    BY Moved
  <2>2. \A x, y \in Chances(n, v) : move[x] = move[y] => x = y
    BY <1>1
  <2>3. ASSUME NEW y \in Chances(n, w) PROVE \E x \in Chances(n, v) : move[x] = y
    <3>1. y - w + v \in Chances(n, v)
      BY Moved
    <3>2. move[y - w + v] = y
      BY <1>1, <3>1
    <3>. QED  BY <3>1, <3>2
  <2>4. move \in Bijection(Chances(n, v), Chances(n, w))
    BY <2>1, <2>2, <2>3 DEF Bijection, Injection, Surjection, IsInjective
  <2>5. ExistsBijection(Chances(n, v), Chances(n, w))
    BY <2>4 DEF ExistsBijection
  <2>. HIDE DEF move
  <2>6. IsFiniteSet(Chances(n, v))
    BY <1>1
  <2>. QED  BY ONLY <2>5, <2>6, FS_Bijection
<1>. QED  BY <1>2, LimitFacts DEF FairDraw

\* What a draw yields is one of its results, as soon as an attempt is accepted.
THEOREM DrawIsAResult ==
  ASSUME NEW n \in Nat \ {0}, NEW m \in Nat, NEW raw \in [0 .. m -> 0 .. Space - 1],
         \E k \in 0 .. m : raw[k] < Limit(n)
  PROVE  /\ Attempt(raw, n) \in 0 .. m /\ raw[Attempt(raw, n)] < Limit(n)
         /\ Uniform(raw, n) \in 0 .. n - 1
<1>. DEFINE accepted == {k \in 0 .. m : raw[k] < Limit(n)}
<1>1. PICK first \in accepted : \A k \in accepted : ~ (<<k, first>> \in OpToRel(<, Nat))
  <2>1. accepted \subseteq Nat /\ accepted # {}
    OBVIOUS
  <2>. QED  BY <2>1, NatLessThanWellFounded, WFMin, Zenon
<1>2. ASSUME NEW j \in 0 .. m, j < first PROVE raw[j] >= Limit(n)
  <2>1. first \in Nat /\ j \in Nat /\ raw[j] \in Int /\ Limit(n) \in Int
    BY LimitFacts
  <2>2. <<j, first>> \in {ss \in Nat \X Nat : ss[1] < ss[2]}
    BY <1>2, <2>1
  <2>3. ~ (j \in accepted)
    BY <1>1, <2>2 DEF OpToRel
  <2>. QED  BY <2>1, <2>3
<1>3. DOMAIN raw = 0 .. m /\ first \in 0 .. m /\ raw[first] < Limit(n)
  OBVIOUS
<1>. HIDE DEF accepted
<1>4. Attempt(raw, n) \in 0 .. m /\ raw[Attempt(raw, n)] < Limit(n)
  BY <1>2, <1>3 DEF Attempt
<1>5. raw[Attempt(raw, n)] \in Int
  BY <1>4
<1>. QED  BY <1>4, <1>5, Division DEF Uniform

==============================================================================
