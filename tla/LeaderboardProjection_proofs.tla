-------------------- MODULE LeaderboardProjection_proofs --------------------
(***************************************************************************)
(* Theorems about LeaderboardProjection: a page or a rank is that of the   *)
(* board at one moment of the request, whatever happens to Redis; the      *)
(* pointer leads to a whole generation as long as nothing fails; and a     *)
(* projection of the current board is never turned down.                   *)
(*                                                                         *)
(* The argument.  A generation is built from one snapshot of the board and *)
(* never from a second one (Snapshots): its signed members and its players *)
(* are entries of a prefix of the board whose length is the count of its   *)
(* metadata.  A reader that passed the metadata knows that this length is  *)
(* the count it asked PostgreSQL for.  The rows it accepts then carry the  *)
(* ranks it looked for, and a rank names one entry (EntriesByRank).        *)
(***************************************************************************)
EXTENDS LeaderboardProjection, FiniteSetTheorems, SequenceTheorems, WellFoundedInduction, TLAPS

Prefix(n) == {board[i] : i \in 1 .. n}
EntryOf(S, s) == [score |-> s, rank |-> Position(S, s)]
Entries(S) == {EntryOf(S, s) : s \in S}

\* The entry of the best score of player p.
IsBest(S, p, x) ==
  \E s \in S : /\ PlayerOf[s] = p /\ x = EntryOf(S, s)
               /\ \A q \in S : PlayerOf[q] = p => s <= q

Validated == {"cardinality", "members", "rank"}
Unpublished == {"scores", "revision", "publish"}
Building == {"revision", "publish", "verify"}

\* Generation g holds nothing but what the board of length n gave.
Holds(g, n) ==
  /\ \A i \in DOMAIN redis.members[g] :
       redis.members[g][i] # Garbage => redis.members[g][i] \in Entries(Prefix(n))
  /\ \A p \in Players :
       redis.players[g][p] \in {None, Garbage} \/ IsBest(Prefix(n), p, redis.players[g][p])
  /\ redis.metadata[g] \notin {None, Garbage} => redis.metadata[g].count = n
  /\ \A w \in Rebuilders : rebuild[w].generation = g /\ rebuild[w].step \in Building =>
       rebuild[w].scores = Ordered(Prefix(n))
  /\ \A r \in Readers : read[r].generation = g /\ read[r].step \in Validated =>
       /\ read[r].count = n
       /\ read[r].step = "rank" =>
            read[r].rank = Garbage \/ IsBest(Prefix(n), read[r].ask.player, read[r].rank)

Snapshots == \A g \in Generations : \E n \in 0 .. Len(board) : Holds(g, n)

\* A generation that is not published yet has no keys and no reader.
Blank(g) ==
  /\ redis.members[g] = <<>> /\ redis.metadata[g] = None
  /\ \A p \in Players : redis.players[g][p] = None
  /\ \A r \in Readers : read[r].generation = g => read[r].step \notin Validated

OwnGenerations ==
  /\ \A g \in Generations : g > made => Blank(g)
  /\ \A w \in Rebuilders : rebuild[w].step \in Unpublished => Blank(rebuild[w].generation)
  /\ \A w \in Rebuilders : rebuild[w].step # "idle" => rebuild[w].generation <= made
  /\ \A v, w \in Rebuilders :
       v # w /\ rebuild[v].step # "idle" /\ rebuild[w].step # "idle" =>
         rebuild[v].generation # rebuild[w].generation

\* A score is committed once, and a count that was read can only grow.
CountsBehind ==
  /\ \A i, j \in DOMAIN board : board[i] = board[j] => i = j
  /\ \A r \in Readers : read[r].step # "idle" => read[r].count <= Len(board)

IInv == TypeOK /\ Snapshots /\ OwnGenerations /\ CountsBehind

------------------------------------------------------------------------------
(***************************************************************************)
(* Ranking.                                                                *)
(***************************************************************************)
LEMMA LeastNat ==
  ASSUME NEW S, S \subseteq Nat, S # {}
  PROVE  \E m \in S : \A x \in S : m <= x
  <1>1. PICK m \in S : \A y \in S : ~ (<<y, m>> \in OpToRel(<, Nat))
    BY NatLessThanWellFounded, WFMin, Zenon
  <1>2. ASSUME NEW y \in S PROVE m <= y
    <2>1. y \in Nat /\ m \in Nat
      OBVIOUS
    <2>2. ~ (<<y, m>> \in {ss \in Nat \X Nat : ss[1] < ss[2]})
      BY <1>1 DEF OpToRel
    <2> QED
      BY <2>1, <2>2
  <1> QED
    BY <1>2

\* A finite set of numbers is ranked from one, and smaller numbers come first.
LEMMA PositionType ==
  ASSUME NEW S, IsFiniteSet(S), S \subseteq Nat, NEW s \in S
  PROVE  Cardinality(S) \in Nat /\ Position(S, s) \in 1 .. Cardinality(S)
  <1> DEFINE B == {q \in S : q < s}
  <1>1. IsFiniteSet(B) /\ Cardinality(B) <= Cardinality(S) /\ (Cardinality(S) = Cardinality(B) => S = B)
    BY FS_Subset
  <1>2. s \in Nat /\ s \notin B
    OBVIOUS
  <1>3. Cardinality(B) \in Nat /\ Cardinality(S) \in Nat
    BY <1>1, FS_CardinalityType
  <1>4. Cardinality(B) # Cardinality(S)
    BY <1>1, <1>2
  <1> QED
    BY <1>1, <1>3, <1>4 DEF Position

LEMMA PositionStrict ==
  ASSUME NEW S, IsFiniteSet(S), S \subseteq Nat, NEW q \in S, NEW s \in S, q < s
  PROVE  Position(S, q) < Position(S, s)
  <1> DEFINE A == {x \in S : x < q}
             B == {x \in S : x < s}
  <1>0. q \in Nat /\ s \in Nat /\ \A x \in S : x \in Nat
    OBVIOUS
  <1>1. A \subseteq B /\ q \in B /\ q \notin A
    <2>1. \A x \in A : x \in S /\ x \in Nat /\ x < q
      BY <1>0
    <2>2. \A x \in A : x < s
      BY <1>0, <2>1
    <2>3. q \in B /\ ~(q < q)
      BY <1>0
    <2> QED
      BY <2>1, <2>2, <2>3
  <1>2. IsFiniteSet(A) /\ IsFiniteSet(B)
    BY FS_Subset
  <1>3. Cardinality(A) <= Cardinality(B) /\ (Cardinality(B) = Cardinality(A) => B = A)
    BY <1>1, <1>2, FS_Subset
  <1>4. Cardinality(A) \in Nat /\ Cardinality(B) \in Nat
    BY <1>2, FS_CardinalityType
  <1> QED
    BY <1>1, <1>3, <1>4 DEF Position

LEMMA PositionInjective ==
  ASSUME NEW S, IsFiniteSet(S), S \subseteq Nat, NEW q \in S, NEW s \in S,
         Position(S, q) = Position(S, s)
  PROVE  q = s
  <1>1. q \in Nat /\ s \in Nat
    OBVIOUS
  <1>0. Position(S, q) \in Nat
    <2>1. Cardinality(S) \in Nat /\ Position(S, q) \in 1 .. Cardinality(S)
      BY PositionType
    <2> QED
      BY <2>1
  <1>2. ~(q < s)
    <2>1. q < s => Position(S, q) < Position(S, s)
      BY PositionStrict
    <2> QED
      BY <1>0, <2>1
  <1>3. ~(s < q)
    <2>1. s < q => Position(S, s) < Position(S, q)
      BY PositionStrict
    <2> QED
      BY <1>0, <2>1
  <1> QED
    BY <1>1, <1>2, <1>3

\* Every rank up to the number of scores is taken.
LEMMA PositionOnto ==
  ASSUME NEW S, IsFiniteSet(S), S \subseteq Nat, NEW k \in 1 .. Cardinality(S)
  PROVE  \E s \in S : Position(S, s) = k
  <1> DEFINE T == 1 .. Cardinality(S)
             f == [s \in S |-> Position(S, s)]
  <1>1. Cardinality(S) \in Nat
    BY FS_CardinalityType
  <1>2. IsFiniteSet(T) /\ Cardinality(T) = Cardinality(S)
    BY <1>1, FS_Interval
  <1>3. f \in [S -> T]
    BY PositionType
  <1>4. \A q, s \in S : f[q] = f[s] => q = s
    BY PositionInjective
  <1>5. f \in Injection(S, T)
    BY <1>3, <1>4 DEF Injection, IsInjective
  <1>6. f \in Surjection(S, T)
    BY <1>2, <1>5, FS_Injection
  <1> QED
    BY <1>6 DEF Surjection

\* Ordered lists the set by rank.
LEMMA OrderedFacts ==
  ASSUME NEW S, IsFiniteSet(S), S \subseteq Nat
  PROVE  /\ Cardinality(S) \in Nat
         /\ Ordered(S) \in Seq(S) /\ Len(Ordered(S)) = Cardinality(S)
         /\ DOMAIN Ordered(S) = 1 .. Cardinality(S)
         /\ \A k \in 1 .. Cardinality(S) :
              Ordered(S)[k] \in S /\ Position(S, Ordered(S)[k]) = k
         /\ \A s \in S : Position(S, s) \in 1 .. Cardinality(S) /\ Ordered(S)[Position(S, s)] = s
  <1>1. Cardinality(S) \in Nat
    BY FS_CardinalityType
  <1>2. \A k \in 1 .. Cardinality(S) : Ordered(S)[k] \in S /\ Position(S, Ordered(S)[k]) = k
    BY PositionOnto DEF Ordered
  <1>3. Ordered(S) \in [1 .. Cardinality(S) -> S]
    BY <1>2 DEF Ordered
  <1>4. Ordered(S) \in Seq(S) /\ Len(Ordered(S)) = Cardinality(S)
    BY <1>1, <1>3
  <1>5. ASSUME NEW s \in S
        PROVE  Position(S, s) \in 1 .. Cardinality(S) /\ Ordered(S)[Position(S, s)] = s
    <2>1. Position(S, s) \in 1 .. Cardinality(S)
      BY PositionType
    <2>2. Ordered(S)[Position(S, s)] \in S
          /\ Position(S, Ordered(S)[Position(S, s)]) = Position(S, s)
      BY <1>2, <2>1
    <2> QED
      BY <2>1, <2>2, PositionInjective
  <1> QED
    BY <1>1, <1>2, <1>3, <1>4, <1>5

\* The members of a listing are the entries of the set, each at its rank.
LEMMA MembersFacts ==
  ASSUME NEW S, IsFiniteSet(S), S \subseteq Nat
  PROVE  /\ DOMAIN Members(Ordered(S)) = 1 .. Cardinality(S)
         /\ \A k \in 1 .. Cardinality(S) :
              /\ Members(Ordered(S))[k] \in Entries(S)
              /\ Members(Ordered(S))[k].rank = k
              /\ Members(Ordered(S))[k].score = Ordered(S)[k]
  <1>1. ASSUME NEW k \in 1 .. Cardinality(S)
        PROVE  Members(Ordered(S))[k] = EntryOf(S, Ordered(S)[k]) /\ Ordered(S)[k] \in S
    BY OrderedFacts DEF Members, EntryOf
  <1> QED
    BY <1>1, OrderedFacts DEF Entries, EntryOf, Members

\* The first member of a player is that of its best score.
LEMMA BestFacts ==
  ASSUME NEW S, IsFiniteSet(S), S \subseteq Nat, NEW p \in Players
  PROVE  \/ BestMembers(Ordered(S))[p] = None /\ \A s \in S : PlayerOf[s] # p
         \/ IsBest(S, p, BestMembers(Ordered(S))[p])
  <1> DEFINE q == Ordered(S)
  <1>q. /\ Cardinality(S) \in Nat /\ DOMAIN q = 1 .. Cardinality(S)
        /\ \A k \in 1 .. Cardinality(S) : q[k] \in S /\ Position(S, q[k]) = k
        /\ \A s \in S : Position(S, s) \in 1 .. Cardinality(S) /\ q[Position(S, s)] = s
    BY OrderedFacts
  <1> DEFINE own == {k \in DOMAIN q : PlayerOf[q[k]] = p}
             best == CHOOSE k \in own : \A j \in own : k <= j
  <1>0. BestMembers(q)[p] = IF own = {} THEN None ELSE Members(q)[best]
    BY DEF BestMembers
  <1>1. CASE own = {}
    <2>1. \A s \in S : PlayerOf[s] # p
      BY <1>1, <1>q
    <2> QED
      BY <1>0, <1>1, <2>1
  <1>2. CASE own # {}
    <2>1. own \subseteq Nat
      BY <1>q
    <2>2. best \in own /\ \A j \in own : best <= j
      BY <1>2, <2>1, LeastNat
    <2>3. best \in 1 .. Cardinality(S) /\ q[best] \in S /\ PlayerOf[q[best]] = p
          /\ Position(S, q[best]) = best
      BY <2>2, <1>q
    <2>4. Members(q)[best] = EntryOf(S, q[best])
      BY <2>3, <1>q DEF Members, EntryOf
    <2>5. ASSUME NEW s \in S, PlayerOf[s] = p PROVE q[best] <= s
      <3>1. Position(S, s) \in own /\ Position(S, s) \in Nat
        BY <2>5, <1>q
      <3>2. best <= Position(S, s) /\ best \in Nat
        BY <2>2, <2>3, <3>1
      <3>4. s \in Nat
        OBVIOUS
      <3>5. q[best] \in Nat
        BY <2>3
      <3>3. s < q[best] => Position(S, s) < best
        BY <2>3, PositionStrict
      <3> QED
        BY <3>1, <3>2, <3>3, <3>4, <3>5
    <2> QED
      BY <1>0, <1>2, <2>3, <2>4, <2>5 DEF IsBest
  <1> QED
    BY <1>1, <1>2

------------------------------------------------------------------------------
(***************************************************************************)
(* What a page and a rank are.                                             *)
(***************************************************************************)
LEMMA EntriesByRank ==
  ASSUME NEW S, IsFiniteSet(S), S \subseteq Nat, NEW x \in Entries(S), NEW y \in Entries(S),
         x.rank = y.rank
  PROVE  x = y
  <1>1. PICK q \in S : x = EntryOf(S, q)
    BY DEF Entries
  <1>2. PICK s \in S : y = EntryOf(S, s)
    BY DEF Entries
  <1>3. Position(S, q) = Position(S, s)
    BY <1>1, <1>2 DEF EntryOf
  <1>4. q = s
    BY <1>3, PositionInjective
  <1> QED
    BY <1>1, <1>2, <1>4

\* The board counts as the projection does.
LEMMA SameCount == \A S : Board!Cardinality(S) = Cardinality(S)
  BY DEF Board!Cardinality, Cardinality, Board!IsFiniteSet, IsFiniteSet

\* A listing whose rows in the window are entries at their rank gives the page of
\* the set, wherever else it is damaged.
LEMMA PageIsAnswer ==
  ASSUME NEW S, IsFiniteSet(S), S \subseteq Nat, NEW m, NEW ask \in Asks, ask.kind = "page",
         Rows(m, ask) = {k \in 1 .. Cardinality(S) :
                           ask.offset < k /\ k <= ask.offset + ask.limit + 1},
         \A k \in Rows(m, ask) : m[k] \in Entries(S) /\ m[k].rank = k
  PROVE  Page(m, ask) = Board!Answer(S, ask)
  <1> DEFINE last == ask.offset + ask.limit
             W == {j \in Rows(m, ask) : j <= last}
             E == {e \in Entries(S) : ask.offset + 1 <= e.rank /\ e.rank <= last}
  <1>0. ask.offset \in Nat /\ ask.limit \in Nat /\ ask.limit # 0 /\ Cardinality(S) \in Nat
    BY AskAssumption, FS_CardinalityType
  <1>1. ASSUME NEW k \in W PROVE m[k] \in E
    <2>1. k \in Nat /\ ask.offset < k /\ k <= last
      BY <1>0
    <2>2. m[k] \in Entries(S) /\ m[k].rank = k
      OBVIOUS
    <2> QED
      BY <1>0, <2>1, <2>2
  <1>2. ASSUME NEW e \in E PROVE \E k \in W : m[k] = e
    <2>1. PICK s \in S : e = EntryOf(S, s)
      BY DEF Entries
    <2>2. e.rank = Position(S, s) /\ e.rank \in 1 .. Cardinality(S)
      BY <2>1, PositionType DEF EntryOf
    <2>3. PICK k \in 1 .. Cardinality(S) : k = e.rank
      BY <2>2
    <2>4. ask.offset + 1 <= k /\ k <= last
      BY <2>3
    <2>5. k \in Rows(m, ask)
      BY <1>0, <2>4
    <2>6. m[k] \in Entries(S) /\ m[k].rank = k
      BY <2>5
    <2>7. m[k] = e
      BY <2>3, <2>6, EntriesByRank
    <2> QED
      BY <2>4, <2>5, <2>7
  <1>3. {m[k] : k \in W} = E
    BY <1>1, <1>2
  <1>4. last + 1 \in Rows(m, ask) <=> Cardinality(S) > last
    BY <1>0
  <1>5. Page(m, ask) = [items |-> {m[k] : k \in W}, more |-> last + 1 \in Rows(m, ask)]
    BY DEF Page
  <1>6. Board!Answer(S, ask) = [items |-> E, more |-> Cardinality(S) > last]
    BY SameCount, Zenon DEF Board!Answer, Board!Entry, Entries, EntryOf, Position
  <1>7. (last + 1 \in Rows(m, ask)) = (Cardinality(S) > last)
    BY <1>4
  <1> QED
    BY <1>3, <1>5, <1>6, <1>7

\* The entry of a player's best score is its rank.
LEMMA BestIsAnswer ==
  ASSUME NEW S, S \subseteq Nat, NEW ask \in Asks, ask.kind = "rank", NEW x,
         IsBest(S, ask.player, x)
  PROVE  [items |-> {x}, more |-> FALSE] = Board!Answer(S, ask)
  <1> DEFINE own == {s \in S : PlayerOf[s] = ask.player}
             best == {b \in own : \A q \in own : b <= q}
  <1>1. PICK s \in S : /\ PlayerOf[s] = ask.player /\ x = EntryOf(S, s)
                       /\ \A q \in S : PlayerOf[q] = ask.player => s <= q
    BY DEF IsBest
  <1>2. s \in best
    BY <1>1
  <1>3. ASSUME NEW b \in best PROVE b = s
    <2>1. b <= s /\ s <= b
      BY <1>1, <1>2
    <2>2. b \in Nat /\ s \in Nat
      OBVIOUS
    <2> QED
      BY <2>1, <2>2
  <1>4. best = {s}
    BY <1>2, <1>3
  <1>5. Board!Answer(S, ask) = [items |-> {EntryOf(S, b) : b \in best}, more |-> FALSE]
    BY SameCount, Zenon DEF Board!Answer, Board!Entry, EntryOf, Position
  <1> QED
    BY <1>1, <1>4, <1>5

\* The query for the rank of a player.
LEMMA OwnBestIsAnswer ==
  ASSUME NEW S, IsFiniteSet(S), S \subseteq Nat, NEW ask \in Asks, ask.kind = "rank"
  PROVE  [items |-> OwnBest(Members(Ordered(S)), ask.player), more |-> FALSE] = Board!Answer(S, ask)
  <1> DEFINE q == Members(Ordered(S))
             own == {k \in DOMAIN q : PlayerOf[q[k].score] = ask.player}
             first == {b \in own : \A j \in own : b <= j}
  <1>q. /\ Cardinality(S) \in Nat /\ DOMAIN q = 1 .. Cardinality(S)
        /\ \A k \in 1 .. Cardinality(S) : q[k] = EntryOf(S, q[k].score) /\ q[k].score \in S
                                          /\ Position(S, q[k].score) = k
        /\ \A s \in S : Position(S, s) \in 1 .. Cardinality(S) /\ q[Position(S, s)].score = s
    <2>1. Cardinality(S) \in Nat /\ DOMAIN q = 1 .. Cardinality(S)
      BY OrderedFacts, MembersFacts
    <2>2. ASSUME NEW k \in 1 .. Cardinality(S)
          PROVE  q[k] = [score |-> Ordered(S)[k], rank |-> k]
      BY OrderedFacts DEF Members
    <2>3. ASSUME NEW k \in 1 .. Cardinality(S)
          PROVE  q[k] = EntryOf(S, q[k].score) /\ q[k].score \in S /\ Position(S, q[k].score) = k
      <3>1. q[k].score = Ordered(S)[k]
        BY MembersFacts
      <3>2. q[k].score \in S /\ Position(S, q[k].score) = k
        BY <3>1, OrderedFacts
      <3> QED
        BY <2>2, <3>1, <3>2 DEF EntryOf
    <2>4. ASSUME NEW s \in S
          PROVE  Position(S, s) \in 1 .. Cardinality(S) /\ q[Position(S, s)].score = s
      <3>1. Position(S, s) \in 1 .. Cardinality(S) /\ Ordered(S)[Position(S, s)] = s
        BY OrderedFacts
      <3>2. q[Position(S, s)].score = Ordered(S)[Position(S, s)]
        BY <3>1, MembersFacts
      <3> QED
        BY <3>1, <3>2
    <2> QED
      BY <2>1, <2>3, <2>4
  <1>0. OwnBest(q, ask.player) = {q[k] : k \in first}
    BY DEF OwnBest
  <1>1. CASE own = {}
    <2>1. \A s \in S : PlayerOf[s] # ask.player
      BY <1>1, <1>q
    <2>2. OwnBest(q, ask.player) = {}
      BY <1>0, <1>1
    <2>3. Board!Answer(S, ask) = [items |-> {}, more |-> FALSE]
      BY <2>1 DEF Board!Answer
    <2> QED
      BY <2>2, <2>3
  <1>2. CASE own # {}
    <2>1. own \subseteq Nat
      BY <1>q
    <2>2. PICK b \in own : \A j \in own : b <= j
      BY <1>2, <2>1, LeastNat
    <2>3. first = {b}
      <3>1. ASSUME NEW j \in first PROVE j = b
        <4>1. j <= b /\ b <= j
          BY <2>2
        <4>2. j \in Nat /\ b \in Nat
          BY <2>1
        <4> QED
          BY <4>1, <4>2
      <3> QED
        BY <2>2, <3>1
    <2>4. OwnBest(q, ask.player) = {q[b]}
      BY <1>0, <2>3
    <2>5. b \in 1 .. Cardinality(S) /\ PlayerOf[q[b].score] = ask.player
      BY <2>2, <1>q
    <2>6. ASSUME NEW s \in S, PlayerOf[s] = ask.player PROVE q[b].score <= s
      <3>1. Position(S, s) \in own /\ Position(S, s) \in Nat /\ b \in Nat
        BY <2>5, <2>6, <1>q
      <3>2. b <= Position(S, s)
        BY <2>2, <3>1
      <3>3. s \in Nat
        OBVIOUS
      <3>4. q[b].score \in S /\ Position(S, q[b].score) = b
        BY <2>5, <1>q
      <3>5. q[b].score \in Nat
        BY <3>4
      <3>6. s < q[b].score => Position(S, s) < b
        BY <3>4, PositionStrict
      <3> QED
        BY <3>1, <3>2, <3>3, <3>5, <3>6
    <2>7. IsBest(S, ask.player, q[b])
      BY <2>5, <2>6, <1>q DEF IsBest
    <2>8. [items |-> {q[b]}, more |-> FALSE] = Board!Answer(S, ask)
      BY <2>7, BestIsAnswer
    <2> QED
      BY <2>4, <2>8
  <1> QED
    BY <1>1, <1>2

------------------------------------------------------------------------------
(***************************************************************************)
(* Types.                                                                  *)
(***************************************************************************)
LEMMA NullIsNot ==
  /\ None # Garbage /\ None \notin Member /\ Garbage \notin Member
  /\ None \notin Metadata /\ Garbage \notin Metadata /\ None \notin Nat
  BY NullAssumption

LEMMA PrefixFacts ==
  ASSUME TypeOK, CountsBehind, NEW n \in 0 .. Len(board)
  PROVE  /\ Prefix(n) \subseteq Scores /\ Prefix(n) \subseteq Nat
         /\ IsFiniteSet(Prefix(n)) /\ Cardinality(Prefix(n)) = n
  <1> DEFINE f == [i \in 1 .. n |-> board[i]]
  <1>1. board \in Seq(Scores) /\ Len(board) \in Nat /\ n \in Nat /\ DOMAIN board = 1 .. Len(board)
    BY DEF TypeOK
  <1>2. \A i \in 1 .. n : i \in DOMAIN board /\ board[i] \in Scores
    BY <1>1
  <1>3. Prefix(n) \subseteq Scores
    BY <1>2 DEF Prefix
  <1>4. IsFiniteSet(1 .. n) /\ Cardinality(1 .. n) = n
    BY <1>1, FS_Interval
  <1>5. f \in Surjection(1 .. n, Prefix(n))
    BY DEF Prefix, Surjection
  <1>6. f \in Injection(1 .. n, Prefix(n))
    BY <1>2 DEF Prefix, Injection, IsInjective, CountsBehind
  <1>7. IsFiniteSet(Prefix(n)) /\ Cardinality(Prefix(n)) = Cardinality(1 .. n)
    BY <1>4, <1>5, <1>6, FS_Surjection
  <1> QED
    BY <1>3, <1>4, <1>7, ScoreAssumption

LEMMA WholeBoard ==
  ASSUME TypeOK
  PROVE  Committed = Prefix(Len(board)) /\ Len(board) \in 0 .. Len(board)
  BY DEF TypeOK, Committed, Prefix

\* What is read off the board is well typed.
LEMMA ListingType ==
  ASSUME NEW S, IsFiniteSet(S), S \subseteq Scores
  PROVE  /\ Ordered(S) \in Seq(Scores)
         /\ Members(Ordered(S)) \in Seq(Member)
         /\ BestMembers(Ordered(S)) \in [Players -> Member \cup {None}]
         /\ Len(Members(Ordered(S))) = Cardinality(S)
  <1>0. S \subseteq Nat
    BY ScoreAssumption
  <1>1. Ordered(S) \in Seq(S) /\ Len(Ordered(S)) = Cardinality(S) /\ Cardinality(S) \in Nat
        /\ DOMAIN Ordered(S) = 1 .. Cardinality(S)
    BY <1>0, OrderedFacts
  <1>2. \A k \in 1 .. Cardinality(S) : Ordered(S)[k] \in Scores
    BY <1>0, OrderedFacts
  <1>3. Members(Ordered(S)) \in [1 .. Cardinality(S) -> Member]
    BY <1>1, <1>2 DEF Members, Member
  <1>4. Members(Ordered(S)) \in Seq(Member) /\ Len(Members(Ordered(S))) = Cardinality(S)
    BY <1>1, <1>3
  <1>5. ASSUME NEW p \in Players PROVE BestMembers(Ordered(S))[p] \in Member \cup {None}
    <2>1. CASE BestMembers(Ordered(S))[p] = None
      BY <2>1
    <2>2. CASE IsBest(S, p, BestMembers(Ordered(S))[p])
      <3>1. PICK s \in S : BestMembers(Ordered(S))[p] = EntryOf(S, s)
        BY <2>2 DEF IsBest
      <3>2. Position(S, s) \in Nat
        <4>1. Position(S, s) \in 1 .. Cardinality(S)
          BY <1>0, PositionType
        <4> QED
          BY <1>1, <4>1
      <3> QED
        BY <3>1, <3>2 DEF EntryOf, Member
    <2> QED
      BY <1>0, <2>1, <2>2, BestFacts
  <1>6. BestMembers(Ordered(S)) = [p \in Players |-> BestMembers(Ordered(S))[p]]
    BY DEF BestMembers
  <1> QED
    BY <1>1, <1>2, <1>4, <1>5, <1>6

LEMMA DamagedSeq ==
  ASSUME NEW A, NEW m \in Seq(A), NEW x \in A, NEW i \in 1 .. Len(m) + 1
  PROVE  /\ InsertAt(m, i, x) \in Seq(A)
         /\ i \in DOMAIN m => RemoveAt(m, i) \in Seq(A) /\ ReplaceAt(m, i, x) \in Seq(A)
  <1>1. SubSeq(m, 1, i - 1) \in Seq(A) /\ SubSeq(m, i, Len(m)) \in Seq(A)
        /\ SubSeq(m, i + 1, Len(m)) \in Seq(A) /\ <<x>> \in Seq(A)
    BY SubSeqProperties
  <1>2. InsertAt(m, i, x) \in Seq(A) /\ RemoveAt(m, i) \in Seq(A)
    BY <1>1, ConcatProperties DEF InsertAt, RemoveAt
  <1>3. i \in DOMAIN m => ReplaceAt(m, i, x) \in Seq(A)
    BY DEF ReplaceAt
  <1> QED
    BY <1>2, <1>3

\* A rebuild and a request as TypeOK wants them.
RebuildOK(b) ==
  /\ b \in Rebuild
  /\ b.step # "idle" => b.generation \in Generations
  /\ b.step \in {"publish", "verify"} => b.revision \in Nat
  /\ b.step = "retire" => b.previous \in Generations

ReadOK(t) ==
  /\ t \in Read
  /\ t.step # "idle" => t.ask \in Asks /\ t.count \in Nat /\ t.answer = None
  /\ t.step \in {"metadata", "cardinality", "members", "rank"} => t.generation \in Generations
  /\ t.step \in {"pointer", "metadata", "cardinality", "members", "rank"} => t.revision \in Nat
  /\ t.step = "rank" => t.ask.kind = "rank" /\ t.rank # None

LEMMA Typed ==
  TypeOK <=> /\ board \in Seq(Scores) /\ redis \in Keys /\ made \in 0 .. MaxRebuilds
             /\ faults \in 0 .. MaxFaults
             /\ rebuild \in [Rebuilders -> Rebuild] /\ \A w \in Rebuilders : RebuildOK(rebuild[w])
             /\ read \in [Readers -> Read] /\ \A r \in Readers : ReadOK(read[r])
  BY DEF TypeOK, RebuildOK, ReadOK

LEMMA RebuildUpdate ==
  ASSUME TypeOK, NEW w \in Rebuilders, NEW b, RebuildOK(b), rebuild' = [rebuild EXCEPT ![w] = b],
         board' \in Seq(Scores), redis' \in Keys, made' \in 0 .. MaxRebuilds,
         faults' \in 0 .. MaxFaults, read' = read
  PROVE  TypeOK'
  <1>1. rebuild' \in [Rebuilders -> Rebuild] /\ \A v \in Rebuilders : RebuildOK(rebuild'[v])
    BY Typed DEF RebuildOK
  <1>2. read' \in [Readers -> Read] /\ \A r \in Readers : ReadOK(read'[r])
    BY Typed
  <1> QED
    BY <1>1, <1>2 DEF TypeOK, RebuildOK, ReadOK

LEMMA ReadUpdate ==
  ASSUME TypeOK, NEW r \in Readers, NEW t, ReadOK(t), read' = [read EXCEPT ![r] = t],
         UNCHANGED <<board, redis, made, rebuild>>, faults' \in 0 .. MaxFaults
  PROVE  TypeOK'
  <1>1. read' \in [Readers -> Read] /\ \A q \in Readers : ReadOK(read'[q])
    BY Typed DEF ReadOK
  <1>2. rebuild' \in [Rebuilders -> Rebuild] /\ \A v \in Rebuilders : RebuildOK(rebuild'[v])
    BY Typed
  <1>3. board' \in Seq(Scores) /\ redis' \in Keys /\ made' \in 0 .. MaxRebuilds
    BY Typed
  <1> QED
    BY <1>1, <1>2, <1>3 DEF TypeOK, RebuildOK, ReadOK

\* What a failure or a deletion can do to the keys of generation g.
Harmed(g) ==
  /\ \A i \in DOMAIN redis'.members[g] :
       \/ redis'.members[g][i] = Garbage
       \/ \E j \in DOMAIN redis.members[g] : redis'.members[g][i] = redis.members[g][j]
  /\ redis.members[g] = <<>> => redis'.members[g] = <<>>
  /\ \A p \in Players :
       \/ redis'.players[g][p] \in {None, redis.players[g][p]}
       \/ redis'.players[g][p] = Garbage /\ redis.players[g][p] # None
  /\ \/ redis'.metadata[g] \in {None, redis.metadata[g]}
     \/ redis'.metadata[g] = Garbage /\ redis.metadata[g] # None

HarmOnly == redis' \in Keys /\ \A g \in Generations : Harmed(g)

LEMMA DeletedHarm ==
  ASSUME TypeOK, NEW g \in Generations, redis' = Deleted(g)
  PROVE  HarmOnly
  <1>1. redis \in Keys
    BY DEF TypeOK
  <1>2. redis' \in Keys
    <2>0. redis' = [pointer |-> redis.pointer, members |-> redis'.members,
                    players |-> redis'.players, metadata |-> redis'.metadata,
                    expiring |-> redis'.expiring]
      BY <1>1 DEF Deleted, Keys
    <2>4. redis.pointer \in Generations \cup {None}
      BY <1>1 DEF Keys
    <2>1. /\ redis'.members = [redis.members EXCEPT ![g] = <<>>]
          /\ redis'.players = [redis.players EXCEPT ![g] = [p \in Players |-> None]]
          /\ redis'.metadata = [redis.metadata EXCEPT ![g] = None]
          /\ redis'.expiring = redis.expiring \ {g}
      BY <1>1 DEF Deleted, Keys
    <2>2. <<>> \in Seq(Member \cup {Garbage})
      BY EmptySeq
    <2>3. /\ redis'.members \in [Generations -> Seq(Member \cup {Garbage})]
          /\ redis'.players \in [Generations -> [Players -> Member \cup {Garbage, None}]]
          /\ redis'.metadata \in [Generations -> Metadata \cup {Garbage, None}]
          /\ redis'.expiring \in SUBSET Generations
      BY <1>1, <2>1, <2>2 DEF Keys
    <2> QED
      BY <2>0, <2>3, <2>4 DEF Keys
  <1>3. ASSUME NEW h \in Generations PROVE Harmed(h)
    <2>1. redis'.members[h] = IF h = g THEN <<>> ELSE redis.members[h]
      BY <1>1 DEF Deleted, Keys
    <2>2. \A p \in Players : redis'.players[h][p] = IF h = g THEN None ELSE redis.players[h][p]
      BY <1>1 DEF Deleted, Keys
    <2>3. redis'.metadata[h] = IF h = g THEN None ELSE redis.metadata[h]
      BY <1>1 DEF Deleted, Keys
    <2> QED
      BY <2>1, <2>2, <2>3 DEF Harmed
  <1> QED
    BY <1>2, <1>3 DEF HarmOnly

LEMMA FaultHarm ==
  ASSUME TypeOK,
         \/ \E g \in Generations : DamageMembers(g) \/ DamageMetadata(g) \/ DamagePlayers(g)
         \/ DamagePointer \/ Flush
  PROVE  HarmOnly /\ UNCHANGED <<board, made, rebuild, read>> /\ faults' \in 0 .. MaxFaults
  <1>0. redis \in Keys /\ faults \in 0 .. MaxFaults /\ made \in 0 .. MaxRebuilds
        /\ MaxFaults \in Nat /\ MaxRebuilds \in Nat
    BY BoundAssumption DEF TypeOK
  <1>1. ASSUME NEW g \in Generations, DamageMembers(g)
        PROVE  HarmOnly /\ UNCHANGED <<board, made, rebuild, read>> /\ faults' \in 0 .. MaxFaults
    <2> DEFINE m == redis.members[g]
               A == {m[i] : i \in DOMAIN m} \cup {Garbage}
    <2>1. m \in Seq(A) /\ m \in Seq(Member \cup {Garbage})
      <3>1. m \in Seq(Member \cup {Garbage})
        BY <1>0 DEF Keys
      <3>2. Len(m) \in Nat /\ DOMAIN m = 1 .. Len(m) /\ m \in [1 .. Len(m) -> Member \cup {Garbage}]
        BY <3>1
      <3>3. m \in [1 .. Len(m) -> A]
        BY <3>2
      <3> QED
        BY <3>1, <3>2, <3>3
    <2>2. PICK n : /\ Fault([redis EXCEPT !.members[g] = n])
                   /\ n \in Seq(A) /\ n \in Seq(Member \cup {Garbage}) /\ m # <<>>
      <3>1. CASE \E i \in DOMAIN m : Fault([redis EXCEPT !.members[g] = RemoveAt(m, i)])
        <4>1. PICK i \in DOMAIN m : Fault([redis EXCEPT !.members[g] = RemoveAt(m, i)])
          BY <3>1
        <4>2. i \in 1 .. Len(m) + 1 /\ m # <<>>
          BY <2>1, <4>1
        <4>3. RemoveAt(m, i) \in Seq(A) /\ RemoveAt(m, i) \in Seq(Member \cup {Garbage})
          BY <2>1, <4>1, <4>2, DamagedSeq
        <4> QED
          BY <4>1, <4>2, <4>3
      <3>2. CASE \E i \in 1 .. Len(m) + 1 :
                   m # <<>> /\ Fault([redis EXCEPT !.members[g] = InsertAt(m, i, Garbage)])
        <4>1. PICK i \in 1 .. Len(m) + 1 :
                m # <<>> /\ Fault([redis EXCEPT !.members[g] = InsertAt(m, i, Garbage)])
          BY <3>2
        <4>2. Garbage \in A /\ Garbage \in Member \cup {Garbage}
          OBVIOUS
        <4>3. InsertAt(m, i, Garbage) \in Seq(A) /\ InsertAt(m, i, Garbage) \in Seq(Member \cup {Garbage})
          BY <2>1, <4>2, DamagedSeq
        <4> QED
          BY <4>1, <4>3
      <3>3. CASE \E i \in DOMAIN m : Fault([redis EXCEPT !.members[g] = ReplaceAt(m, i, Garbage)])
        <4>1. PICK i \in DOMAIN m : Fault([redis EXCEPT !.members[g] = ReplaceAt(m, i, Garbage)])
          BY <3>3
        <4>2. i \in 1 .. Len(m) + 1 /\ m # <<>>
          BY <2>1, <4>1
        <4>4. Garbage \in A /\ Garbage \in Member \cup {Garbage}
          OBVIOUS
        <4>3. ReplaceAt(m, i, Garbage) \in Seq(A) /\ ReplaceAt(m, i, Garbage) \in Seq(Member \cup {Garbage})
          BY <2>1, <4>1, <4>2, <4>4, DamagedSeq
        <4> QED
          BY <4>1, <4>2, <4>3
      <3> QED
        BY <1>1, <3>1, <3>2, <3>3 DEF DamageMembers
    <2>3. redis' = [redis EXCEPT !.members[g] = n]
      BY <2>2 DEF Fault
    <2>4. redis' \in Keys
      BY <1>0, <2>2, <2>3 DEF Keys
    <2>5. ASSUME NEW h \in Generations PROVE Harmed(h)
      <3>1. redis'.members[h] = (IF h = g THEN n ELSE redis.members[h])
            /\ redis'.players[h] = redis.players[h] /\ redis'.metadata[h] = redis.metadata[h]
        BY <1>0, <2>3 DEF Keys
      <3>2. \A i \in DOMAIN n : n[i] \in A
        BY <2>2
      <3> QED
        BY <2>2, <3>1, <3>2 DEF Harmed
    <2> QED
      BY <1>0, <2>2, <2>4, <2>5 DEF HarmOnly, Fault
  <1>2. ASSUME NEW g \in Generations, DamageMetadata(g)
        PROVE  HarmOnly /\ UNCHANGED <<board, made, rebuild, read>> /\ faults' \in 0 .. MaxFaults
    <2>1. PICK x \in {Garbage, None} :
            redis.metadata[g] # None /\ Fault([redis EXCEPT !.metadata[g] = x])
      BY <1>2 DEF DamageMetadata
    <2>2. redis' \in Keys
      BY <1>0, <2>1 DEF Keys, Fault
    <2>3. ASSUME NEW h \in Generations PROVE Harmed(h)
      <3>1. redis'.metadata[h] = (IF h = g THEN x ELSE redis.metadata[h])
            /\ redis'.players[h] = redis.players[h] /\ redis'.members[h] = redis.members[h]
        BY <1>0, <2>1 DEF Keys, Fault
      <3> QED
        BY <2>1, <3>1 DEF Harmed
    <2> QED
      BY <1>0, <2>1, <2>2, <2>3 DEF HarmOnly, Fault
  <1>3. ASSUME NEW g \in Generations, DamagePlayers(g)
        PROVE  HarmOnly /\ UNCHANGED <<board, made, rebuild, read>> /\ faults' \in 0 .. MaxFaults
    <2>1. PICK p \in Players, x \in {Garbage, None} :
            redis.players[g][p] # None /\ Fault([redis EXCEPT !.players[g][p] = x])
      BY <1>3 DEF DamagePlayers
    <2>2. redis' \in Keys
      BY <1>0, <2>1 DEF Keys, Fault
    <2>3. ASSUME NEW h \in Generations PROVE Harmed(h)
      <3>1. /\ redis'.metadata[h] = redis.metadata[h] /\ redis'.members[h] = redis.members[h]
            /\ \A q \in Players :
                 redis'.players[h][q] = IF h = g /\ q = p THEN x ELSE redis.players[h][q]
        BY <1>0, <2>1 DEF Keys, Fault
      <3> QED
        BY <2>1, <3>1 DEF Harmed
    <2> QED
      BY <1>0, <2>1, <2>2, <2>3 DEF HarmOnly, Fault
  <1>4. CASE DamagePointer
    <2>1. PICK x \in Generations \cup {None} : Fault([redis EXCEPT !.pointer = x])
      BY <1>0, <1>4 DEF DamagePointer, Generations
    <2>2. redis' \in Keys
      BY <1>0, <2>1 DEF Keys, Fault
    <2>3. redis'.metadata = redis.metadata /\ redis'.members = redis.members
          /\ redis'.players = redis.players
      BY <1>0, <2>1 DEF Keys, Fault
    <2>4. ASSUME NEW h \in Generations PROVE Harmed(h)
      BY <2>3 DEF Harmed
    <2> QED
      BY <1>0, <2>1, <2>2, <2>4 DEF HarmOnly, Fault
  <1>5. CASE Flush
    <2>1. redis' = NoKeys
      BY <1>5 DEF Flush, Fault
    <2>2. redis' \in Keys
      BY <2>1 DEF NoKeys, Keys
    <2>3. ASSUME NEW h \in Generations PROVE Harmed(h)
      <3>1. redis'.metadata[h] = None /\ redis'.members[h] = <<>>
            /\ \A q \in Players : redis'.players[h][q] = None
        BY <2>1 DEF NoKeys
      <3> QED
        BY <3>1 DEF Harmed
    <2> QED
      BY <1>0, <1>5, <2>2, <2>3 DEF HarmOnly, Fault, Flush
  <1> QED
    BY <1>1, <1>2, <1>3, <1>4, <1>5

\* A build holds the listing of one prefix of the board.
LEMMA BuildFacts ==
  ASSUME IInv, NEW w \in Rebuilders, rebuild[w].step \in Building,
         NEW g \in Generations, rebuild[w].generation = g, NEW n \in 0 .. Len(board), Holds(g, n)
  PROVE  /\ rebuild[w].scores = Ordered(Prefix(n)) /\ Len(rebuild[w].scores) = n
         /\ Members(rebuild[w].scores) \in Seq(Member)
         /\ BestMembers(rebuild[w].scores) \in [Players -> Member \cup {None}]
  <1>1. rebuild[w].scores = Ordered(Prefix(n))
    BY DEF Holds
  <1>2. Prefix(n) \subseteq Scores /\ Prefix(n) \subseteq Nat
        /\ IsFiniteSet(Prefix(n)) /\ Cardinality(Prefix(n)) = n
    BY PrefixFacts DEF IInv
  <1>3. Len(Ordered(Prefix(n))) = n
    BY <1>2, OrderedFacts
  <1> QED
    BY <1>1, <1>2, <1>3, ListingType

LEMMA PublishedType ==
  ASSUME IInv, NEW w \in Rebuilders, rebuild[w].step = "publish", redis' = Published(rebuild[w])
  PROVE  /\ redis' \in Keys
         /\ \A h \in Generations \ {rebuild[w].generation} :
              /\ redis'.members[h] = redis.members[h]
              /\ redis'.players[h] = redis.players[h]
              /\ redis'.metadata[h] = redis.metadata[h]
         /\ redis'.members[rebuild[w].generation] = Members(rebuild[w].scores)
         /\ redis'.players[rebuild[w].generation] = BestMembers(rebuild[w].scores)
         /\ redis'.metadata[rebuild[w].generation] =
              [count |-> Len(rebuild[w].scores), revision |-> rebuild[w].revision]
  <1>1. redis \in Keys /\ rebuild[w].generation \in Generations /\ rebuild[w].revision \in Nat
    BY DEF IInv, TypeOK
  <1>2. PICK g \in Generations : g = rebuild[w].generation
    BY <1>1
  <1>3. PICK n \in 0 .. Len(board) : Holds(g, n)
    BY DEF IInv, Snapshots
  <1>4. PICK q, bm, k, v : q = Members(rebuild[w].scores) /\ bm = BestMembers(rebuild[w].scores)
                        /\ k = Len(rebuild[w].scores) /\ v = rebuild[w].revision
    OBVIOUS
  <1>5. q \in Seq(Member) /\ bm \in [Players -> Member \cup {None}] /\ k = n /\ k \in Nat /\ v \in Nat
    BY <1>1, <1>2, <1>3, <1>4, BuildFacts DEF Building
  <1>6. redis' = [redis EXCEPT !.pointer = g, !.members[g] = q, !.players[g] = bm,
                               !.metadata[g] = [count |-> k, revision |-> v]]
    BY <1>2, <1>4 DEF Published
  <1>7. /\ redis' = [pointer |-> g, members |-> redis'.members, players |-> redis'.players,
                     metadata |-> redis'.metadata, expiring |-> redis.expiring]
        /\ redis'.members = [redis.members EXCEPT ![g] = q]
        /\ redis'.players = [redis.players EXCEPT ![g] = bm]
        /\ redis'.metadata = [redis.metadata EXCEPT ![g] = [count |-> k, revision |-> v]]
    BY <1>1, <1>6 DEF Keys
  <1>8. q \in Seq(Member \cup {Garbage})
    <2>1. Len(q) \in Nat /\ q \in [1 .. Len(q) -> Member]
      BY <1>5
    <2>2. q \in [1 .. Len(q) -> Member \cup {Garbage}]
      BY <2>1
    <2> QED
      BY <2>1, <2>2
  <1>9. /\ redis'.members \in [Generations -> Seq(Member \cup {Garbage})]
        /\ redis'.players \in [Generations -> [Players -> Member \cup {Garbage, None}]]
    BY <1>1, <1>5, <1>7, <1>8 DEF Keys
  <1>10. redis'.metadata \in [Generations -> Metadata \cup {Garbage, None}]
    BY <1>1, <1>5, <1>7 DEF Keys, Metadata
  <1>11. redis.expiring \in SUBSET Generations
    BY <1>1 DEF Keys
  <1>12. redis' \in Keys
    BY <1>7, <1>9, <1>10, <1>11 DEF Keys
  <1> QED
    BY <1>1, <1>2, <1>4, <1>7, <1>12 DEF Keys

LEMMA NoRebuildOK == RebuildOK(NoRebuild)
  <1>1. <<>> \in Seq(Scores)
    BY EmptySeq
  <1> QED
    BY <1>1 DEF RebuildOK, Rebuild, RebuildStep, NoRebuild

LEMMA FailOK ==
  ASSUME NEW g \in Generations
  PROVE  RebuildOK([NoRebuild EXCEPT !.step = "cleanup", !.generation = g])
  <1>1. <<>> \in Seq(Scores)
    BY EmptySeq
  <1> QED
    BY <1>1 DEF RebuildOK, Rebuild, RebuildStep, NoRebuild

LEMMA NoReadOK == ReadOK(NoRead)
  BY DEF ReadOK, Read, ReadStep, NoRead

LEMMA FallBackOK ==
  ASSUME NEW ask \in Asks, NEW n \in Nat
  PROVE  ReadOK([NoRead EXCEPT !.step = "fallback", !.ask = ask, !.count = n])
  BY DEF ReadOK, Read, ReadStep, NoRead

LEMMA GiveOK ==
  ASSUME NEW a \in Reply
  PROVE  ReadOK([NoRead EXCEPT !.answer = a])
  BY DEF ReadOK, Read, ReadStep, NoRead

\* A page of members is a reply.
LEMMA PageType ==
  ASSUME NEW ask, NEW m, \A k \in Rows(m, ask) : m[k] \in Member
  PROVE  Page(m, ask) \in Reply
  BY DEF Page, Reply

\* A step of a rebuild, and of a request.
RebuildStepOf(w) ==
  \/ ReadPointer(w) \/ ReadScores(w) \/ ReadRevision(w)
  \/ Publish(w) \/ LosePublish(w) \/ Verify(w) \/ Retire(w) \/ DeferRetire(w)
  \/ FailRebuild(w) \/ Cleanup(w) \/ CrashRebuild(w)

ReadStepOf(r) ==
  \/ \E ask \in Asks : ReadCount(r, ask)
  \/ ReadExpectedRevision(r) \/ GetGeneration(r) \/ GetMetadata(r) \/ GetCardinality(r)
  \/ GetPage(r) \/ GetPlayer(r) \/ GetRank(r) \/ RedisFails(r)
  \/ ReadCanonical(r) \/ AbortRead(r)

LEMMA RebuildType ==
  ASSUME IInv, NEW w \in Rebuilders, RebuildStepOf(w)
  PROVE  TypeOK'
  <1>0. /\ TypeOK /\ redis \in Keys /\ board \in Seq(Scores) /\ Len(board) \in Nat
        /\ made \in 0 .. MaxRebuilds /\ MaxRebuilds \in Nat
        /\ faults \in 0 .. MaxFaults /\ MaxFaults \in Nat
        /\ rebuild \in [Rebuilders -> Rebuild] /\ RebuildOK(rebuild[w])
        /\ redis.pointer \in Generations \cup {None}
    BY Typed, BoundAssumption DEF IInv, Keys
  <1>1. CASE ReadPointer(w)
    <2>1. PICK b : b = [NoRebuild EXCEPT !.step = "scores", !.generation = made + 1,
                                         !.previous = redis.pointer]
      OBVIOUS
    <2>2. made + 1 \in Generations /\ made' \in 0 .. MaxRebuilds
      BY <1>0, <1>1 DEF ReadPointer, Generations
    <2>3. RebuildOK(b)
      BY <1>0, <2>1, <2>2, NoRebuildOK DEF RebuildOK, Rebuild, RebuildStep, NoRebuild
    <2>4. rebuild' = [rebuild EXCEPT ![w] = b] /\ UNCHANGED <<board, redis, read, faults>>
      BY <1>1, <2>1 DEF ReadPointer
    <2> QED
      BY <1>0, <2>2, <2>3, <2>4, RebuildUpdate
  <1>2. CASE ReadScores(w)
    <2>1. PICK q : q = Ordered(Committed)
      OBVIOUS
    <2>2. q \in Seq(Scores)
      BY <1>0, <2>1, WholeBoard, PrefixFacts, ListingType DEF IInv
    <2>3. PICK b : b = [rebuild[w] EXCEPT !.step = "revision", !.scores = q]
      OBVIOUS
    <2>4. RebuildOK(b)
      BY <1>0, <1>2, <2>2, <2>3 DEF RebuildOK, Rebuild, RebuildStep, ReadScores
    <2>5. rebuild' = [rebuild EXCEPT ![w] = b] /\ UNCHANGED <<board, redis, made, read, faults>>
      BY <1>0, <1>2, <2>1, <2>3 DEF ReadScores
    <2> QED
      BY <1>0, <2>4, <2>5, RebuildUpdate
  <1>3. CASE ReadRevision(w)
    <2>3. PICK b : b = [rebuild[w] EXCEPT !.step = "publish", !.revision = Len(board)]
      OBVIOUS
    <2>4. RebuildOK(b)
      BY <1>0, <1>3, <2>3 DEF RebuildOK, Rebuild, RebuildStep, ReadRevision
    <2>5. rebuild' = [rebuild EXCEPT ![w] = b] /\ UNCHANGED <<board, redis, made, read, faults>>
      BY <1>0, <1>3, <2>3 DEF ReadRevision, Revision
    <2> QED
      BY <1>0, <2>4, <2>5, RebuildUpdate
  <1>4. CASE Publish(w)
    <2>3. PICK b : b = [rebuild[w] EXCEPT !.step = "verify"]
      OBVIOUS
    <2>4. RebuildOK(b)
      BY <1>0, <1>4, <2>3 DEF RebuildOK, Rebuild, RebuildStep, Publish
    <2>5. rebuild' = [rebuild EXCEPT ![w] = b] /\ UNCHANGED <<board, made, read, faults>>
      BY <1>0, <1>4, <2>3 DEF Publish, Goto
    <2>6. redis' \in Keys
      BY <1>4, PublishedType DEF Publish
    <2> QED
      BY <1>0, <2>4, <2>5, <2>6, RebuildUpdate
  <1>5. ASSUME rebuild[w].step # "idle", Fail(w) \/ Finish(w), UNCHANGED <<board, made, read>>,
               redis' \in Keys, faults' \in 0 .. MaxFaults
        PROVE  TypeOK'
    <2>1. rebuild[w].generation \in Generations
      BY <1>0, <1>5 DEF RebuildOK
    <2>2. PICK b : rebuild' = [rebuild EXCEPT ![w] = b] /\ RebuildOK(b)
      BY <1>5, <2>1, FailOK, NoRebuildOK DEF Fail, Finish
    <2> QED
      BY <1>0, <1>5, <2>2, RebuildUpdate
  <1>6. CASE LosePublish(w)
    <2>1. redis' \in Keys
      BY <1>6, PublishedType DEF LosePublish
    <2> QED
      BY <1>0, <1>5, <1>6, <2>1 DEF LosePublish
  <1>7. CASE Verify(w)
    <2>1. UNCHANGED <<board, redis, made, read, faults>> /\ rebuild[w].step = "verify"
      BY <1>7 DEF Verify
    <2>2. CASE Fail(w) \/ Finish(w)
      BY <1>0, <1>5, <2>1, <2>2
    <2>3. CASE /\ rebuild[w].previous # None
               /\ rebuild' = [rebuild EXCEPT ![w] =
                    [NoRebuild EXCEPT !.step = "retire", !.previous = rebuild[w].previous,
                                      !.generation = rebuild[w].generation]]
      <3>1. PICK b : b = [NoRebuild EXCEPT !.step = "retire", !.previous = rebuild[w].previous,
                                           !.generation = rebuild[w].generation]
        OBVIOUS
      <3>2. rebuild[w].previous \in Generations /\ rebuild[w].generation \in Generations
        BY <1>0, <2>1, <2>3 DEF RebuildOK, Rebuild
      <3>3. RebuildOK(b)
        BY <3>1, <3>2, NoRebuildOK DEF RebuildOK, Rebuild, RebuildStep, NoRebuild
      <3> QED
        BY <1>0, <2>1, <2>3, <3>1, <3>3, RebuildUpdate
    <2> QED
      BY <1>7, <2>2, <2>3 DEF Verify
  <1>8. CASE Retire(w)
    <2>1. PICK old : old = rebuild[w].previous
      OBVIOUS
    <2>2. old \in Generations
      BY <1>0, <1>8, <2>1 DEF RebuildOK, Retire
    <2>3. PICK e : e \in SUBSET Generations /\ redis' = [redis EXCEPT !.expiring = e]
      BY <1>0, <1>8, <2>1, <2>2 DEF Retire, Keys
    <2>4. redis' \in Keys
      BY <1>0, <2>3 DEF Keys
    <2> QED
      BY <1>0, <1>5, <1>8, <2>4 DEF Retire
  <1>9. CASE DeferRetire(w)
    BY <1>0, <1>5, <1>9 DEF DeferRetire
  <1>10. CASE FailRebuild(w)
    BY <1>0, <1>5, <1>10 DEF FailRebuild
  <1>11. CASE Cleanup(w)
    <2>1. PICK g \in Generations : g = rebuild[w].generation
      BY <1>0, <1>11 DEF RebuildOK, Cleanup
    <2>2. redis' \in Keys
      BY <1>0, <1>11, <2>1, DeletedHarm DEF Cleanup, HarmOnly
    <2> QED
      BY <1>0, <1>5, <1>11, <2>2 DEF Cleanup
  <1>12. CASE CrashRebuild(w)
    BY <1>0, <1>5, <1>12 DEF CrashRebuild
  <1> QED
    BY <1>1, <1>2, <1>3, <1>4, <1>6, <1>7, <1>8, <1>9, <1>10, <1>11, <1>12 DEF RebuildStepOf

LEMMA ReadType ==
  ASSUME IInv, NEW r \in Readers, ReadStepOf(r)
  PROVE  TypeOK'
  <1>0. /\ TypeOK /\ redis \in Keys /\ board \in Seq(Scores) /\ Len(board) \in Nat
        /\ faults \in 0 .. MaxFaults /\ MaxFaults \in Nat
        /\ read \in [Readers -> Read] /\ ReadOK(read[r])
        /\ redis.pointer \in Generations \cup {None}
    BY Typed, BoundAssumption DEF IInv, Keys
  <1>1. ASSUME NEW t, ReadOK(t), read' = [read EXCEPT ![r] = t],
               UNCHANGED <<board, redis, made, rebuild, faults>>
        PROVE  TypeOK'
    BY <1>0, <1>1, ReadUpdate
  <1>2. ASSUME read[r].step # "idle", FallBack(r), UNCHANGED <<board, redis, made, rebuild>>,
               faults' \in 0 .. MaxFaults
        PROVE  TypeOK'
    <2>1. PICK t : t = [NoRead EXCEPT !.step = "fallback", !.ask = read[r].ask,
                                      !.count = read[r].count]
      OBVIOUS
    <2>2. ReadOK(t)
      BY <1>0, <1>2, <2>1, FallBackOK DEF ReadOK
    <2> QED
      BY <1>0, <1>2, <2>1, <2>2, ReadUpdate DEF FallBack
  <1>3. ASSUME NEW a \in Reply, Give(r, a), UNCHANGED <<board, redis, made, rebuild, faults>>
        PROVE  TypeOK'
    <2>1. PICK t : t = [NoRead EXCEPT !.answer = a]
      OBVIOUS
    <2> QED
      BY <1>1, <1>3, <2>1, GiveOK DEF Give
  <1>4. ASSUME NEW ask \in Asks, ReadCount(r, ask) PROVE TypeOK'
    <2>1. PICK t : t = [NoRead EXCEPT !.step = "revision", !.ask = ask, !.count = Len(board)]
      OBVIOUS
    <2>2. ReadOK(t)
      BY <1>0, <2>1, NoReadOK DEF ReadOK, Read, ReadStep, NoRead
    <2> QED
      BY <1>1, <1>4, <2>1, <2>2 DEF ReadCount
  <1>5. CASE ReadExpectedRevision(r)
    <2>1. PICK t : t = [read[r] EXCEPT !.step = "pointer", !.revision = Len(board)]
      OBVIOUS
    <2>2. ReadOK(t)
      BY <1>0, <1>5, <2>1 DEF ReadOK, Read, ReadStep, ReadExpectedRevision
    <2>3. read' = [read EXCEPT ![r] = t]
      BY <1>0, <1>5, <2>1 DEF ReadExpectedRevision, Revision
    <2> QED
      BY <1>1, <1>5, <2>2, <2>3 DEF ReadExpectedRevision
  <1>6. CASE GetGeneration(r)
    <2>1. read[r].step = "pointer" /\ UNCHANGED <<board, redis, made, rebuild, faults>>
      BY <1>6 DEF GetGeneration
    <2>2. CASE redis.pointer = None
      BY <1>0, <1>2, <1>6, <2>1, <2>2 DEF GetGeneration
    <2>3. CASE redis.pointer # None
      <3>1. PICK t : t = [read[r] EXCEPT !.step = "metadata", !.generation = redis.pointer]
        OBVIOUS
      <3>2. ReadOK(t)
        BY <1>0, <2>1, <2>3, <3>1 DEF ReadOK, Read, ReadStep
      <3>3. read' = [read EXCEPT ![r] = t]
        BY <1>0, <1>6, <2>3, <3>1 DEF GetGeneration
      <3> QED
        BY <1>1, <2>1, <3>2, <3>3
    <2> QED
      BY <2>2, <2>3
  <1>7. ASSUME NEW step \in {"cardinality", "members"}, Move(r, step),
               read[r].step \in {"metadata", "cardinality"},
               UNCHANGED <<board, redis, made, rebuild, faults>>
        PROVE  TypeOK'
    <2>1. PICK t : t = [read[r] EXCEPT !.step = step]
      OBVIOUS
    <2>2. ReadOK(t)
      BY <1>0, <1>7, <2>1 DEF ReadOK, Read, ReadStep
    <2>3. read' = [read EXCEPT ![r] = t]
      BY <1>0, <1>7, <2>1 DEF Move
    <2> QED
      BY <1>1, <1>7, <2>2, <2>3
  <1>8. CASE GetMetadata(r)
    <2>1. Move(r, "cardinality") \/ FallBack(r)
      BY <1>8 DEF GetMetadata
    <2> QED
      BY <1>0, <1>2, <1>7, <1>8, <2>1 DEF GetMetadata
  <1>9. CASE GetCardinality(r)
    <2>1. Move(r, "members") \/ FallBack(r)
      BY <1>9 DEF GetCardinality
    <2> QED
      BY <1>0, <1>2, <1>7, <1>9, <2>1 DEF GetCardinality
  <1>10. CASE GetPage(r)
    <2>0. read[r].step = "members" /\ UNCHANGED <<board, redis, made, rebuild, faults>>
      BY <1>10 DEF GetPage
    <2>1. PICK g \in Generations : g = read[r].generation
      BY <1>0, <2>0 DEF ReadOK
    <2>2. PICK m, ask : m = redis.members[g] /\ ask = read[r].ask
      OBVIOUS
    <2>3. CASE FallBack(r)
      BY <1>0, <1>2, <2>0, <2>3
    <2>4. CASE Give(r, Page(m, ask)) /\ \A k \in Rows(m, ask) : ValidMember(m[k], k)
      <3>1. m \in Seq(Member \cup {Garbage})
        BY <1>0, <2>2 DEF Keys
      <3>2. \A k \in Rows(m, ask) : m[k] \in Member
        BY <2>4, <3>1 DEF Rows, ValidMember
      <3>3. Page(m, ask) \in Reply
        BY <3>2, PageType
      <3> QED
        BY <1>3, <2>0, <2>4, <3>3
    <2> QED
      BY <1>10, <2>1, <2>2, <2>3, <2>4 DEF GetPage
  <1>11. CASE GetPlayer(r)
    <2>0. read[r].step = "members" /\ read[r].ask.kind = "rank"
          /\ UNCHANGED <<board, redis, made, rebuild, faults>>
      BY <1>11 DEF GetPlayer
    <2>1. PICK g \in Generations : g = read[r].generation
      BY <1>0, <2>0 DEF ReadOK
    <2>2. read[r].ask.player \in Players
      BY <1>0, <2>0, AskAssumption DEF ReadOK
    <2>3. PICK x : x = redis.players[g][read[r].ask.player]
      OBVIOUS
    <2>4. x \in Member \cup {Garbage, None}
      BY <1>0, <2>2, <2>3 DEF Keys
    <2>5. CASE x = None
      BY <1>0, <1>2, <1>11, <2>0, <2>1, <2>3, <2>5 DEF GetPlayer
    <2>6. CASE x # None
      <3>1. PICK t : t = [read[r] EXCEPT !.step = "rank", !.rank = x]
        OBVIOUS
      <3>2. ReadOK(t)
        BY <1>0, <2>0, <2>4, <2>6, <3>1 DEF ReadOK, Read, ReadStep
      <3>3. read' = [read EXCEPT ![r] = t]
        BY <1>0, <1>11, <2>1, <2>3, <2>6, <3>1 DEF GetPlayer
      <3> QED
        BY <1>1, <2>0, <3>2, <3>3
    <2> QED
      BY <2>5, <2>6
  <1>12. CASE GetRank(r)
    <2>0. read[r].step = "rank" /\ UNCHANGED <<board, redis, made, rebuild, faults>>
      BY <1>12 DEF GetRank
    <2>1. PICK x : x = read[r].rank
      OBVIOUS
    <2>2. CASE FallBack(r)
      BY <1>0, <1>2, <2>0, <2>2
    <2>3. CASE Give(r, [items |-> {x}, more |-> FALSE]) /\ \E k \in Nat : ValidMember(x, k)
      <3>1. x \in Member
        BY <1>0, <2>0, <2>1, <2>3 DEF ReadOK, Read, ValidMember
      <3>2. [items |-> {x}, more |-> FALSE] \in Reply
        BY <3>1 DEF Reply
      <3> QED
        BY <1>3, <2>0, <2>3, <3>2
    <2>4. PICK g \in Generations : g = read[r].generation
      BY <1>0, <2>0 DEF ReadOK
    <2>5. DOMAIN redis.members[g] \subseteq Nat
      BY <1>0 DEF Keys
    <2> QED
      BY <1>12, <2>1, <2>2, <2>3, <2>4, <2>5 DEF GetRank
  <1>13. CASE RedisFails(r)
    <2>1. faults' \in 0 .. MaxFaults /\ read[r].step # "idle"
      BY <1>0, <1>13 DEF RedisFails
    <2> QED
      BY <1>2, <1>13, <2>1 DEF RedisFails
  <1>14. CASE ReadCanonical(r)
    <2>1. PICK q, ask : q = Members(Ordered(Committed)) /\ ask = read[r].ask
      OBVIOUS
    <2>2. q \in Seq(Member)
      BY <1>0, <2>1, WholeBoard, PrefixFacts, ListingType DEF IInv
    <2>3. PICK a : /\ a = (IF ask.kind = "page" THEN Page(q, ask)
                           ELSE [items |-> OwnBest(q, ask.player), more |-> FALSE])
                   /\ Give(r, a)
      BY <1>14, <2>1 DEF ReadCanonical
    <2>4. \A k \in DOMAIN q : q[k] \in Member
      BY <2>2
    <2>5. Page(q, ask) \in Reply
      BY <2>4, PageType DEF Rows
    <2>6. [items |-> OwnBest(q, ask.player), more |-> FALSE] \in Reply
      BY <2>4 DEF OwnBest, Reply
    <2> QED
      BY <1>3, <1>14, <2>3, <2>5, <2>6 DEF ReadCanonical
  <1>15. CASE AbortRead(r)
    BY <1>1, <1>15, NoReadOK DEF AbortRead
  <1> QED
    BY <1>4, <1>5, <1>6, <1>8, <1>9, <1>10, <1>11, <1>12, <1>13, <1>14, <1>15 DEF ReadStepOf

------------------------------------------------------------------------------
(***************************************************************************)
(* What a step leaves alone.                                               *)
(***************************************************************************)
\* Nothing starts to depend on generation g.
RebuildKept(g) ==
  \A w \in Rebuilders :
    rebuild'[w].generation = g /\ rebuild'[w].step \in Building =>
      /\ rebuild[w].generation = g /\ rebuild[w].step \in Building
      /\ rebuild'[w].scores = rebuild[w].scores

ReadKept(g) ==
  \A r \in Readers :
    read'[r].generation = g /\ read'[r].step \in Validated =>
      /\ read[r].generation = g /\ read[r].step \in Validated
      /\ read'[r].count = read[r].count
      /\ read'[r].step = "rank" =>
           /\ read[r].step = "rank" /\ read'[r].ask = read[r].ask /\ read'[r].rank = read[r].rank

LEMMA HoldsKept ==
  ASSUME NEW g \in Generations, NEW n, Holds(g, n), Prefix(n)' = Prefix(n),
         Harmed(g), RebuildKept(g), ReadKept(g)
  PROVE  Holds(g, n)'
  <1> DEFINE S == Prefix(n)
  <1>1. ASSUME NEW i \in DOMAIN redis'.members[g], redis'.members[g][i] # Garbage
        PROVE  redis'.members[g][i] \in Entries(Prefix(n))'
    <2>1. redis'.members[g][i] \in Entries(Prefix(n))
      BY <1>1 DEF Harmed, Holds
    <2> QED
      BY <2>1 DEF Entries, EntryOf, Position
  <1>2. ASSUME NEW p \in Players
        PROVE  redis'.players[g][p] \in {None, Garbage} \/ IsBest(Prefix(n), p, redis.players[g][p])'
    <2>1. \/ redis'.players[g][p] \in {None, Garbage}
          \/ redis'.players[g][p] = redis.players[g][p] /\ IsBest(Prefix(n), p, redis'.players[g][p])
      <3>1. PICK x, y : x = redis.players[g][p] /\ y = redis'.players[g][p]
        OBVIOUS
      <3>2. y \in {None, x} \/ y = Garbage
        BY <3>1 DEF Harmed
      <3>3. x \in {None, Garbage} \/ IsBest(Prefix(n), p, x)
        BY <3>1 DEF Holds
      <3>4. y \in {None, Garbage} \/ (y = x /\ IsBest(Prefix(n), p, y))
        BY <3>2, <3>3
      <3> QED
        BY <3>1, <3>4
    <2> QED
      BY <2>1 DEF IsBest, EntryOf, Position
  <1>3. redis'.metadata[g] \notin {None, Garbage} => redis'.metadata[g].count = n
    BY DEF Harmed, Holds
  <1>4. ASSUME NEW w \in Rebuilders, rebuild'[w].generation = g, rebuild'[w].step \in Building
        PROVE  rebuild'[w].scores = Ordered(Prefix(n))'
    <2>1. rebuild'[w].scores = Ordered(Prefix(n))
      BY <1>4 DEF Holds, RebuildKept
    <2> QED
      BY <2>1 DEF Ordered, Position
  <1>5. ASSUME NEW r \in Readers, read'[r].generation = g, read'[r].step \in Validated
        PROVE  /\ read'[r].count = n
               /\ read'[r].step = "rank" =>
                    read'[r].rank = Garbage \/ IsBest(Prefix(n), read[r].ask.player, read[r].rank)'
    <2>1. read'[r].count = n
      BY <1>5 DEF Holds, ReadKept
    <2>2. ASSUME read'[r].step = "rank"
          PROVE  read'[r].rank = Garbage \/ IsBest(Prefix(n), read'[r].ask.player, read'[r].rank)
      BY <1>5, <2>2 DEF Holds, ReadKept
    <2> QED
      BY <2>1, <2>2 DEF IsBest, EntryOf, Position
  <1> QED
    BY <1>1, <1>2, <1>3, <1>4, <1>5 DEF Holds

LEMMA BlankKept ==
  ASSUME NEW g \in Generations, Blank(g), Harmed(g), ReadKept(g)
  PROVE  Blank(g)'
  BY DEF Blank, Harmed, ReadKept

LEMMA HarmlessKeys ==
  ASSUME NEW g \in Generations, redis' = redis
  PROVE  Harmed(g)
  BY DEF Harmed

\* A rebuild that goes on goes on with its generation.
Ongoing ==
  \A w \in Rebuilders :
    /\ rebuild'[w].step \in Unpublished =>
         rebuild[w].step \in Unpublished /\ rebuild'[w].generation = rebuild[w].generation
    /\ rebuild'[w].step # "idle" =>
         rebuild[w].step # "idle" /\ rebuild'[w].generation = rebuild[w].generation

CountsKept == \A r \in Readers : read'[r].step # "idle" => read'[r].count <= Len(board)

LEMMA BoardSame ==
  ASSUME UNCHANGED board
  PROVE  Len(board)' = Len(board) /\ \A n \in 0 .. Len(board) : Prefix(n)' = Prefix(n)
  BY DEF Prefix

\* Steps that add nothing to Redis, to a build or to a request keep the invariant.
LEMMA Frame ==
  ASSUME IInv, UNCHANGED <<board, made>>, Ongoing, CountsKept,
         \A g \in Generations : Harmed(g) /\ RebuildKept(g) /\ ReadKept(g)
  PROVE  Snapshots' /\ OwnGenerations' /\ CountsBehind'
  <1>1. ASSUME NEW g \in Generations PROVE \E n \in 0 .. Len(board)' : Holds(g, n)'
    <2>1. PICK n \in 0 .. Len(board) : Holds(g, n)
      BY DEF IInv, Snapshots
    <2>2. Holds(g, n)'
      BY <2>1, BoardSame, HoldsKept
    <2> QED
      BY <2>2, BoardSame
  <1>2. Snapshots'
    BY <1>1 DEF Snapshots
  <1>3. \A g \in Generations : Blank(g) => Blank(g)'
    BY BlankKept
  <1>4. ASSUME NEW g \in Generations, g > made' PROVE Blank(g)'
    BY <1>3, <1>4 DEF IInv, OwnGenerations
  <1>5. ASSUME NEW w \in Rebuilders, rebuild'[w].step \in Unpublished PROVE Blank(rebuild[w].generation)'
    <2>1. rebuild[w].step \in Unpublished /\ rebuild'[w].generation = rebuild[w].generation
      BY <1>5 DEF Ongoing
    <2>2. PICK g \in Generations : g = rebuild[w].generation
      BY <2>1 DEF IInv, TypeOK, Unpublished
    <2>3. Blank(g)'
      BY <1>3, <2>1, <2>2 DEF IInv, OwnGenerations
    <2>4. rebuild'[w].generation = g
      BY <2>1, <2>2
    <2> QED
      BY <2>3, <2>4 DEF Blank
  <1>6. OwnGenerations'
    <2>1. \A w \in Rebuilders : rebuild'[w].step # "idle" => rebuild'[w].generation <= made'
      BY DEF IInv, OwnGenerations, Ongoing
    <2>2. \A v, w \in Rebuilders :
            v # w /\ rebuild'[v].step # "idle" /\ rebuild'[w].step # "idle" =>
              rebuild'[v].generation # rebuild'[w].generation
      BY DEF IInv, OwnGenerations, Ongoing
    <2> QED
      BY <1>4, <1>5, <2>1, <2>2 DEF OwnGenerations
  <1>7. CountsBehind'
    BY DEF IInv, CountsBehind, CountsKept
  <1> QED
    BY <1>2, <1>6, <1>7

LEMMA ReadsIdle ==
  ASSUME IInv, UNCHANGED <<board, read>>
  PROVE  CountsKept /\ \A g \in Generations : ReadKept(g)
  BY DEF IInv, CountsBehind, CountsKept, ReadKept

LEMMA BuildsIdle ==
  ASSUME UNCHANGED rebuild
  PROVE  Ongoing /\ \A g \in Generations : RebuildKept(g)
  BY DEF Ongoing, RebuildKept

LEMMA HarmInv ==
  ASSUME IInv, HarmOnly, UNCHANGED <<board, made, rebuild, read>>
  PROVE  Snapshots' /\ OwnGenerations' /\ CountsBehind'
  BY Frame, ReadsIdle, BuildsIdle DEF HarmOnly

LEMMA SubmitInv ==
  ASSUME IInv, NEW s \in Scores, SubmitScore(s)
  PROVE  TypeOK' /\ Snapshots' /\ OwnGenerations' /\ CountsBehind'
  <1>0. board \in Seq(Scores) /\ Len(board) \in Nat /\ s \notin Committed /\ board' = Append(board, s)
        /\ UNCHANGED <<redis, made, rebuild, read, faults>>
    BY DEF IInv, TypeOK, SubmitScore
  <1>1. board' \in Seq(Scores) /\ Len(board') = Len(board) + 1 /\ Len(board)' = Len(board) + 1
        /\ board'[Len(board) + 1] = s
        /\ \A i \in 1 .. Len(board) : board'[i] = board[i]
    BY <1>0, AppendProperties
  <1>2. TypeOK'
    BY <1>0, <1>1 DEF IInv, TypeOK
  <1>3. \A n \in 0 .. Len(board) : Prefix(n)' = Prefix(n)
    BY <1>0, <1>1 DEF Prefix
  <1>4. \A g \in Generations : Harmed(g) /\ RebuildKept(g) /\ ReadKept(g)
    BY <1>0, HarmlessKeys DEF RebuildKept, ReadKept
  <1>5. ASSUME NEW g \in Generations PROVE \E n \in 0 .. Len(board)' : Holds(g, n)'
    <2>1. PICK n \in 0 .. Len(board) : Holds(g, n)
      BY DEF IInv, Snapshots
    <2>2. Holds(g, n)'
      BY <2>1, <1>3, <1>4, HoldsKept
    <2> QED
      BY <1>0, <1>1, <2>1, <2>2
  <1>6. OwnGenerations'
    BY <1>0 DEF IInv, OwnGenerations, Blank
  <1>7. \A i, j \in DOMAIN board' : board'[i] = board'[j] => i = j
    <2>1. DOMAIN board' = 1 .. Len(board) + 1 /\ DOMAIN board = 1 .. Len(board)
      BY <1>0, <1>1
    <2>2. \A i \in 1 .. Len(board) : board'[i] \in Committed
      BY <1>1, <2>1 DEF Committed
    <2> QED
      BY <1>0, <1>1, <2>1, <2>2 DEF IInv, CountsBehind
  <1>8. \A r \in Readers : read'[r].step # "idle" => read'[r].count <= Len(board')
    BY <1>0, <1>1 DEF IInv, TypeOK, CountsBehind
  <1> QED
    BY <1>2, <1>5, <1>6, <1>7, <1>8 DEF Snapshots, CountsBehind

------------------------------------------------------------------------------
(***************************************************************************)
(* Steps of a rebuild.                                                     *)
(***************************************************************************)
LEMMA ReadPointerInv ==
  ASSUME IInv, NEW w \in Rebuilders, ReadPointer(w)
  PROVE  Snapshots' /\ OwnGenerations' /\ CountsBehind'
  <1>0. /\ made \in Nat /\ made' = made + 1 /\ made + 1 \in Generations /\ rebuild[w].step = "idle"
        /\ rebuild' = [rebuild EXCEPT ![w] = [NoRebuild EXCEPT
             !.step = "scores", !.generation = made + 1, !.previous = redis.pointer]]
        /\ UNCHANGED <<board, redis, read, faults>>
        /\ rebuild \in [Rebuilders -> Rebuild]
    BY BoundAssumption DEF IInv, TypeOK, ReadPointer, Generations
  <1>1. /\ rebuild'[w].step = "scores" /\ rebuild'[w].generation = made + 1
        /\ \A v \in Rebuilders : v # w => rebuild'[v] = rebuild[v]
    BY <1>0 DEF NoRebuild
  <1>2. \A g \in Generations : Harmed(g) /\ RebuildKept(g) /\ ReadKept(g)
    BY <1>0, <1>1, HarmlessKeys DEF RebuildKept, ReadKept, Building
  <1>3. ASSUME NEW g \in Generations PROVE \E n \in 0 .. Len(board)' : Holds(g, n)'
    <2>1. PICK n \in 0 .. Len(board) : Holds(g, n)
      BY DEF IInv, Snapshots
    <2>2. Holds(g, n)'
      BY <1>0, <1>2, <2>1, BoardSame, HoldsKept
    <2> QED
      BY <1>0, <2>2, BoardSame
  <1>4. \A g \in Generations : Blank(g) => Blank(g)'
    BY <1>2, BlankKept
  <1>5. \A g \in Generations : g > made => Blank(g)
    BY DEF IInv, OwnGenerations
  <1>6. \A g \in Generations : g > made' => Blank(g)'
    BY <1>0, <1>4, <1>5 DEF Generations
  <1>7. ASSUME NEW v \in Rebuilders, rebuild'[v].step \in Unpublished PROVE Blank(rebuild[v].generation)'
    <2>1. PICK g \in Generations : g = rebuild'[v].generation /\ Blank(g)
      <3>1. CASE v = w
        BY <1>0, <1>1, <1>5, <3>1
      <3>2. CASE v # w
        <4>1. rebuild'[v] = rebuild[v] /\ rebuild[v].step # "idle"
          BY <1>1, <1>7, <3>2 DEF Unpublished
        <4>2. rebuild[v].generation \in Generations /\ Blank(rebuild[v].generation)
          BY <1>7, <4>1 DEF IInv, TypeOK, OwnGenerations
        <4> QED
          BY <4>1, <4>2
      <3> QED
        BY <3>1, <3>2
    <2>2. Blank(g)'
      BY <1>4, <2>1
    <2> QED
      BY <2>1, <2>2 DEF Blank
  <1>8. \A v \in Rebuilders : rebuild[v].step # "idle" => rebuild[v].generation \in Nat
                                                          /\ rebuild[v].generation <= made
    BY DEF IInv, TypeOK, OwnGenerations, Generations
  <1>9. \A v \in Rebuilders : rebuild'[v].step # "idle" => rebuild'[v].generation <= made'
    BY <1>0, <1>1, <1>8
  <1>10. \A u, v \in Rebuilders :
           u # v /\ rebuild'[u].step # "idle" /\ rebuild'[v].step # "idle" =>
             rebuild'[u].generation # rebuild'[v].generation
    BY <1>0, <1>1, <1>8 DEF IInv, OwnGenerations
  <1>11. CountsBehind'
    BY <1>0 DEF IInv, CountsBehind
  <1> QED
    BY <1>3, <1>6, <1>7, <1>9, <1>10, <1>11 DEF Snapshots, OwnGenerations

LEMMA ReadScoresInv ==
  ASSUME IInv, NEW w \in Rebuilders, ReadScores(w)
  PROVE  Snapshots' /\ OwnGenerations' /\ CountsBehind'
  <1>0. /\ rebuild[w].step = "scores" /\ UNCHANGED <<board, redis, made, read, faults>>
        /\ rebuild' = [rebuild EXCEPT ![w].step = "revision", ![w].scores = Ordered(Committed)]
        /\ rebuild \in [Rebuilders -> Rebuild] /\ Len(board) \in Nat
    BY DEF IInv, TypeOK, ReadScores
  <1>1. PICK g \in Generations : g = rebuild[w].generation
    BY <1>0 DEF IInv, TypeOK
  <1>2. /\ rebuild'[w].step = "revision" /\ rebuild'[w].generation = g
        /\ rebuild'[w].scores = Ordered(Committed)
        /\ \A v \in Rebuilders : v # w => rebuild'[v] = rebuild[v]
    BY <1>0, <1>1 DEF Rebuild
  <1>3. \A v \in Rebuilders : v # w /\ rebuild[v].step # "idle" => rebuild[v].generation # g
    BY <1>0, <1>1 DEF IInv, OwnGenerations
  <1>4. Blank(g)
    BY <1>0, <1>1 DEF IInv, OwnGenerations, Unpublished
  <1>5. Holds(g, Len(board))'
    <2>1. ASSUME NEW v \in Rebuilders, rebuild'[v].generation = g, rebuild'[v].step \in Building
          PROVE  rebuild'[v].scores = Ordered(Prefix(Len(board)))'
      <3>1. v = w
        BY <1>2, <1>3, <2>1 DEF Building
      <3>2. rebuild'[v].scores = Ordered(Prefix(Len(board)))
        BY <1>2, <3>1, WholeBoard DEF IInv
      <3> QED
        BY <1>0, <3>2 DEF Ordered, Position, Prefix
    <2>2. redis'.members[g] = <<>> /\ redis'.metadata[g] = None
          /\ (\A p \in Players : redis'.players[g][p] = None)
          /\ (\A r \in Readers : read'[r].generation = g => read'[r].step \notin Validated)
      BY <1>0, <1>4 DEF Blank
    <2> QED
      BY <2>1, <2>2 DEF Holds
  <1>6. ASSUME NEW h \in Generations, h # g PROVE \E n \in 0 .. Len(board)' : Holds(h, n)'
    <2>1. PICK n \in 0 .. Len(board) : Holds(h, n)
      BY DEF IInv, Snapshots
    <2>2. Harmed(h) /\ RebuildKept(h) /\ ReadKept(h)
      BY <1>0, <1>2, <1>6, HarmlessKeys DEF RebuildKept, ReadKept
    <2>3. Holds(h, n)'
      BY <1>0, <2>1, <2>2, BoardSame, HoldsKept
    <2> QED
      BY <1>0, <2>3, BoardSame
  <1>7. Snapshots'
    BY <1>0, <1>5, <1>6 DEF Snapshots
  <1>8. /\ \A v \in Rebuilders : rebuild'[v].step \in Unpublished =>
             rebuild[v].step \in Unpublished /\ rebuild'[v].generation = rebuild[v].generation
        /\ \A v \in Rebuilders : rebuild'[v].step # "idle" =>
             rebuild[v].step # "idle" /\ rebuild'[v].generation = rebuild[v].generation
    BY <1>0, <1>1, <1>2 DEF Unpublished
  <1>9. OwnGenerations'
    BY <1>0, <1>8 DEF IInv, OwnGenerations, Blank
  <1>10. CountsBehind'
    BY <1>0 DEF IInv, CountsBehind
  <1> QED
    BY <1>7, <1>9, <1>10

\* Publishing moves a build into Redis; the prefix it is of stays the same.
LEMMA PublishInv ==
  ASSUME IInv, NEW w \in Rebuilders, rebuild[w].step = "publish", redis' = Published(rebuild[w]),
         UNCHANGED <<board, made, read>>, Ongoing, \A g \in Generations : RebuildKept(g),
         rebuild'[w].step \notin Unpublished
  PROVE  Snapshots' /\ OwnGenerations' /\ CountsBehind'
  <1>1. PICK g \in Generations : g = rebuild[w].generation
    BY DEF IInv, TypeOK
  <1>2. /\ redis' \in Keys
        /\ \A h \in Generations \ {g} :
             /\ redis'.members[h] = redis.members[h]
             /\ redis'.players[h] = redis.players[h]
             /\ redis'.metadata[h] = redis.metadata[h]
        /\ redis'.members[g] = Members(rebuild[w].scores)
        /\ redis'.players[g] = BestMembers(rebuild[w].scores)
        /\ redis'.metadata[g] = [count |-> Len(rebuild[w].scores), revision |-> rebuild[w].revision]
    BY <1>1, PublishedType
  <1>3. \A v \in Rebuilders : v # w /\ rebuild[v].step # "idle" => rebuild[v].generation # g
    BY <1>1 DEF IInv, OwnGenerations
  <1>4. Blank(g)
    BY <1>1 DEF IInv, OwnGenerations, Unpublished
  <1>5. \A h \in Generations : ReadKept(h)
    BY ReadsIdle
  <1>6. \A h \in Generations \ {g} : Harmed(h)
    BY <1>2 DEF Harmed
  <1>7. PICK n \in 0 .. Len(board) : Holds(g, n)
    BY DEF IInv, Snapshots
  <1>8. PICK S : S = Prefix(n)
    OBVIOUS
  <1>9. S \subseteq Nat /\ IsFiniteSet(S) /\ Cardinality(S) = n
    BY <1>8, PrefixFacts DEF IInv
  <1>10. rebuild[w].scores = Ordered(S) /\ Len(rebuild[w].scores) = n
    BY <1>1, <1>7, <1>8, BuildFacts DEF Building
  <1>11. S = Prefix(n)'
    BY <1>8, BoardSame
  <1>12. Holds(g, n)'
    <2>1. ASSUME NEW i \in DOMAIN redis'.members[g] PROVE redis'.members[g][i] \in Entries(Prefix(n))'
      <3>2. redis'.members[g] = Members(Ordered(S))
        BY <1>2, <1>10
      <3>3. \A k \in DOMAIN Members(Ordered(S)) : Members(Ordered(S))[k] \in Entries(S)
        BY <1>9, MembersFacts
      <3>1. redis'.members[g][i] \in Entries(S)
        BY <3>2, <3>3
      <3> QED
        BY <1>11, <3>1 DEF Entries, EntryOf, Position
    <2>2. ASSUME NEW p \in Players
          PROVE  redis'.players[g][p] \in {None, Garbage} \/ IsBest(Prefix(n), p, redis.players[g][p])'
      <3>1. redis'.players[g][p] = BestMembers(Ordered(S))[p]
        BY <1>2, <1>10
      <3>2. BestMembers(Ordered(S))[p] = None \/ IsBest(S, p, BestMembers(Ordered(S))[p])
        BY <1>9, BestFacts
      <3>3. redis'.players[g][p] = None \/ IsBest(S, p, redis'.players[g][p])
        BY <3>1, <3>2
      <3> QED
        BY <1>11, <3>3 DEF IsBest, EntryOf, Position
    <2>3. redis'.metadata[g].count = n
      BY <1>2, <1>10
    <2>4. ASSUME NEW v \in Rebuilders, rebuild'[v].generation = g, rebuild'[v].step \in Building
          PROVE  rebuild'[v].scores = Ordered(Prefix(n))'
      <3>1. rebuild[v].generation = g /\ rebuild[v].step \in Building
            /\ rebuild'[v].scores = rebuild[v].scores
        BY <2>4 DEF RebuildKept
      <3>2. v = w
        BY <1>3, <3>1 DEF Building
      <3>3. rebuild'[v].scores = Ordered(S)
        BY <1>10, <3>1, <3>2
      <3> QED
        BY <1>11, <3>3 DEF Ordered, Position
    <2>5. \A r \in Readers : read'[r].generation = g => read'[r].step \notin Validated
      BY <1>4 DEF Blank
    <2> QED
      BY <2>1, <2>2, <2>3, <2>4, <2>5 DEF Holds
  <1>13. ASSUME NEW h \in Generations, h # g PROVE \E k \in 0 .. Len(board)' : Holds(h, k)'
    <2>1. PICK k \in 0 .. Len(board) : Holds(h, k)
      BY DEF IInv, Snapshots
    <2>2. Holds(h, k)'
      BY <1>5, <1>6, <1>13, <2>1, BoardSame, HoldsKept
    <2> QED
      BY <2>2, BoardSame
  <1>14. Snapshots'
    BY <1>7, <1>12, <1>13, BoardSame DEF Snapshots
  <1>15. \A h \in Generations \ {g} : Blank(h) => Blank(h)'
    BY <1>5, <1>6, BlankKept
  <1>16. ASSUME NEW h \in Generations, h > made' PROVE Blank(h)'
    <2>1. g <= made /\ made' = made
      BY <1>1 DEF IInv, OwnGenerations
    <2>2. h # g
      <3>1. g \in Nat /\ h \in Nat /\ made \in Nat
        BY DEF Generations, IInv, TypeOK
      <3> QED
        BY <1>16, <2>1, <3>1
    <2> QED
      BY <1>15, <1>16, <2>1, <2>2 DEF IInv, OwnGenerations
  <1>17. ASSUME NEW v \in Rebuilders, rebuild'[v].step \in Unpublished
         PROVE  Blank(rebuild[v].generation)'
    <2>1. rebuild[v].step \in Unpublished /\ rebuild'[v].generation = rebuild[v].generation /\ v # w
      BY <1>17 DEF Ongoing
    <2>2. PICK h \in Generations : h = rebuild[v].generation
      BY <2>1 DEF IInv, TypeOK, Unpublished
    <2>3. h # g
      BY <1>3, <2>1, <2>2 DEF Unpublished
    <2>4. Blank(h)'
      BY <1>15, <2>1, <2>2, <2>3 DEF IInv, OwnGenerations
    <2>5. rebuild'[v].generation = h
      BY <2>1, <2>2
    <2> QED
      BY <2>4, <2>5 DEF Blank
  <1>18. /\ \A v \in Rebuilders : rebuild'[v].step # "idle" => rebuild'[v].generation <= made'
         /\ \A u, v \in Rebuilders :
              u # v /\ rebuild'[u].step # "idle" /\ rebuild'[v].step # "idle" =>
                rebuild'[u].generation # rebuild'[v].generation
    BY DEF IInv, OwnGenerations, Ongoing
  <1>19. CountsBehind'
    BY DEF IInv, CountsBehind
  <1> QED
    BY <1>14, <1>16, <1>17, <1>18, <1>19 DEF OwnGenerations

LEMMA RebuildInv ==
  ASSUME IInv, NEW w \in Rebuilders, RebuildStepOf(w)
  PROVE  Snapshots' /\ OwnGenerations' /\ CountsBehind'
  <1>0. rebuild \in [Rebuilders -> Rebuild] /\ redis \in Keys /\ RebuildOK(rebuild[w])
    BY Typed DEF IInv
  <1>1. ASSUME rebuild[w].step # "idle", Fail(w) \/ Finish(w)
        PROVE  Ongoing /\ (\A g \in Generations : RebuildKept(g)) /\ rebuild'[w].step \notin Unpublished
    <2>1. /\ \A v \in Rebuilders : v # w => rebuild'[v] = rebuild[v]
          /\ rebuild'[w].step \in {"idle", "cleanup"}
          /\ rebuild'[w].step = "cleanup" => rebuild'[w].generation = rebuild[w].generation
      <3>1. PICK b : /\ rebuild' = [rebuild EXCEPT ![w] = b]
                     /\ \/ b = NoRebuild
                        \/ b = [NoRebuild EXCEPT !.step = "cleanup",
                                                 !.generation = rebuild[w].generation]
        BY <1>1 DEF Fail, Finish
      <3>2. b.step \in {"idle", "cleanup"} /\ (b.step = "cleanup" => b.generation = rebuild[w].generation)
        <4>1. CASE b = NoRebuild
          BY <4>1 DEF NoRebuild
        <4>2. CASE b = [NoRebuild EXCEPT !.step = "cleanup", !.generation = rebuild[w].generation]
          BY <4>2 DEF NoRebuild
        <4> QED
          BY <3>1, <4>1, <4>2
      <3> QED
        BY <1>0, <3>1, <3>2
    <2>2. Ongoing
      BY <1>1, <2>1 DEF Ongoing, Unpublished
    <2>3. \A g \in Generations : RebuildKept(g)
      BY <2>1 DEF RebuildKept, Building
    <2> QED
      BY <2>1, <2>2, <2>3 DEF Unpublished
  <1>2. ASSUME rebuild[w].step \in Building, rebuild[w].step \in Unpublished,
               NEW v, rebuild' = [rebuild EXCEPT ![w] = v], v.generation = rebuild[w].generation, v.scores = rebuild[w].scores
        PROVE  Ongoing /\ \A g \in Generations : RebuildKept(g)
    <2>1. rebuild'[w] = v /\ \A u \in Rebuilders : u # w => rebuild'[u] = rebuild[u]
      BY <1>0, <1>2
    <2>2. Ongoing
      BY <1>2, <2>1 DEF Ongoing, Building, Unpublished
    <2>3. \A g \in Generations : RebuildKept(g)
      BY <1>2, <2>1 DEF RebuildKept, Building
    <2> QED
      BY <2>2, <2>3
  <1>3. CASE ReadPointer(w)
    BY <1>3, ReadPointerInv
  <1>4. CASE ReadScores(w)
    BY <1>4, ReadScoresInv
  <1>5. CASE ReadRevision(w)
    <2>1. rebuild[w].step = "revision" /\ UNCHANGED <<board, redis, made, read, faults>>
      BY <1>5 DEF ReadRevision
    <2>2. PICK v : v = [rebuild[w] EXCEPT !.step = "publish", !.revision = Revision]
      OBVIOUS
    <2>3. /\ rebuild' = [rebuild EXCEPT ![w] = v] /\ v.step = "publish"
          /\ v.generation = rebuild[w].generation /\ v.scores = rebuild[w].scores
      BY <1>0, <1>5, <2>2 DEF ReadRevision, Rebuild
    <2>4. Ongoing /\ \A g \in Generations : RebuildKept(g)
      BY <1>2, <2>1, <2>3 DEF Building, Unpublished
    <2> QED
      BY <2>1, <2>4, Frame, ReadsIdle, HarmlessKeys
  <1>6. CASE Publish(w)
    <2>1. rebuild[w].step = "publish" /\ UNCHANGED <<board, made, read, faults>>
          /\ redis' = Published(rebuild[w])
      BY <1>6 DEF Publish
    <2>2. PICK v : v = [rebuild[w] EXCEPT !.step = "verify"]
      OBVIOUS
    <2>3. /\ rebuild' = [rebuild EXCEPT ![w] = v] /\ v.step = "verify" /\ rebuild'[w] = v
          /\ v.generation = rebuild[w].generation /\ v.scores = rebuild[w].scores
      BY <1>0, <1>6, <2>2 DEF Publish, Goto, Rebuild
    <2>4. Ongoing /\ \A g \in Generations : RebuildKept(g)
      BY <1>2, <2>1, <2>3 DEF Building, Unpublished
    <2>5. rebuild'[w].step \notin Unpublished
      BY <2>3 DEF Unpublished
    <2> QED
      BY <2>1, <2>4, <2>5, PublishInv
  <1>7. CASE LosePublish(w)
    <2>1. rebuild[w].step = "publish" /\ UNCHANGED <<board, made, read>>
          /\ redis' = Published(rebuild[w]) /\ Fail(w)
      BY <1>7 DEF LosePublish
    <2> QED
      BY <1>1, <2>1, PublishInv
  <1>8. CASE Verify(w)
    <2>1. rebuild[w].step = "verify" /\ UNCHANGED <<board, redis, made, read, faults>>
      BY <1>8 DEF Verify
    <2>2. CASE Fail(w) \/ Finish(w)
      BY <1>1, <2>1, <2>2, Frame, ReadsIdle, HarmlessKeys
    <2>3. CASE rebuild' = [rebuild EXCEPT ![w] =
                 [NoRebuild EXCEPT !.step = "retire", !.previous = rebuild[w].previous,
                                   !.generation = rebuild[w].generation]]
      <3>1. /\ \A v \in Rebuilders : v # w => rebuild'[v] = rebuild[v]
            /\ rebuild'[w].step = "retire" /\ rebuild'[w].generation = rebuild[w].generation
        BY <1>0, <2>3 DEF NoRebuild
      <3>2. Ongoing
        BY <2>1, <3>1 DEF Ongoing, Unpublished
      <3>3. \A g \in Generations : RebuildKept(g)
        BY <3>1 DEF RebuildKept, Building
      <3> QED
        BY <2>1, <3>2, <3>3, Frame, ReadsIdle, HarmlessKeys
    <2> QED
      BY <1>8, <2>2, <2>3 DEF Verify
  <1>9. CASE Retire(w)
    <2>1. rebuild[w].step = "retire" /\ UNCHANGED <<board, made, read, faults>> /\ Finish(w)
      BY <1>9 DEF Retire
    <2>2. redis'.members = redis.members /\ redis'.players = redis.players
          /\ redis'.metadata = redis.metadata
      BY <1>0, <1>9 DEF Retire, Keys
    <2>3. \A g \in Generations : Harmed(g)
      BY <2>2 DEF Harmed
    <2> QED
      BY <1>1, <2>1, <2>3, Frame, ReadsIdle
  <1>10. CASE DeferRetire(w)
    <2>1. rebuild[w].step # "idle" /\ Finish(w) /\ UNCHANGED <<board, redis, made, read>>
      BY <1>10 DEF DeferRetire
    <2> QED
      BY <1>1, <2>1, Frame, ReadsIdle, HarmlessKeys
  <1>11. CASE FailRebuild(w)
    <2>1. rebuild[w].step # "idle" /\ Fail(w) /\ UNCHANGED <<board, redis, made, read>>
      BY <1>11 DEF FailRebuild
    <2> QED
      BY <1>1, <2>1, Frame, ReadsIdle, HarmlessKeys
  <1>12. CASE Cleanup(w)
    <2>1. rebuild[w].step # "idle" /\ Finish(w) /\ UNCHANGED <<board, made, read>>
      BY <1>12 DEF Cleanup
    <2>2. PICK g \in Generations : g = rebuild[w].generation
      BY <1>0, <2>1 DEF RebuildOK
    <2>3. HarmOnly
      BY <1>12, <2>2, DeletedHarm DEF Cleanup, IInv
    <2> QED
      BY <1>1, <2>1, <2>3, Frame, ReadsIdle DEF HarmOnly
  <1>13. CASE CrashRebuild(w)
    <2>1. rebuild[w].step # "idle" /\ Finish(w) /\ UNCHANGED <<board, redis, made, read>>
      BY <1>13 DEF CrashRebuild
    <2> QED
      BY <1>1, <2>1, Frame, ReadsIdle, HarmlessKeys
  <1> QED
    BY <1>3, <1>4, <1>5, <1>6, <1>7, <1>8, <1>9, <1>10, <1>11, <1>12, <1>13 DEF RebuildStepOf

------------------------------------------------------------------------------
(***************************************************************************)
(* Steps of a request.                                                     *)
(***************************************************************************)
\* A request that does not pass the metadata or pick up a rank adds nothing.
LEMMA QuietRead ==
  ASSUME IInv, UNCHANGED <<board, redis, made, rebuild>>, CountsKept,
         \A g \in Generations : ReadKept(g)
  PROVE  Snapshots' /\ OwnGenerations' /\ CountsBehind'
  BY Frame, BuildsIdle, HarmlessKeys

\* A request that passes the metadata, or picks up a rank, of a generation that
\* is there and whose prefix the request agrees with.
LEMMA AcceptingRead ==
  ASSUME IInv, UNCHANGED <<board, redis, made, rebuild>>, NEW r \in Readers,
         NEW g \in Generations, NEW t, read' = [read EXCEPT ![r] = t], read[r].step # "idle",
         t.generation = g, t.step \in Validated, t.count = read[r].count, ~Blank(g),
         \A n \in 0 .. Len(board) : Holds(g, n) =>
           /\ t.count = n
           /\ t.step = "rank" => t.rank = Garbage \/ IsBest(Prefix(n), t.ask.player, t.rank)
  PROVE  Snapshots' /\ OwnGenerations' /\ CountsBehind'
  <1>0. read \in [Readers -> Read]
    BY DEF IInv, TypeOK
  <1>1. read'[r] = t /\ \A q \in Readers : q # r => read'[q] = read[q]
    BY <1>0
  <1>2. PICK n \in 0 .. Len(board) : Holds(g, n)
    BY DEF IInv, Snapshots
  <1>3. Holds(g, n)'
    <2>1. ASSUME NEW q \in Readers, read'[q].generation = g, read'[q].step \in Validated
          PROVE  /\ read'[q].count = n
                 /\ read'[q].step = "rank" =>
                      read'[q].rank = Garbage \/ IsBest(Prefix(n), read'[q].ask.player, read'[q].rank)
      <3>1. CASE q = r
        BY <1>1, <1>2, <3>1
      <3>2. CASE q # r
        BY <1>1, <1>2, <2>1, <3>2 DEF Holds
      <3> QED
        BY <3>1, <3>2
    <2>2. Prefix(n)' = Prefix(n)
      BY BoardSame
    <2>3. PICK S : S = Prefix(n) /\ S = Prefix(n)'
      BY <2>2
    <2>4. /\ \A i \in DOMAIN redis.members[g] :
               redis.members[g][i] # Garbage => redis.members[g][i] \in Entries(S)
          /\ \A p \in Players :
               redis.players[g][p] \in {None, Garbage} \/ IsBest(S, p, redis.players[g][p])
          /\ redis.metadata[g] \notin {None, Garbage} => redis.metadata[g].count = n
          /\ \A w \in Rebuilders : rebuild[w].generation = g /\ rebuild[w].step \in Building =>
               rebuild[w].scores = Ordered(S)
      BY <1>2, <2>3 DEF Holds
    <2>5. \A q \in Readers : read'[q].generation = g /\ read'[q].step \in Validated =>
            /\ read'[q].count = n
            /\ read'[q].step = "rank" =>
                 read'[q].rank = Garbage \/ IsBest(S, read'[q].ask.player, read'[q].rank)
      BY <2>1, <2>3
    <2>6. \A i \in DOMAIN redis.members[g] :
            redis.members[g][i] # Garbage => redis.members[g][i] \in Entries(Prefix(n))'
      BY <2>3, <2>4 DEF Entries, EntryOf, Position
    <2>7. ASSUME NEW p \in Players
          PROVE  redis.players[g][p] \in {None, Garbage} \/ IsBest(Prefix(n), p, redis.players[g][p])'
      <3>1. redis.players[g][p] \in {None, Garbage} \/ IsBest(S, p, redis.players[g][p])
        BY <2>4
      <3> QED
        BY <2>3, <3>1 DEF IsBest, EntryOf, Position
    <2>8. ASSUME NEW w \in Rebuilders, rebuild[w].generation = g, rebuild[w].step \in Building
          PROVE  rebuild[w].scores = Ordered(Prefix(n))'
      <3>1. rebuild[w].scores = Ordered(S)
        BY <2>4, <2>8
      <3> QED
        BY <2>3, <3>1 DEF Ordered, Position
    <2>9. ASSUME NEW q \in Readers, read'[q].generation = g, read'[q].step \in Validated
          PROVE  /\ read'[q].count = n
                 /\ read'[q].step = "rank" =>
                      read'[q].rank = Garbage \/ IsBest(Prefix(n), read[q].ask.player, read[q].rank)'
      <3>1. /\ read'[q].count = n
            /\ read'[q].step = "rank" =>
                 read'[q].rank = Garbage \/ IsBest(S, read'[q].ask.player, read'[q].rank)
        BY <2>5, <2>9
      <3> QED
        BY <2>3, <3>1 DEF IsBest, EntryOf, Position
    <2> QED
      BY <2>4, <2>6, <2>7, <2>8, <2>9 DEF Holds
  <1>4. ASSUME NEW h \in Generations, h # g PROVE ReadKept(h)
    BY <1>1, <1>4 DEF ReadKept
  <1>5. ASSUME NEW h \in Generations, h # g PROVE \E k \in 0 .. Len(board)' : Holds(h, k)'
    <2>1. PICK k \in 0 .. Len(board) : Holds(h, k)
      BY DEF IInv, Snapshots
    <2>2. Holds(h, k)'
      BY <1>4, <1>5, <2>1, BoardSame, BuildsIdle, HarmlessKeys, HoldsKept
    <2> QED
      BY <2>2, BoardSame
  <1>6. Snapshots'
    BY <1>2, <1>3, <1>5, BoardSame DEF Snapshots
  <1>7. \A h \in Generations : Blank(h) => Blank(h)'
    BY <1>4, BlankKept, HarmlessKeys
  <1>8. ASSUME NEW w \in Rebuilders, rebuild[w].step \in Unpublished PROVE Blank(rebuild[w].generation)'
    <2>1. PICK h \in Generations : h = rebuild[w].generation
      BY <1>8 DEF IInv, TypeOK, Unpublished
    <2>2. Blank(h)'
      BY <1>7, <1>8, <2>1 DEF IInv, OwnGenerations
    <2> QED
      BY <2>1, <2>2 DEF Blank
  <1>9. OwnGenerations'
    BY <1>7, <1>8 DEF IInv, OwnGenerations
  <1>10. CountsBehind'
    BY <1>1 DEF IInv, CountsBehind
  <1> QED
    BY <1>6, <1>9, <1>10

LEMMA QuietUpdate ==
  ASSUME IInv, UNCHANGED <<board, redis, made, rebuild>>, NEW r \in Readers, NEW t,
         read' = [read EXCEPT ![r] = t], t.step # "idle" => t.count <= Len(board),
         t.step \in Validated => /\ read[r].step \in Validated /\ t.step # "rank"
                                 /\ t.generation = read[r].generation /\ t.count = read[r].count
  PROVE  Snapshots' /\ OwnGenerations' /\ CountsBehind'
  <1>1. read'[r] = t /\ \A q \in Readers : q # r => read'[q] = read[q]
    BY DEF IInv, TypeOK
  <1>2. CountsKept
    BY <1>1 DEF CountsKept, IInv, CountsBehind
  <1>3. \A g \in Generations : ReadKept(g)
    BY <1>1 DEF ReadKept
  <1> QED
    BY <1>2, <1>3, QuietRead

LEMMA ReadInv ==
  ASSUME IInv, NEW r \in Readers, ReadStepOf(r)
  PROVE  Snapshots' /\ OwnGenerations' /\ CountsBehind'
  <1>0. /\ read \in [Readers -> Read] /\ ReadOK(read[r]) /\ redis \in Keys
        /\ Len(board) \in Nat /\ board \in Seq(Scores)
        /\ read[r].step # "idle" => read[r].count <= Len(board)
    BY Typed DEF IInv, CountsBehind
  <1>1. ASSUME read[r].step # "idle", FallBack(r), UNCHANGED <<board, redis, made, rebuild>>
        PROVE  Snapshots' /\ OwnGenerations' /\ CountsBehind'
    <2>1. PICK t : t = [NoRead EXCEPT !.step = "fallback", !.ask = read[r].ask,
                                      !.count = read[r].count]
      OBVIOUS
    <2>2. t.step = "fallback" /\ t.count = read[r].count
      BY <2>1 DEF NoRead
    <2> QED
      BY <1>0, <1>1, <2>1, <2>2, QuietUpdate DEF FallBack, Validated
  <1>2. ASSUME NEW a, Give(r, a), UNCHANGED <<board, redis, made, rebuild>>
        PROVE  Snapshots' /\ OwnGenerations' /\ CountsBehind'
    <2>1. PICK t : t = [NoRead EXCEPT !.answer = a]
      OBVIOUS
    <2>2. t.step = "idle"
      BY <2>1 DEF NoRead
    <2> QED
      BY <1>2, <2>1, <2>2, QuietUpdate DEF Give, Validated
  <1>3. ASSUME NEW ask \in Asks, ReadCount(r, ask) PROVE Snapshots' /\ OwnGenerations' /\ CountsBehind'
    <2>1. PICK t : t = [NoRead EXCEPT !.step = "revision", !.ask = ask, !.count = Len(board)]
      OBVIOUS
    <2>2. t.step = "revision" /\ t.count <= Len(board)
      BY <1>0, <2>1 DEF NoRead
    <2>3. read' = [read EXCEPT ![r] = t] /\ UNCHANGED <<board, redis, made, rebuild>>
      BY <1>3, <2>1 DEF ReadCount
    <2> QED
      BY <1>0, <2>2, <2>3, QuietUpdate DEF Validated
  <1>4. CASE ReadExpectedRevision(r)
    <2>1. PICK t : t = [read[r] EXCEPT !.step = "pointer", !.revision = Revision]
      OBVIOUS
    <2>2. t.step = "pointer" /\ t.count = read[r].count /\ read[r].step = "revision"
      BY <1>0, <1>4, <2>1 DEF ReadOK, Read, ReadExpectedRevision
    <2>3. read' = [read EXCEPT ![r] = t] /\ UNCHANGED <<board, redis, made, rebuild>>
      BY <1>0, <1>4, <2>1 DEF ReadExpectedRevision
    <2> QED
      BY <1>0, <2>2, <2>3, QuietUpdate DEF Validated
  <1>5. CASE GetGeneration(r)
    <2>1. read[r].step = "pointer" /\ UNCHANGED <<board, redis, made, rebuild>>
      BY <1>5 DEF GetGeneration
    <2>2. PICK t : t = [read[r] EXCEPT !.step = "metadata", !.generation = redis.pointer]
      OBVIOUS
    <2>3. t.step = "metadata" /\ t.count = read[r].count
      BY <1>0, <2>2 DEF ReadOK, Read
    <2>4. FallBack(r) \/ read' = [read EXCEPT ![r] = t]
      BY <1>0, <1>5, <2>2 DEF GetGeneration
    <2>5. CASE FallBack(r)
      BY <1>1, <2>1, <2>5
    <2>6. CASE read' = [read EXCEPT ![r] = t]
      BY <1>0, <2>1, <2>3, <2>6, QuietUpdate DEF Validated
    <2> QED
      BY <2>4, <2>5, <2>6
  <1>6. CASE GetMetadata(r)
    <2>1. read[r].step = "metadata" /\ UNCHANGED <<board, redis, made, rebuild>>
      BY <1>6 DEF GetMetadata
    <2>2. PICK g \in Generations : g = read[r].generation
      BY <1>0, <2>1 DEF ReadOK
    <2>3. PICK t : t = [read[r] EXCEPT !.step = "cardinality"]
      OBVIOUS
    <2>4. t.step = "cardinality" /\ t.count = read[r].count /\ t.generation = g
      BY <1>0, <2>2, <2>3 DEF ReadOK, Read
    <2>5. CASE FallBack(r)
      BY <1>1, <2>1, <2>5
    <2>6. CASE redis.metadata[g] = [count |-> read[r].count, revision |-> read[r].revision]
               /\ Move(r, "cardinality")
      <3>1. PICK x : x = redis.metadata[g]
        OBVIOUS
      <3>2. x \in Metadata \cup {Garbage, None}
        BY <1>0, <3>1 DEF Keys
      <3>3. read[r].count \in Nat
        BY <1>0, <2>1 DEF ReadOK
      <3>4. x \in Metadata /\ x.count = read[r].count
        <4>1. read[r].revision \in Nat
          BY <1>0, <2>1 DEF ReadOK
        <4> QED
          BY <2>6, <3>1, <3>3, <4>1 DEF Metadata
      <3>5. x \notin {None, Garbage}
        BY <3>4, NullIsNot
      <3>6. ~Blank(g)
        BY <3>1, <3>5 DEF Blank
      <3>7. \A n \in 0 .. Len(board) : Holds(g, n) => t.count = n
        BY <2>4, <3>1, <3>4, <3>5 DEF Holds
      <3>8. read' = [read EXCEPT ![r] = t]
        BY <1>0, <2>3, <2>6 DEF Move
      <3> QED
        BY <2>1, <2>4, <3>6, <3>7, <3>8, AcceptingRead DEF Validated
    <2> QED
      BY <1>6, <2>2, <2>5, <2>6 DEF GetMetadata, VerifyMetadata
  <1>7. CASE GetCardinality(r)
    <2>1. read[r].step = "cardinality" /\ UNCHANGED <<board, redis, made, rebuild>>
      BY <1>7 DEF GetCardinality
    <2>2. PICK t : t = [read[r] EXCEPT !.step = "members"]
      OBVIOUS
    <2>3. t.step = "members" /\ t.count = read[r].count /\ t.generation = read[r].generation
      BY <1>0, <2>2 DEF ReadOK, Read
    <2>4. FallBack(r) \/ read' = [read EXCEPT ![r] = t]
      BY <1>0, <1>7, <2>2 DEF GetCardinality, Move
    <2>5. CASE FallBack(r)
      BY <1>1, <2>1, <2>5
    <2>6. CASE read' = [read EXCEPT ![r] = t]
      BY <1>0, <2>1, <2>3, <2>6, QuietUpdate DEF Validated
    <2> QED
      BY <2>4, <2>5, <2>6
  <1>8. CASE GetPage(r)
    <2>1. read[r].step = "members" /\ UNCHANGED <<board, redis, made, rebuild>>
      BY <1>8 DEF GetPage
    <2>2. FallBack(r) \/ \E a : Give(r, a)
      BY <1>8 DEF GetPage
    <2> QED
      BY <1>1, <1>2, <2>1, <2>2
  <1>9. CASE GetPlayer(r)
    <2>1. read[r].step = "members" /\ UNCHANGED <<board, redis, made, rebuild>>
          /\ read[r].ask.kind = "rank"
      BY <1>9 DEF GetPlayer
    <2>2. PICK g \in Generations : g = read[r].generation
      BY <1>0, <2>1 DEF ReadOK
    <2>3. PICK p \in Players : p = read[r].ask.player
      BY <1>0, <2>1, AskAssumption DEF ReadOK
    <2>4. PICK x : x = redis.players[g][p]
      OBVIOUS
    <2>5. CASE x = None
      <3>1. FallBack(r)
        BY <1>9, <2>2, <2>3, <2>4, <2>5 DEF GetPlayer
      <3> QED
        BY <1>1, <2>1, <3>1
    <2>6. CASE x # None
      <3>1. PICK t : t = [read[r] EXCEPT !.step = "rank", !.rank = x]
        OBVIOUS
      <3>2. /\ t.step = "rank" /\ t.count = read[r].count /\ t.generation = g
            /\ t.ask.player = p /\ t.rank = x
        BY <1>0, <2>2, <2>3, <3>1 DEF ReadOK, Read
      <3>3. read' = [read EXCEPT ![r] = t]
        BY <1>0, <1>9, <2>2, <2>3, <2>4, <2>6, <3>1 DEF GetPlayer
      <3>4. ASSUME NEW n \in 0 .. Len(board), Holds(g, n)
            PROVE  t.count = n /\ (t.rank = Garbage \/ IsBest(Prefix(n), t.ask.player, t.rank))
        <4>1. read[r].count = n
          BY <2>1, <2>2, <3>4 DEF Holds, Validated
        <4>2. x = Garbage \/ IsBest(Prefix(n), p, x)
          BY <2>4, <2>6, <3>4 DEF Holds
        <4> QED
          BY <3>2, <4>1, <4>2
      <3>5. ~Blank(g)
        BY <2>4, <2>6 DEF Blank
      <3> QED
        BY <2>1, <3>2, <3>3, <3>4, <3>5, AcceptingRead DEF Validated
    <2> QED
      BY <2>5, <2>6
  <1>10. CASE GetRank(r)
    <2>1. read[r].step = "rank" /\ UNCHANGED <<board, redis, made, rebuild>>
      BY <1>10 DEF GetRank
    <2>2. FallBack(r) \/ \E a : Give(r, a)
      BY <1>10 DEF GetRank
    <2> QED
      BY <1>1, <1>2, <2>1, <2>2
  <1>11. CASE RedisFails(r)
    BY <1>1, <1>11 DEF RedisFails
  <1>12. CASE ReadCanonical(r)
    BY <1>2, <1>12 DEF ReadCanonical
  <1>13. CASE AbortRead(r)
    BY <1>13, QuietUpdate DEF AbortRead, NoRead, Validated
  <1> QED
    BY <1>3, <1>4, <1>5, <1>6, <1>7, <1>8, <1>9, <1>10, <1>11, <1>12, <1>13 DEF ReadStepOf

------------------------------------------------------------------------------
(***************************************************************************)
(* The invariant.                                                          *)
(***************************************************************************)
LEMMA InitInv == Init => IInv
  <1> SUFFICES ASSUME Init PROVE IInv
    OBVIOUS
  <1>0. <<>> \in Seq(Scores) /\ <<>> \in Seq(Member \cup {Garbage}) /\ Len(<<>>) = 0
    BY EmptySeq
  <1>1. NoKeys \in Keys
    BY <1>0 DEF NoKeys, Keys
  <1>2. TypeOK
    BY <1>0, <1>1, NoRebuildOK, NoReadOK, Typed, BoundAssumption DEF Init, RebuildOK, ReadOK
  <1>3. \A g \in Generations : Blank(g)
    BY DEF Init, Blank, NoKeys, NoRead, Validated
  <1>4. Snapshots
    <2>1. ASSUME NEW g \in Generations PROVE Holds(g, 0)
      BY DEF Init, Holds, NoKeys, NoRebuild, NoRead, Validated, Building
    <2> QED
      BY <1>0, <2>1 DEF Init, Snapshots
  <1>5. OwnGenerations
    BY <1>3 DEF Init, OwnGenerations, NoRebuild, Unpublished
  <1>6. CountsBehind
    BY DEF Init, CountsBehind, NoRead
  <1> QED
    BY <1>2, <1>4, <1>5, <1>6 DEF IInv

LEMMA StepInv == IInv /\ [Next]_vars => IInv'
  <1> SUFFICES ASSUME IInv, [Next]_vars PROVE IInv'
    OBVIOUS
  <1>1. CASE \E s \in Scores : SubmitScore(s)
    BY <1>1, SubmitInv DEF IInv
  <1>2. CASE \/ \E g \in Generations : DamageMembers(g) \/ DamageMetadata(g) \/ DamagePlayers(g)
             \/ DamagePointer \/ Flush
    <2>1. HarmOnly /\ UNCHANGED <<board, made, rebuild, read>> /\ faults' \in 0 .. MaxFaults
      BY <1>2, FaultHarm DEF IInv
    <2>2. TypeOK'
      BY <2>1 DEF HarmOnly, IInv, TypeOK
    <2> QED
      BY <2>1, <2>2, HarmInv DEF IInv
  <1>3. ASSUME NEW g \in Generations, Expire(g) PROVE IInv'
    <2>1. HarmOnly /\ UNCHANGED <<board, made, rebuild, read, faults>>
      BY <1>3, DeletedHarm DEF IInv, Expire
    <2>2. TypeOK'
      BY <2>1 DEF HarmOnly, IInv, TypeOK
    <2> QED
      BY <2>1, <2>2, HarmInv DEF IInv
  <1>4. ASSUME NEW w \in Rebuilders, RebuildStepOf(w) PROVE IInv'
    BY <1>4, RebuildType, RebuildInv DEF IInv
  <1>5. ASSUME NEW r \in Readers, ReadStepOf(r) PROVE IInv'
    BY <1>5, ReadType, ReadInv DEF IInv
  <1>6. CASE UNCHANGED vars
    <2>1. UNCHANGED <<board, redis, made, rebuild, read, faults>>
      BY <1>6 DEF vars
    <2>2. TypeOK'
      BY <2>1 DEF IInv, TypeOK
    <2>3. HarmOnly
      BY <2>1, HarmlessKeys DEF HarmOnly, IInv, TypeOK
    <2> QED
      BY <2>1, <2>2, <2>3, HarmInv DEF IInv
  <1> QED
    BY <1>1, <1>2, <1>3, <1>4, <1>5, <1>6 DEF Next, RebuildStepOf, ReadStepOf

\* Whatever rebuilds, requests, submissions and failures do, every generation is of
\* one prefix of the board, and a request that was let in is of the same prefix.
THEOREM Invariance == Spec => []IInv
  BY InitInv, StepInv, PTL DEF Spec

\* Every reachable state is well typed.
THEOREM TypeCorrect == Spec => []TypeOK
  <1>1. IInv => TypeOK
    BY DEF IInv
  <1> QED
    BY <1>1, Invariance, PTL

------------------------------------------------------------------------------
(***************************************************************************)
(* Refinement.                                                             *)
(***************************************************************************)
LEMMA RefinesInit == Init => Board!Init
  BY DEF Init, Board!Init, Call, Answers, NoRead

LEMMA RefinesRecord ==
  ASSUME NEW s \in Scores, SubmitScore(s)
  PROVE  Board!Record(s)
  BY DEF SubmitScore, Board!Record, Committed, Call, Answers

LEMMA RefinesAsk ==
  ASSUME IInv, NEW r \in Readers, NEW ask \in Asks, ReadCount(r, ask)
  PROVE  Board!Ask(r, ask)
  <1>1. PICK t : t = [NoRead EXCEPT !.step = "revision", !.ask = ask, !.count = Len(board)]
    OBVIOUS
  <1>2. t.step = "revision" /\ t.ask = ask /\ t.count = Len(board) /\ t.answer = None
    BY <1>1 DEF NoRead
  <1>3. read' = [read EXCEPT ![r] = t] /\ read[r].step = "idle" /\ UNCHANGED board
    BY <1>1 DEF ReadCount
  <1>4. read'[r] = t /\ \A q \in Readers : q # r => read'[q] = read[q]
    BY <1>3 DEF IInv, TypeOK
  <1>5. Call[r] = None /\ Call' = [Call EXCEPT ![r] = [ask |-> ask, from |-> Len(board)]]
    BY <1>2, <1>3, <1>4 DEF Call
  <1>6. Answers' = [Answers EXCEPT ![r] = None]
    BY <1>2, <1>4 DEF Answers
  <1> QED
    BY <1>3, <1>5, <1>6 DEF Board!Ask

\* An answer that is that of a prefix between the request and now.
LEMMA RefinesReply ==
  ASSUME IInv, NEW r \in Readers, NEW a, Give(r, a), read[r].step # "idle", UNCHANGED board,
         NEW n \in read[r].count .. Len(board), a = Board!Answer(Prefix(n), read[r].ask)
  PROVE  Board!Reply(r)
  <1>1. PICK t : t = [NoRead EXCEPT !.answer = a]
    OBVIOUS
  <1>2. t.step = "idle" /\ t.answer = a
    BY <1>1 DEF NoRead
  <1>3. read' = [read EXCEPT ![r] = t]
    BY <1>1 DEF Give
  <1>4. read'[r] = t /\ \A q \in Readers : q # r => read'[q] = read[q]
    BY <1>3 DEF IInv, TypeOK
  <1>5. read[r].ask \in Asks /\ read[r].count \in Nat
    BY DEF IInv, TypeOK
  <1>6. Call[r] = [ask |-> read[r].ask, from |-> read[r].count]
    BY DEF Call
  <1>7. Call[r] # None
    BY <1>5, <1>6, NullAssumption
  <1>8. Call' = [Call EXCEPT ![r] = None]
    BY <1>2, <1>4 DEF Call
  <1>9. Answers' = [Answers EXCEPT ![r] = a]
    BY <1>2, <1>4 DEF Answers
  <1>10. Board!Prefix(n) = Prefix(n)
    BY DEF Board!Prefix, Prefix
  <1>11. n \in Call[r].from .. Len(board) /\ a = Board!Answer(Board!Prefix(n), Call[r].ask)
    BY <1>6, <1>10
  <1> QED
    BY <1>7, <1>8, <1>9, <1>11 DEF Board!Reply

\* A step of a request that gives no answer.
LEMMA RefinesQuiet ==
  ASSUME IInv, NEW r \in Readers, NEW t, read' = [read EXCEPT ![r] = t], UNCHANGED board,
         read[r].step # "idle", t.step # "idle", t.ask = read[r].ask, t.count = read[r].count,
         t.answer = read[r].answer
  PROVE  UNCHANGED Board!vars
  <1>1. read'[r] = t /\ \A q \in Readers : q # r => read'[q] = read[q]
    BY DEF IInv, TypeOK
  <1>2. Call' = Call /\ Answers' = Answers
    BY <1>1 DEF Call, Answers
  <1> QED
    BY <1>2 DEF Board!vars

LEMMA RefinesAbandon ==
  ASSUME IInv, NEW r \in Readers, AbortRead(r)
  PROVE  Board!Abandon(r)
  <1>1. read' = [read EXCEPT ![r] = NoRead] /\ read[r].step # "idle" /\ UNCHANGED board
    BY DEF AbortRead
  <1>2. read'[r] = NoRead /\ \A q \in Readers : q # r => read'[q] = read[q]
    BY <1>1 DEF IInv, TypeOK
  <1>3. read[r].ask \in Asks /\ read[r].count \in Nat /\ read[r].answer = None
    BY <1>1 DEF IInv, TypeOK
  <1>4. Call[r] # None
    BY <1>1, <1>3, NullAssumption DEF Call
  <1>5. Call' = [Call EXCEPT ![r] = None]
    <2>1. NoRead.step = "idle"
      BY DEF NoRead
    <2>2. \A q \in Readers : q # r => Call'[q] = Call[q]
      BY <1>2 DEF Call
    <2>3. Call'[r] = None
      BY <1>2, <2>1 DEF Call
    <2> QED
      BY <2>2, <2>3 DEF Call
  <1>6. Answers' = Answers
    BY <1>2, <1>3 DEF Answers, NoRead
  <1> QED
    BY <1>1, <1>4, <1>5, <1>6 DEF Board!Abandon

LEMMA RefinesPage ==
  ASSUME IInv, NEW r \in Readers, GetPage(r), ~FallBack(r)
  PROVE  Board!Reply(r)
  <1>1. /\ read[r].step = "members" /\ read[r].ask.kind = "page" /\ UNCHANGED board
        /\ read[r].ask \in Asks /\ read[r].generation \in Generations
        /\ board \in Seq(Scores) /\ redis \in Keys
    BY DEF IInv, TypeOK, GetPage
  <1>2. PICK g, ask, m : /\ g \in Generations /\ g = read[r].generation
                         /\ ask \in Asks /\ ask = read[r].ask
                         /\ m = redis.members[g]
    BY <1>1
  <1>3. PICK n \in 0 .. Len(board) : Holds(g, n)
    BY <1>2 DEF IInv, Snapshots
  <1>4. read[r].count = n
    BY <1>1, <1>2, <1>3 DEF Holds, Validated
  <1>5. /\ Rows(m, ask) = {k \in 1 .. n : ask.offset < k /\ k <= ask.offset + ask.limit + 1}
        /\ \A k \in Rows(m, ask) : m[k] # Garbage /\ m[k].rank = k
        /\ Give(r, Page(m, ask))
    BY <1>2, <1>4 DEF GetPage, ExpectedRows, ValidMember
  <1>6. PICK S : S = Prefix(n)
    OBVIOUS
  <1>7. S \subseteq Nat /\ IsFiniteSet(S) /\ Cardinality(S) = n
    BY <1>6, PrefixFacts DEF IInv
  <1>8. \A k \in Rows(m, ask) : m[k] \in Entries(S) /\ m[k].rank = k
    BY <1>2, <1>3, <1>5, <1>6 DEF Holds, Rows
  <1>9. Page(m, ask) = Board!Answer(S, ask)
    BY <1>1, <1>2, <1>5, <1>7, <1>8, PageIsAnswer
  <1>10. n \in read[r].count .. Len(board)
    BY <1>1, <1>4
  <1>11. Page(m, ask) = Board!Answer(Prefix(n), read[r].ask)
    BY <1>2, <1>6, <1>9
  <1>12. PICK a : a = Page(m, ask)
    OBVIOUS
  <1> QED
    BY <1>1, <1>5, <1>10, <1>11, <1>12, RefinesReply

LEMMA RefinesRank ==
  ASSUME IInv, NEW r \in Readers, GetRank(r), ~FallBack(r)
  PROVE  Board!Reply(r)
  <1>1. /\ read[r].step = "rank" /\ read[r].ask.kind = "rank" /\ UNCHANGED board
        /\ read[r].ask \in Asks /\ read[r].generation \in Generations
        /\ board \in Seq(Scores)
    BY DEF IInv, TypeOK, GetRank
  <1>2. PICK g, ask, x : /\ g \in Generations /\ g = read[r].generation
                         /\ ask \in Asks /\ ask = read[r].ask
                         /\ x = read[r].rank
    BY <1>1
  <1>3. PICK n \in 0 .. Len(board) : Holds(g, n)
    BY <1>2 DEF IInv, Snapshots
  <1>4. read[r].count = n /\ (x = Garbage \/ IsBest(Prefix(n), ask.player, x))
    BY <1>1, <1>2, <1>3 DEF Holds, Validated
  <1>5. x # Garbage /\ Give(r, [items |-> {x}, more |-> FALSE])
    BY <1>2 DEF GetRank, ValidMember
  <1>6. Prefix(n) \subseteq Nat
    BY PrefixFacts DEF IInv
  <1>7. [items |-> {x}, more |-> FALSE] = Board!Answer(Prefix(n), ask)
    BY <1>1, <1>2, <1>4, <1>5, <1>6, BestIsAnswer
  <1>8. n \in read[r].count .. Len(board)
    BY <1>1, <1>4
  <1> QED
    BY <1>1, <1>2, <1>5, <1>7, <1>8, RefinesReply

LEMMA RefinesCanonical ==
  ASSUME IInv, NEW r \in Readers, ReadCanonical(r)
  PROVE  Board!Reply(r)
  <1>1. /\ read[r].step = "fallback" /\ UNCHANGED board /\ read[r].ask \in Asks
        /\ read[r].count \in Nat /\ read[r].count <= Len(board) /\ Len(board) \in Nat
    BY DEF IInv, TypeOK, CountsBehind, ReadCanonical
  <1>2. PICK ask \in Asks : ask = read[r].ask
    BY <1>1
  <1>3. PICK n \in 0 .. Len(board) : n = Len(board)
    BY <1>1
  <1>4. PICK S : S = Prefix(n) /\ S = Committed
    BY <1>3, WholeBoard DEF IInv
  <1>5. S \subseteq Nat /\ IsFiniteSet(S) /\ Cardinality(S) \in Nat
    <2>1. Prefix(n) \subseteq Nat /\ IsFiniteSet(Prefix(n))
      BY PrefixFacts DEF IInv
    <2>2. S = Prefix(n)
      BY <1>4
    <2>3. S \subseteq Nat /\ IsFiniteSet(S)
      BY <2>1, <2>2
    <2> QED
      BY <2>3, FS_CardinalityType
  <1>6. PICK a : /\ a = (IF ask.kind = "page" THEN Page(Members(Ordered(S)), ask)
                         ELSE [items |-> OwnBest(Members(Ordered(S)), ask.player), more |-> FALSE])
                 /\ Give(r, a)
    BY <1>2, <1>4 DEF ReadCanonical
  <1>7. a = Board!Answer(S, ask)
    <2>1. CASE ask.kind = "page"
      <3>1. PICK m : m = Members(Ordered(S))
        OBVIOUS
      <3>2. DOMAIN m = 1 .. Cardinality(S)
            /\ \A k \in 1 .. Cardinality(S) : m[k] \in Entries(S) /\ m[k].rank = k
        BY <1>5, <3>1, MembersFacts
      <3>3. Rows(m, ask) = {k \in 1 .. Cardinality(S) :
                              ask.offset < k /\ k <= ask.offset + ask.limit + 1}
            /\ \A k \in Rows(m, ask) : m[k] \in Entries(S) /\ m[k].rank = k
        BY <3>2 DEF Rows
      <3>4. Page(m, ask) = Board!Answer(S, ask)
        BY <1>5, <2>1, <3>3, PageIsAnswer
      <3> QED
        BY <1>6, <2>1, <3>1, <3>4
    <2>2. CASE ask.kind # "page"
      <3>1. ask.kind = "rank"
        BY <2>2, AskAssumption
      <3> QED
        BY <1>5, <1>6, <2>2, <3>1, OwnBestIsAnswer
    <2> QED
      BY <2>1, <2>2
  <1>8. n \in read[r].count .. Len(board) /\ a = Board!Answer(Prefix(n), read[r].ask)
    BY <1>1, <1>2, <1>3, <1>4, <1>7
  <1> QED
    BY <1>1, <1>6, <1>8, RefinesReply

LEMMA RefinesRead ==
  ASSUME IInv, NEW r \in Readers, ReadStepOf(r)
  PROVE  Board!Next \/ UNCHANGED Board!vars
  <1>0. ReadOK(read[r]) /\ read \in [Readers -> Read]
    BY Typed DEF IInv
  <1>1. ASSUME read[r].step # "idle", FallBack(r), UNCHANGED board
        PROVE  UNCHANGED Board!vars
    <2>1. PICK t : t = [NoRead EXCEPT !.step = "fallback", !.ask = read[r].ask,
                                      !.count = read[r].count]
      OBVIOUS
    <2>2. t.step = "fallback" /\ t.ask = read[r].ask /\ t.count = read[r].count
          /\ t.answer = None /\ read[r].answer = None
      BY <1>0, <1>1, <2>1 DEF NoRead, ReadOK
    <2> QED
      BY <1>1, <2>1, <2>2, RefinesQuiet DEF FallBack
  <1>2. ASSUME read[r].step # "idle", UNCHANGED board,
               NEW t, read' = [read EXCEPT ![r] = t], t.step # "idle", t.ask = read[r].ask,
               t.count = read[r].count, t.answer = read[r].answer
        PROVE  UNCHANGED Board!vars
    BY <1>2, RefinesQuiet
  <1>3. CASE \E ask \in Asks : ReadCount(r, ask)
    BY <1>3, RefinesAsk DEF Board!Next
  <1>4. CASE ReadExpectedRevision(r)
    <2>1. PICK t : t = [read[r] EXCEPT !.step = "pointer", !.revision = Revision]
      OBVIOUS
    <2>2. /\ t.step = "pointer" /\ t.ask = read[r].ask /\ t.count = read[r].count
          /\ t.answer = read[r].answer /\ read[r].step = "revision"
          /\ read' = [read EXCEPT ![r] = t] /\ UNCHANGED board
      BY <1>0, <1>4, <2>1 DEF Read, ReadExpectedRevision
    <2> QED
      BY <1>2, <2>2
  <1>5. CASE GetGeneration(r)
    <2>1. PICK t : t = [read[r] EXCEPT !.step = "metadata", !.generation = redis.pointer]
      OBVIOUS
    <2>2. /\ t.step = "metadata" /\ t.ask = read[r].ask /\ t.count = read[r].count
          /\ t.answer = read[r].answer /\ read[r].step = "pointer" /\ UNCHANGED board
          /\ FallBack(r) \/ read' = [read EXCEPT ![r] = t]
      BY <1>0, <1>5, <2>1 DEF Read, GetGeneration
    <2> QED
      BY <1>1, <1>2, <2>2
  <1>6. CASE GetMetadata(r)
    <2>1. PICK t : t = [read[r] EXCEPT !.step = "cardinality"]
      OBVIOUS
    <2>2. /\ t.step = "cardinality" /\ t.ask = read[r].ask /\ t.count = read[r].count
          /\ t.answer = read[r].answer /\ read[r].step = "metadata" /\ UNCHANGED board
          /\ FallBack(r) \/ read' = [read EXCEPT ![r] = t]
      BY <1>0, <1>6, <2>1 DEF Read, GetMetadata, Move
    <2> QED
      BY <1>1, <1>2, <2>2
  <1>7. CASE GetCardinality(r)
    <2>1. PICK t : t = [read[r] EXCEPT !.step = "members"]
      OBVIOUS
    <2>2. /\ t.step = "members" /\ t.ask = read[r].ask /\ t.count = read[r].count
          /\ t.answer = read[r].answer /\ read[r].step = "cardinality" /\ UNCHANGED board
          /\ FallBack(r) \/ read' = [read EXCEPT ![r] = t]
      BY <1>0, <1>7, <2>1 DEF Read, GetCardinality, Move
    <2> QED
      BY <1>1, <1>2, <2>2
  <1>8. CASE GetPage(r)
    <2>1. read[r].step = "members" /\ UNCHANGED board
      BY <1>8 DEF GetPage
    <2> QED
      BY <1>1, <1>8, <2>1, RefinesPage DEF Board!Next
  <1>9. CASE GetPlayer(r)
    <2>0. read[r].step = "members" /\ UNCHANGED board
      BY <1>9 DEF GetPlayer
    <2>1. PICK x : x = redis.players[read[r].generation][read[r].ask.player]
      OBVIOUS
    <2>2. PICK t : t = [read[r] EXCEPT !.step = "rank", !.rank = x]
      OBVIOUS
    <2>3. /\ t.step = "rank" /\ t.ask = read[r].ask /\ t.count = read[r].count
          /\ t.answer = read[r].answer
      BY <1>0, <2>2 DEF Read
    <2>4. FallBack(r) \/ read' = [read EXCEPT ![r] = t]
      BY <1>0, <1>9, <2>1, <2>2 DEF GetPlayer
    <2> QED
      BY <1>1, <1>2, <2>0, <2>3, <2>4
  <1>10. CASE GetRank(r)
    <2>1. read[r].step = "rank" /\ UNCHANGED board
      BY <1>10 DEF GetRank
    <2> QED
      BY <1>1, <1>10, <2>1, RefinesRank DEF Board!Next
  <1>11. CASE RedisFails(r)
    BY <1>1, <1>11 DEF RedisFails
  <1>12. CASE ReadCanonical(r)
    BY <1>12, RefinesCanonical DEF Board!Next
  <1>13. CASE AbortRead(r)
    BY <1>13, RefinesAbandon DEF Board!Next
  <1> QED
    BY <1>3, <1>4, <1>5, <1>6, <1>7, <1>8, <1>9, <1>10, <1>11, <1>12, <1>13 DEF ReadStepOf

LEMMA RefinesStep == IInv /\ [Next]_vars => [Board!Next]_(Board!vars)
  <1> SUFFICES ASSUME IInv, [Next]_vars PROVE Board!Next \/ UNCHANGED Board!vars
    OBVIOUS
  <1>1. CASE \E s \in Scores : SubmitScore(s)
    BY <1>1, RefinesRecord DEF Board!Next
  <1>2. ASSUME UNCHANGED <<board, read>> PROVE UNCHANGED Board!vars
    BY <1>2 DEF Board!vars, Call, Answers
  <1>3. CASE \/ \E g \in Generations : DamageMembers(g) \/ DamageMetadata(g) \/ DamagePlayers(g)
             \/ DamagePointer \/ Flush
    BY <1>2, <1>3, FaultHarm DEF IInv
  <1>4. CASE \E g \in Generations : Expire(g)
    BY <1>2, <1>4 DEF Expire
  <1>5. CASE \E w \in Rebuilders : RebuildStepOf(w)
    BY <1>2, <1>5 DEF RebuildStepOf, ReadPointer, ReadScores, ReadRevision, Publish, LosePublish,
         Verify, Retire, DeferRetire, FailRebuild, Cleanup, CrashRebuild
  <1>6. CASE \E r \in Readers : ReadStepOf(r)
    BY <1>6, RefinesRead
  <1>7. CASE UNCHANGED vars
    BY <1>2, <1>7 DEF vars
  <1> QED
    BY <1>1, <1>3, <1>4, <1>5, <1>6, <1>7 DEF Next, RebuildStepOf, ReadStepOf

\* LeaderboardProjection implements LeaderboardBoard: each answer is that of the
\* board at one moment of its request, and every other step is a submission, a
\* question, a request given up, or nothing.
THEOREM Refinement == Spec => ImplementsBoard
  BY RefinesInit, RefinesStep, Invariance, PTL DEF Spec, ImplementsBoard, Board!Spec

------------------------------------------------------------------------------
(***************************************************************************)
(* The current generation.  As long as nothing fails, only two things      *)
(* delete a generation: its TTL, and the cleanup of a rebuild whose verify *)
(* found another listing.  A TTL is given to the generation that was       *)
(* current when a rebuild began, and that rebuild has published another    *)
(* since (SupersededApart): generations are named once and published once, *)
(* so that none becomes current again.  A rebuild that is still current    *)
(* finds what it wrote (PublishedKept), so that a cleanup is never that of *)
(* the current generation.                                                 *)
(***************************************************************************)
WholeGenerations ==
  \A g \in Generations :
    redis.metadata[g] # None => redis.metadata[g].count = Len(redis.members[g])

CurrentStands ==
  redis.pointer # None =>
    /\ redis.metadata[redis.pointer] # None
    /\ redis.pointer \notin redis.expiring
    /\ redis.pointer <= made

BuildsApart ==
  \A w \in Rebuilders : rebuild[w].step \in Unpublished =>
    rebuild[w].generation # redis.pointer /\ rebuild[w].generation \notin redis.expiring

SupersededApart ==
  \A w \in Rebuilders : rebuild[w].previous # None =>
    /\ rebuild[w].previous <= made
    /\ \A v \in Rebuilders :
         rebuild[v].step \in Unpublished => rebuild[v].generation # rebuild[w].previous
    /\ rebuild[w].step \in {"verify", "retire"} => rebuild[w].previous # redis.pointer

PublishedKept ==
  \A w \in Rebuilders :
    /\ rebuild[w].step = "verify" /\ rebuild[w].generation = redis.pointer =>
         redis.members[rebuild[w].generation] = Members(rebuild[w].scores)
    /\ rebuild[w].step = "cleanup" => rebuild[w].generation # redis.pointer

Kept ==
  /\ WholeGenerations /\ CurrentStands /\ BuildsApart /\ SupersededApart /\ PublishedKept
  /\ \A g \in redis.expiring : g <= made

KeptInv == faults = 0 => Kept

\* A step that publishes nothing and begins no rebuild.
Quiet(v) ==
  /\ rebuild'[v].step \in Unpublished =>
       rebuild[v].step \in Unpublished /\ rebuild'[v].generation = rebuild[v].generation
  /\ rebuild'[v].previous # None => rebuild'[v].previous = rebuild[v].previous
  /\ rebuild'[v].step \in {"verify", "retire"} /\ rebuild'[v].previous # None =>
       rebuild[v].step \in {"verify", "retire"}
  /\ rebuild'[v].step = "verify" =>
       /\ rebuild[v].step = "verify"
       /\ rebuild'[v].generation = rebuild[v].generation /\ rebuild'[v].scores = rebuild[v].scores
  /\ rebuild'[v].step = "cleanup" => rebuild'[v].generation # redis.pointer

\* It keeps the current generation if it spares it.
LEMMA KeptFrame ==
  ASSUME IInv, Kept, \A v \in Rebuilders : Quiet(v),
         redis' \in Keys, redis'.pointer = redis.pointer, made' = made,
         \A g \in Generations :
           \/ redis'.metadata[g] = redis.metadata[g] /\ redis'.members[g] = redis.members[g]
           \/ redis'.metadata[g] = None /\ g # redis.pointer,
         \A g \in redis'.expiring :
           \/ g \in redis.expiring
           \/ /\ g # redis.pointer /\ g <= made
              /\ \A v \in Rebuilders :
                   rebuild[v].step \in Unpublished => rebuild[v].generation # g
  PROVE  Kept'
  <1>1. redis \in Keys /\ redis.pointer \in Generations \cup {None}
    BY DEF IInv, TypeOK, Keys
  <1>2. WholeGenerations'
    BY DEF Kept, WholeGenerations
  <1>3. CurrentStands'
    BY <1>1 DEF Kept, CurrentStands
  <1>4. BuildsApart'
    BY DEF Kept, BuildsApart, Quiet
  <1>5. SupersededApart'
    BY DEF Kept, SupersededApart, Quiet
  <1>6. PublishedKept'
    <2>1. ASSUME NEW v \in Rebuilders, rebuild'[v].step = "verify",
                 rebuild'[v].generation = redis'.pointer
          PROVE  redis'.members[rebuild'[v].generation] = Members(rebuild'[v].scores)
      <3>1. /\ rebuild[v].step = "verify" /\ rebuild[v].generation = redis.pointer
            /\ rebuild'[v].scores = rebuild[v].scores /\ rebuild'[v].generation = redis.pointer
        BY <2>1 DEF Quiet
      <3>2. redis.pointer \in Generations
        BY <3>1 DEF IInv, TypeOK
      <3>3. redis.members[redis.pointer] = Members(rebuild[v].scores)
        BY <3>1 DEF Kept, PublishedKept
      <3>4. redis'.members[redis.pointer] = redis.members[redis.pointer]
        BY <3>2
      <3> QED
        BY <3>1, <3>3, <3>4
    <2> QED
      BY <2>1 DEF PublishedKept, Quiet
  <1>7. \A g \in redis'.expiring : g <= made'
    BY DEF Kept
  <1> QED
    BY <1>2, <1>3, <1>4, <1>5, <1>6, <1>7 DEF Kept

LEMMA SpareDeleted ==
  ASSUME TypeOK, NEW g \in Generations, g # redis.pointer, redis' = Deleted(g)
  PROVE  /\ redis'.pointer = redis.pointer
         /\ \A h \in Generations :
              \/ redis'.metadata[h] = redis.metadata[h] /\ redis'.members[h] = redis.members[h]
              \/ redis'.metadata[h] = None /\ h # redis.pointer
         /\ redis'.expiring \subseteq redis.expiring
  <1>1. redis \in Keys
    BY DEF TypeOK
  <1>2. redis'.pointer = redis.pointer /\ redis'.expiring = redis.expiring \ {g}
    BY <1>1 DEF Deleted, Keys
  <1>3. ASSUME NEW h \in Generations
        PROVE  /\ redis'.members[h] = (IF h = g THEN <<>> ELSE redis.members[h])
               /\ redis'.metadata[h] = (IF h = g THEN None ELSE redis.metadata[h])
    BY <1>1 DEF Deleted, Keys
  <1> QED
    BY <1>2, <1>3

LEMMA QuietSame ==
  ASSUME Kept, rebuild' = rebuild
  PROVE  \A v \in Rebuilders : Quiet(v)
  BY DEF Kept, PublishedKept, Quiet

LEMMA QuietFinish ==
  ASSUME IInv, Kept, NEW w \in Rebuilders, Finish(w)
  PROVE  \A v \in Rebuilders : Quiet(v)
  <1>1. rebuild'[w] = NoRebuild /\ \A v \in Rebuilders : v # w => rebuild'[v] = rebuild[v]
    BY DEF IInv, TypeOK, Finish
  <1>2. Quiet(w)
    BY <1>1 DEF Quiet, NoRebuild, Unpublished
  <1>3. ASSUME NEW v \in Rebuilders, v # w PROVE Quiet(v)
    <2>1. rebuild'[v] = rebuild[v]
      BY <1>1, <1>3
    <2> QED
      BY <2>1 DEF Kept, PublishedKept, Quiet
  <1> QED
    BY <1>2, <1>3

LEMMA ReadPointerKept ==
  ASSUME IInv, Kept, NEW w \in Rebuilders, ReadPointer(w)
  PROVE  Kept'
  <1>0. /\ made \in Nat /\ made' = made + 1 /\ redis' = redis /\ rebuild[w].step = "idle"
        /\ rebuild \in [Rebuilders -> Rebuild]
        /\ redis.pointer \in Generations \cup {None}
        /\ \A g \in Generations : g \in Nat
        /\ redis.expiring \subseteq Generations
    BY DEF IInv, TypeOK, ReadPointer, Generations, Keys
  <1>1. /\ rebuild'[w].step = "scores" /\ rebuild'[w].generation = made + 1
        /\ rebuild'[w].previous = redis.pointer
        /\ \A v \in Rebuilders : v # w => rebuild'[v] = rebuild[v]
    BY <1>0 DEF ReadPointer, NoRebuild
  <1>2. \A v \in Rebuilders : v # w => rebuild'[v] = rebuild[v] /\ rebuild[v] \in Rebuild
    BY <1>0, <1>1
  <1>3. WholeGenerations' /\ CurrentStands'
    BY <1>0 DEF Kept, WholeGenerations, CurrentStands
  <1>4. BuildsApart'
    <2>1. made + 1 # redis.pointer /\ made + 1 \notin redis.expiring
      BY <1>0, NullIsNot DEF Kept, CurrentStands
    <2> QED
      BY <1>0, <1>1, <2>1 DEF Kept, BuildsApart
  <1>5. SupersededApart'
    <2>1. ASSUME NEW v \in Rebuilders, rebuild'[v].previous # None
          PROVE  /\ rebuild'[v].previous \in Nat /\ rebuild'[v].previous <= made
                 /\ rebuild'[v].step \in {"verify", "retire"} =>
                      rebuild'[v].previous # redis.pointer
                 /\ \A u \in Rebuilders : rebuild[u].step \in Unpublished =>
                      rebuild[u].generation # rebuild'[v].previous
      <3>1. CASE v = w
        <4>1. rebuild'[v].previous = redis.pointer /\ redis.pointer # None
          BY <1>1, <2>1, <3>1
        <4>2. redis.pointer \in Nat /\ redis.pointer <= made
          BY <1>0, <4>1 DEF Kept, CurrentStands
        <4>3. rebuild'[v].step = "scores"
          BY <1>1, <3>1
        <4> QED
          BY <4>1, <4>2, <4>3 DEF Kept, BuildsApart
      <3>2. CASE v # w
        <4>1. rebuild'[v] = rebuild[v] /\ rebuild[v].previous \in Generations
          BY <1>2, <2>1, <3>2 DEF Rebuild
        <4> QED
          BY <1>0, <2>1, <4>1 DEF Kept, SupersededApart
      <3> QED
        BY <3>1, <3>2
    <2>2. ASSUME NEW v \in Rebuilders, rebuild'[v].previous # None,
                 NEW u \in Rebuilders, rebuild'[u].step \in Unpublished
          PROVE  rebuild'[u].generation # rebuild'[v].previous
      <3>1. rebuild'[v].previous \in Nat /\ rebuild'[v].previous <= made
        BY <2>1, <2>2
      <3>2. CASE u = w
        BY <1>0, <1>1, <3>1, <3>2
      <3>3. CASE u # w
        BY <1>1, <2>1, <2>2, <3>3
      <3> QED
        BY <3>2, <3>3
    <2>3. ASSUME NEW v \in Rebuilders, rebuild'[v].previous # None
          PROVE  rebuild'[v].previous <= made'
      BY <1>0, <2>1, <2>3
    <2> QED
      BY <1>0, <2>1, <2>2, <2>3 DEF SupersededApart
  <1>6. PublishedKept'
    <2>1. ASSUME NEW v \in Rebuilders, rebuild'[v].step \in {"verify", "cleanup"}
          PROVE  v # w /\ rebuild'[v] = rebuild[v]
      BY <1>1, <2>1
    <2> QED
      BY <1>0, <2>1 DEF Kept, PublishedKept
  <1>7. \A g \in redis'.expiring : g <= made'
    BY <1>0 DEF Kept
  <1> QED
    BY <1>3, <1>4, <1>5, <1>6, <1>7 DEF Kept

LEMMA PublishKept ==
  ASSUME IInv, Kept, NEW w \in Rebuilders, Publish(w)
  PROVE  Kept'
  <1>1. PICK g \in Generations : g = rebuild[w].generation
    BY DEF IInv, TypeOK, Publish
  <1>2. /\ rebuild[w].step = "publish" /\ made' = made /\ redis' = Published(rebuild[w])
        /\ rebuild' = [rebuild EXCEPT ![w].step = "verify"]
        /\ rebuild \in [Rebuilders -> Rebuild] /\ redis \in Keys
    BY DEF IInv, TypeOK, Publish, Goto
  <1>3. /\ rebuild'[w].step = "verify" /\ rebuild'[w].generation = g
        /\ rebuild'[w].previous = rebuild[w].previous /\ rebuild'[w].scores = rebuild[w].scores
        /\ \A v \in Rebuilders : v # w => rebuild'[v] = rebuild[v]
    BY <1>1, <1>2 DEF Rebuild
  <1>4. /\ redis'.pointer = g /\ redis'.expiring = redis.expiring
        /\ redis'.members[g] = Members(rebuild[w].scores)
        /\ redis'.metadata[g] = [count |-> Len(rebuild[w].scores), revision |-> rebuild[w].revision]
        /\ \A h \in Generations \ {g} : redis'.members[h] = redis.members[h]
                                        /\ redis'.metadata[h] = redis.metadata[h]
    <2>1. redis'.pointer = g /\ redis'.expiring = redis.expiring
      BY <1>1, <1>2 DEF Published, Keys
    <2> QED
      BY <1>1, <1>2, <2>1, PublishedType
  <1>5. Len(Members(rebuild[w].scores)) = Len(rebuild[w].scores)
    <2>1. PICK n \in 0 .. Len(board) : Holds(g, n)
      BY DEF IInv, Snapshots
    <2>2. /\ rebuild[w].scores = Ordered(Prefix(n)) /\ Len(rebuild[w].scores) = n
      BY <1>1, <1>2, <2>1, BuildFacts DEF Building
    <2>3. Prefix(n) \subseteq Scores /\ IsFiniteSet(Prefix(n)) /\ Cardinality(Prefix(n)) = n
      BY PrefixFacts DEF IInv
    <2>4. Len(Members(Ordered(Prefix(n)))) = n
      BY <2>3, ListingType
    <2> QED
      BY <2>2, <2>4
  <1>6. g \in Nat /\ g <= made /\ g \notin redis.expiring
        /\ \A v \in Rebuilders : v # w /\ rebuild[v].step # "idle" => rebuild[v].generation # g
    BY <1>1, <1>2 DEF IInv, OwnGenerations, Kept, BuildsApart, Generations, Unpublished
  <1>7. None \notin Metadata /\ \A k, r \in Nat : [count |-> k, revision |-> r] # None
    BY NullIsNot DEF Metadata
  <1>8. redis'.metadata[g] # None
    <2>1. rebuild[w].revision \in Nat /\ rebuild[w].scores \in Seq(Scores)
      BY <1>2 DEF IInv, TypeOK, Rebuild
    <2>2. Len(rebuild[w].scores) \in Nat
      BY <2>1
    <2> QED
      BY <1>4, <1>7, <2>1, <2>2
  <1>9. WholeGenerations'
    BY <1>4, <1>5 DEF Kept, WholeGenerations
  <1>10. CurrentStands'
    BY <1>2, <1>4, <1>6, <1>8 DEF CurrentStands
  <1>11. BuildsApart'
    <2>1. ASSUME NEW v \in Rebuilders, rebuild'[v].step \in Unpublished
          PROVE  rebuild'[v] = rebuild[v] /\ rebuild[v].generation # g
      <3>1. v # w
        BY <1>3, <2>1 DEF Unpublished
      <3> QED
        BY <1>3, <1>6, <2>1, <3>1 DEF Unpublished
    <2> QED
      BY <1>4, <2>1 DEF Kept, BuildsApart
  <1>12. SupersededApart'
    <2>1. ASSUME NEW v \in Rebuilders, rebuild'[v].previous # None
          PROVE  /\ rebuild[v].previous = rebuild'[v].previous
                 /\ rebuild[v].previous <= made
                 /\ rebuild[v].previous # g
                 /\ \A u \in Rebuilders : rebuild[u].step \in Unpublished =>
                      rebuild[u].generation # rebuild[v].previous
      <3>1. rebuild[v].previous = rebuild'[v].previous
        BY <1>3
      <3> QED
        BY <1>1, <1>2, <2>1, <3>1 DEF Kept, SupersededApart, Unpublished
    <2>2. \A u \in Rebuilders : rebuild'[u].step \in Unpublished =>
             rebuild[u].step \in Unpublished /\ rebuild'[u].generation = rebuild[u].generation
      <3>1. ASSUME NEW u \in Rebuilders, rebuild'[u].step \in Unpublished PROVE u # w
        BY <1>3, <3>1 DEF Unpublished
      <3> QED
        BY <1>3, <3>1
    <2> QED
      BY <1>2, <1>4, <2>1, <2>2 DEF SupersededApart
  <1>13. PublishedKept'
    <2>1. ASSUME NEW v \in Rebuilders, rebuild'[v].step = "verify", rebuild'[v].generation = g
          PROVE  v = w
      <3>1. v # w => rebuild'[v] = rebuild[v] /\ rebuild[v].step # "idle"
        BY <1>3, <2>1
      <3> QED
        BY <1>6, <2>1, <3>1
    <2>2. ASSUME NEW v \in Rebuilders, rebuild'[v].step = "cleanup"
          PROVE  rebuild'[v].generation # g
      <3>1. v # w
        BY <1>3, <2>2
      <3>2. rebuild'[v] = rebuild[v] /\ rebuild[v].step # "idle"
        BY <1>3, <2>2, <3>1
      <3> QED
        BY <1>6, <3>1, <3>2
    <2> QED
      BY <1>3, <1>4, <2>1, <2>2 DEF PublishedKept
  <1>14. \A h \in redis'.expiring : h <= made'
    BY <1>2, <1>4 DEF Kept
  <1> QED
    BY <1>9, <1>10, <1>11, <1>12, <1>13, <1>14 DEF Kept

LEMMA RebuildKeptInv ==
  ASSUME IInv, IInv', Kept, faults = 0, faults' = 0, NEW w \in Rebuilders, RebuildStepOf(w)
  PROVE  Kept'
  <1>0. /\ rebuild \in [Rebuilders -> Rebuild] /\ redis \in Keys /\ redis' \in Keys
        /\ RebuildOK(rebuild[w]) /\ rebuild[w] \in Rebuild
    <2>1. /\ rebuild \in [Rebuilders -> Rebuild] /\ redis \in Keys /\ RebuildOK(rebuild[w])
      BY Typed DEF IInv
    <2>2. redis' \in Keys
      BY DEF IInv, TypeOK
    <2> QED
      BY <2>1, <2>2 DEF RebuildOK
  <1>1. ASSUME NEW b, rebuild' = [rebuild EXCEPT ![w] = b], UNCHANGED <<redis, made>>,
               b.step \in Unpublished =>
                 rebuild[w].step \in Unpublished /\ b.generation = rebuild[w].generation,
               b.previous # None => b.previous = rebuild[w].previous,
               b.step \in {"verify", "retire"} => rebuild[w].step \in {"verify", "retire"},
               b.step # "verify",
               b.step = "cleanup" => b.generation # redis.pointer
        PROVE  Kept'
    <2>1. rebuild'[w] = b /\ \A v \in Rebuilders : v # w => rebuild'[v] = rebuild[v]
      BY <1>0, <1>1
    <2>2. Quiet(w)
      BY <1>1, <2>1 DEF Quiet
    <2>3. ASSUME NEW v \in Rebuilders, v # w PROVE Quiet(v)
      <3>1. rebuild'[v] = rebuild[v]
        BY <2>1, <2>3
      <3> QED
        BY <3>1 DEF Kept, PublishedKept, Quiet
    <2> QED
      BY <1>0, <1>1, <2>2, <2>3, KeptFrame
  <1>2. CASE ReadPointer(w)
    BY <1>2, ReadPointerKept
  <1>3. CASE ReadScores(w)
    <2>1. PICK b : b = [rebuild[w] EXCEPT !.step = "revision", !.scores = Ordered(Committed)]
      OBVIOUS
    <2>2. /\ b.step = "revision" /\ b.generation = rebuild[w].generation
          /\ b.previous = rebuild[w].previous
      BY <1>0, <2>1 DEF Rebuild
    <2>3. rebuild' = [rebuild EXCEPT ![w] = b] /\ rebuild[w].step = "scores"
          /\ UNCHANGED <<redis, made>>
      BY <1>0, <1>3, <2>1 DEF ReadScores
    <2> QED
      BY <1>1, <2>2, <2>3 DEF Unpublished
  <1>4. CASE ReadRevision(w)
    <2>1. PICK b : b = [rebuild[w] EXCEPT !.step = "publish", !.revision = Revision]
      OBVIOUS
    <2>2. /\ b.step = "publish" /\ b.generation = rebuild[w].generation
          /\ b.previous = rebuild[w].previous
      BY <1>0, <2>1 DEF Rebuild
    <2>3. rebuild' = [rebuild EXCEPT ![w] = b] /\ rebuild[w].step = "revision"
          /\ UNCHANGED <<redis, made>>
      BY <1>0, <1>4, <2>1 DEF ReadRevision
    <2> QED
      BY <1>1, <2>2, <2>3 DEF Unpublished
  <1>5. CASE Publish(w)
    BY <1>5, PublishKept
  <1>6. CASE Verify(w)
    <2>0. rebuild[w].step = "verify" /\ UNCHANGED <<redis, made>>
      BY <1>6 DEF Verify
    <2>1. CASE redis.members[rebuild[w].generation] # Members(rebuild[w].scores) /\ Fail(w)
      <3>1. PICK b : b = [NoRebuild EXCEPT !.step = "cleanup", !.generation = rebuild[w].generation]
        OBVIOUS
      <3>2. b.step = "cleanup" /\ b.generation = rebuild[w].generation /\ b.previous = None
        BY <3>1 DEF NoRebuild
      <3>3. rebuild' = [rebuild EXCEPT ![w] = b]
        BY <2>1, <3>1 DEF Fail
      <3>4. rebuild[w].generation # redis.pointer
        BY <2>0, <2>1 DEF Kept, PublishedKept
      <3> QED
        BY <1>1, <2>0, <3>2, <3>3, <3>4 DEF Unpublished
    <2>2. CASE rebuild' = [rebuild EXCEPT ![w] =
                 [NoRebuild EXCEPT !.step = "retire", !.previous = rebuild[w].previous,
                                   !.generation = rebuild[w].generation]]
      <3>1. PICK b : b = [NoRebuild EXCEPT !.step = "retire", !.previous = rebuild[w].previous,
                                           !.generation = rebuild[w].generation]
        OBVIOUS
      <3>2. b.step = "retire" /\ b.previous = rebuild[w].previous
        BY <3>1 DEF NoRebuild
      <3>3. rebuild' = [rebuild EXCEPT ![w] = b]
        BY <2>2, <3>1
      <3> QED
        BY <1>1, <2>0, <3>2, <3>3 DEF Unpublished
    <2>3. CASE Finish(w)
      BY <1>0, <2>0, <2>3, QuietFinish, KeptFrame
    <2> QED
      BY <1>6, <2>1, <2>2, <2>3 DEF Verify
  <1>7. CASE Retire(w)
    <2>1. PICK old \in Generations : old = rebuild[w].previous
      BY <1>0, <1>7 DEF Retire, RebuildOK
    <2>2. /\ rebuild[w].step = "retire" /\ made' = made
          /\ redis'.pointer = redis.pointer /\ redis'.metadata = redis.metadata
          /\ redis'.members = redis.members /\ redis'.expiring \subseteq redis.expiring \cup {old}
      BY <1>0, <1>7, <2>1 DEF Retire, Keys
    <2>3. old # None
      BY <2>1, NullIsNot DEF Generations
    <2>4. /\ old # redis.pointer /\ old <= made
          /\ \A v \in Rebuilders : rebuild[v].step \in Unpublished => rebuild[v].generation # old
      BY <2>1, <2>2, <2>3 DEF Kept, SupersededApart
    <2>5. \A v \in Rebuilders : Quiet(v)
      BY <1>7, QuietFinish DEF Retire
    <2> QED
      BY <1>0, <2>2, <2>4, <2>5, KeptFrame
  <1>8. CASE Cleanup(w)
    <2>1. PICK g \in Generations : g = rebuild[w].generation
      BY <1>0, <1>8 DEF Cleanup, RebuildOK
    <2>2. redis' = Deleted(g) /\ made' = made /\ g # redis.pointer
      BY <1>8, <2>1 DEF Cleanup, Kept, PublishedKept
    <2>3. \A v \in Rebuilders : Quiet(v)
      BY <1>8, QuietFinish DEF Cleanup
    <2> QED
      BY <1>0, <2>2, <2>3, SpareDeleted, KeptFrame DEF IInv
  <1>9. CASE LosePublish(w) \/ DeferRetire(w) \/ FailRebuild(w) \/ CrashRebuild(w)
    BY <1>9 DEF LosePublish, DeferRetire, FailRebuild, CrashRebuild
  <1> QED
    BY <1>2, <1>3, <1>4, <1>5, <1>6, <1>7, <1>8, <1>9 DEF RebuildStepOf

LEMMA KeptStep == IInv /\ IInv' /\ KeptInv /\ [Next]_vars => KeptInv'
  <1> SUFFICES ASSUME IInv, IInv', KeptInv, [Next]_vars, faults' = 0 PROVE Kept'
    BY DEF KeptInv
  <1>0. faults \in Nat /\ redis \in Keys /\ redis' \in Keys
    BY DEF IInv, TypeOK
  <1>1. CASE \/ \E g \in Generations : DamageMembers(g) \/ DamageMetadata(g) \/ DamagePlayers(g)
             \/ DamagePointer \/ Flush
    BY <1>0, <1>1 DEF DamageMembers, DamageMetadata, DamagePlayers, DamagePointer, Flush, Fault
  <1>2. CASE \E r \in Readers : ReadStepOf(r)
    <2>0. PICK r \in Readers : ReadStepOf(r)
      BY <1>2
    <2>1. faults = 0 /\ UNCHANGED <<redis, made, rebuild>>
      <3>1. CASE RedisFails(r)
        BY <1>0, <3>1 DEF RedisFails
      <3>2. CASE (\E ask \in Asks : ReadCount(r, ask)) \/ ReadExpectedRevision(r)
        BY <3>2 DEF ReadCount, ReadExpectedRevision
      <3>3. CASE GetGeneration(r) \/ GetMetadata(r) \/ GetCardinality(r)
        BY <3>3 DEF GetGeneration, GetMetadata, GetCardinality
      <3>4. CASE GetPage(r) \/ GetPlayer(r) \/ GetRank(r)
        BY <3>4 DEF GetPage, GetPlayer, GetRank
      <3>5. CASE ReadCanonical(r) \/ AbortRead(r)
        BY <3>5 DEF ReadCanonical, AbortRead
      <3> QED
        BY <2>0, <3>1, <3>2, <3>3, <3>4, <3>5 DEF ReadStepOf
    <2>2. Kept
      BY <2>1 DEF KeptInv
    <2> QED
      BY <1>0, <2>1, <2>2, QuietSame, KeptFrame
  <1>3. CASE (\E s \in Scores : SubmitScore(s)) \/ UNCHANGED vars
    <2>1. faults = 0 /\ UNCHANGED <<redis, made, rebuild>>
      BY <1>3 DEF SubmitScore, vars
    <2>2. Kept
      BY <2>1 DEF KeptInv
    <2> QED
      BY <1>0, <2>1, <2>2, QuietSame, KeptFrame
  <1>4. CASE \E g \in Generations : Expire(g)
    <2>1. PICK g \in Generations : Expire(g)
      BY <1>4
    <2>2. /\ faults = 0 /\ UNCHANGED <<made, rebuild>> /\ redis' = Deleted(g)
          /\ g \in redis.expiring
      BY <2>1 DEF Expire
    <2>3. Kept
      BY <2>2 DEF KeptInv
    <2>4. g # redis.pointer
      BY <2>2, <2>3, NullIsNot DEF Kept, CurrentStands, Generations
    <2> QED
      BY <1>0, <2>2, <2>3, <2>4, QuietSame, SpareDeleted, KeptFrame DEF IInv
  <1>5. CASE \E w \in Rebuilders : RebuildStepOf(w)
    <2>1. PICK w \in Rebuilders : RebuildStepOf(w)
      BY <1>5
    <2>2. faults = 0
      BY <1>0, <2>1 DEF RebuildStepOf, ReadPointer, ReadScores, ReadRevision, Publish, LosePublish,
         Verify, Retire, DeferRetire, FailRebuild, Cleanup, CrashRebuild
    <2>3. Kept
      BY <2>2 DEF KeptInv
    <2> QED
      BY <2>1, <2>2, <2>3, RebuildKeptInv
  <1> QED
    BY <1>1, <1>2, <1>3, <1>4, <1>5 DEF Next, RebuildStepOf, ReadStepOf

LEMMA KeptInit == Init => KeptInv
  BY NullIsNot DEF Init, KeptInv, Kept, WholeGenerations, CurrentStands, BuildsApart, SupersededApart,
     PublishedKept, NoKeys, NoRebuild, Unpublished

\* As long as nothing fails, however rebuilds overlap, the pointer leads to a
\* complete generation that no TTL removes.
THEOREM CurrentGeneration == Spec => []CurrentKept
  <1>1. Spec => []KeptInv
    BY KeptInit, KeptStep, Invariance, PTL DEF Spec
  <1>2. IInv /\ KeptInv => CurrentKept
    <2>1. ASSUME IInv, KeptInv, faults = 0, redis.pointer # None
          PROVE  /\ redis.metadata[redis.pointer] # None
                 /\ Len(redis.members[redis.pointer]) = redis.metadata[redis.pointer].count
                 /\ redis.pointer \notin redis.expiring
      <3>1. redis.pointer \in Generations
        BY <2>1 DEF IInv, TypeOK, Keys
      <3> QED
        BY <2>1, <3>1 DEF KeptInv, Kept, CurrentStands, WholeGenerations
    <2> QED
      BY <2>1 DEF CurrentKept
  <1> QED
    BY <1>1, <1>2, Invariance, PTL

------------------------------------------------------------------------------
(***************************************************************************)
(* Readers that are not sent away.                                         *)
(***************************************************************************)
LEMMA OtherReads ==
  ASSUME TypeOK, NEW q \in Readers, ReadStepOf(q), NEW r \in Readers, r # q
  PROVE  read'[r] = read[r]
  <1>0. read \in [Readers -> Read]
    BY DEF TypeOK
  <1>1. ASSUME NEW t, read' = [read EXCEPT ![q] = t] PROVE read'[r] = read[r]
    BY <1>0, <1>1
  <1>2. ASSUME FallBack(q) PROVE read'[r] = read[r]
    BY <1>0, <1>2 DEF FallBack
  <1>3. ASSUME NEW step, Move(q, step) PROVE read'[r] = read[r]
    BY <1>0, <1>3 DEF Move
  <1>4. ASSUME NEW a, Give(q, a) PROVE read'[r] = read[r]
    BY <1>0, <1>4 DEF Give
  <1>5. CASE (\E ask \in Asks : ReadCount(q, ask)) \/ AbortRead(q)
    BY <1>0, <1>5 DEF ReadCount, AbortRead
  <1>6. CASE ReadExpectedRevision(q)
    BY <1>0, <1>6 DEF ReadExpectedRevision
  <1>7. CASE GetGeneration(q) \/ RedisFails(q)
    BY <1>0, <1>2, <1>7 DEF GetGeneration, RedisFails
  <1>8. CASE GetMetadata(q) \/ GetCardinality(q)
    BY <1>2, <1>3, <1>8 DEF GetMetadata, GetCardinality
  <1>9. CASE GetPage(q) \/ GetRank(q)
    BY <1>2, <1>4, <1>9 DEF GetPage, GetRank
  <1>10. CASE GetPlayer(q)
    BY <1>0, <1>2, <1>10 DEF GetPlayer
  <1>11. CASE ReadCanonical(q)
    BY <1>4, <1>11 DEF ReadCanonical
  <1> QED
    BY <1>5, <1>6, <1>7, <1>8, <1>9, <1>10, <1>11 DEF ReadStepOf

\* A generation of the current board passes every check a reader makes.
LEMMA FreshFacts ==
  ASSUME IInv, NEW g \in Generations, Fresh(g)
  PROVE  /\ Len(redis.members[g]) = Len(board)
         /\ DOMAIN redis.members[g] = 1 .. Len(board)
         /\ \A k \in 1 .. Len(board) : ValidMember(redis.members[g][k], k)
         /\ \A s \in Committed : redis.players[g][PlayerOf[s]] # None
         /\ \A p \in Players : redis.players[g][p] # None =>
              /\ PlayerOf[redis.players[g][p].score] = p
              /\ redis.players[g][p].rank \in 1 .. Len(board)
              /\ redis.members[g][redis.players[g][p].rank] = redis.players[g][p]
  <1>1. PICK S : S = Committed
    OBVIOUS
  <1>2. /\ S \subseteq Scores /\ S \subseteq Nat /\ IsFiniteSet(S) /\ Cardinality(S) = Len(board)
        /\ Len(board) \in Nat
    BY <1>1, WholeBoard, PrefixFacts DEF IInv, TypeOK
  <1>3. PICK m : m = Members(Ordered(S))
    OBVIOUS
  <1>4. redis.members[g] = m /\ redis.players[g] = BestMembers(Ordered(S))
    BY <1>1, <1>3 DEF Fresh
  <1>5. m \in Seq(Member) /\ Len(m) = Len(board)
    BY <1>2, <1>3, ListingType
  <1>6. DOMAIN m = 1 .. Len(board)
        /\ \A k \in 1 .. Len(board) : m[k].rank = k /\ m[k].score = Ordered(S)[k]
    BY <1>2, <1>3, MembersFacts
  <1>7. ASSUME NEW k \in 1 .. Len(board) PROVE ValidMember(m[k], k)
    <2>1. m[k] \in Member
      BY <1>5, <1>6
    <2> QED
      BY <1>6, <2>1, NullIsNot DEF ValidMember
  <1>8. ASSUME NEW s \in S PROVE BestMembers(Ordered(S))[PlayerOf[s]] # None
    <2>1. PICK p \in Players : p = PlayerOf[s]
      BY <1>2, ScoreAssumption
    <2>2. IsBest(S, p, BestMembers(Ordered(S))[p])
      BY <1>2, <2>1, BestFacts
    <2>3. PICK q \in S : BestMembers(Ordered(S))[p] = EntryOf(S, q)
      BY <2>2 DEF IsBest
    <2>4. EntryOf(S, q) \in Member
      <3>1. Position(S, q) \in 1 .. Cardinality(S)
        BY <1>2, PositionType
      <3> QED
        BY <1>2, <3>1 DEF EntryOf, Member
    <2> QED
      BY <2>1, <2>3, <2>4, NullIsNot
  <1>9. ASSUME NEW p \in Players, BestMembers(Ordered(S))[p] # None
        PROVE  \E x : /\ x = BestMembers(Ordered(S))[p]
                      /\ PlayerOf[x.score] = p /\ x.rank \in 1 .. Len(board) /\ m[x.rank] = x
    <2>1. IsBest(S, p, BestMembers(Ordered(S))[p])
      BY <1>2, <1>9, BestFacts
    <2>2. PICK s \in S : PlayerOf[s] = p /\ BestMembers(Ordered(S))[p] = EntryOf(S, s)
      BY <2>1 DEF IsBest
    <2>3. PICK k : k = Position(S, s)
      OBVIOUS
    <2>4. k \in 1 .. Len(board) /\ Ordered(S)[k] = s
      BY <1>2, <2>3, OrderedFacts
    <2>5. EntryOf(S, s) = [score |-> s, rank |-> k]
      BY <2>3 DEF EntryOf
    <2>6. m[k] = [score |-> s, rank |-> k]
      <3>1. m[k] \in Member
        BY <1>5, <1>6, <2>4
      <3> QED
        BY <1>6, <2>4, <3>1 DEF Member
    <2> QED
      BY <2>2, <2>4, <2>5, <2>6
  <1> QED
    BY <1>1, <1>4, <1>5, <1>6, <1>7, <1>8, <1>9

LEMMA ServedStep ==
  ASSUME IInv, NEW r \in Readers, UpToDate(r), ReadStepOf(r)
  PROVE  read'[r].step # "fallback"
  <1>0. /\ read \in [Readers -> Read] /\ read[r] \in Read /\ redis \in Keys /\ Len(board) \in Nat
        /\ read[r].step \in {"pointer", "metadata", "cardinality", "members", "rank"}
        /\ read[r].count = Len(board) /\ read[r].revision = Len(board) /\ faults' = faults
        /\ read[r].ask \in Asks /\ faults \in Nat
    BY DEF UpToDate, IInv, TypeOK
  <1>1. ASSUME read[r].step # "pointer"
        PROVE  \E g \in Generations : g = read[r].generation /\ Fresh(g)
    BY <1>0, <1>1 DEF UpToDate, IInv, TypeOK
  <1>2. ASSUME NEW a, Give(r, a) PROVE read'[r].step # "fallback"
    <2>1. PICK t : t = [NoRead EXCEPT !.answer = a]
      OBVIOUS
    <2>2. t.step = "idle" /\ read' = [read EXCEPT ![r] = t]
      BY <1>2, <2>1 DEF Give, NoRead
    <2> QED
      BY <1>0, <2>2
  <1>3. ASSUME NEW step, step # "fallback", Move(r, step) PROVE read'[r].step # "fallback"
    BY <1>0, <1>3 DEF Move, Read
  <1>4. CASE (\E ask \in Asks : ReadCount(r, ask)) \/ ReadExpectedRevision(r) \/ ReadCanonical(r)
    BY <1>0, <1>4 DEF ReadCount, ReadExpectedRevision, ReadCanonical
  <1>5. CASE GetGeneration(r)
    <2>1. redis.pointer # None
      BY <1>5 DEF GetGeneration, UpToDate
    <2>2. read' = [read EXCEPT ![r].step = "metadata", ![r].generation = redis.pointer]
      BY <1>5, <2>1 DEF GetGeneration
    <2> QED
      BY <1>0, <2>2 DEF Read
  <1>6. CASE GetMetadata(r)
    <2>1. PICK g \in Generations : g = read[r].generation /\ Fresh(g)
      BY <1>1, <1>6 DEF GetMetadata
    <2>2. VerifyMetadata(redis.metadata[read[r].generation], read[r])
      BY <1>0, <2>1 DEF Fresh, VerifyMetadata
    <2> QED
      BY <1>3, <1>6, <2>2 DEF GetMetadata
  <1>7. CASE GetCardinality(r)
    <2>1. PICK g \in Generations : g = read[r].generation /\ Fresh(g)
      BY <1>1, <1>7 DEF GetCardinality
    <2>2. Len(redis.members[read[r].generation]) = read[r].count
      BY <1>0, <2>1, FreshFacts
    <2> QED
      BY <1>3, <1>7, <2>2 DEF GetCardinality
  <1>8. CASE GetPage(r)
    <2>1. PICK g \in Generations : g = read[r].generation /\ Fresh(g)
      BY <1>1, <1>8 DEF GetPage
    <2>2. PICK m, ask : m = redis.members[g] /\ ask = read[r].ask
      OBVIOUS
    <2>3. DOMAIN m = 1 .. Len(board) /\ \A k \in 1 .. Len(board) : ValidMember(m[k], k)
      BY <2>1, <2>2, FreshFacts
    <2>4. Rows(m, ask) = ExpectedRows(read[r])
      BY <1>0, <2>2, <2>3 DEF Rows, ExpectedRows
    <2>5. \A k \in Rows(m, ask) : ValidMember(m[k], k)
      BY <2>3 DEF Rows
    <2>6. Give(r, Page(m, ask))
      BY <1>8, <2>1, <2>2, <2>4, <2>5 DEF GetPage
    <2> QED
      BY <1>2, <2>6
  <1>9. CASE GetPlayer(r)
    <2>1. PICK g \in Generations : g = read[r].generation /\ Fresh(g)
      BY <1>1, <1>9 DEF GetPlayer
    <2>2. PICK s \in Committed : PlayerOf[s] = read[r].ask.player
      BY <1>9 DEF GetPlayer, UpToDate
    <2>3. redis.players[read[r].generation][read[r].ask.player] # None
      BY <2>1, <2>2, FreshFacts
    <2>4. PICK x : x = redis.players[read[r].generation][read[r].ask.player]
      OBVIOUS
    <2>5. read' = [read EXCEPT ![r].step = "rank", ![r].rank = x]
      BY <1>9, <2>3, <2>4 DEF GetPlayer
    <2> QED
      BY <1>0, <2>5 DEF Read
  <1>10. CASE GetRank(r)
    <2>1. PICK g \in Generations : g = read[r].generation /\ Fresh(g)
      BY <1>1, <1>10 DEF GetRank
    <2>2. PICK p, x : p = read[r].ask.player /\ x = read[r].rank
      OBVIOUS
    <2>3. /\ read[r].step = "rank" /\ x # None /\ read[r].ask.kind = "rank"
          /\ x = redis.players[g][p]
      BY <1>10, <2>1, <2>2 DEF GetRank, UpToDate, IInv, TypeOK
    <2>4. p \in Players
      BY <1>0, <2>2, <2>3, AskAssumption
    <2>5. PlayerOf[x.score] = p /\ x.rank \in 1 .. Len(board) /\ redis.members[g][x.rank] = x
      BY <2>1, <2>3, <2>4, FreshFacts
    <2>6. x.rank \in DOMAIN redis.members[g] /\ ValidMember(redis.members[g][x.rank], x.rank)
      BY <2>1, <2>5, FreshFacts
    <2>7. Give(r, [items |-> {x}, more |-> FALSE])
      BY <1>10, <2>1, <2>2, <2>5, <2>6 DEF GetRank
    <2> QED
      BY <1>2, <2>7
  <1>11. CASE RedisFails(r)
    BY <1>0, <1>11 DEF RedisFails
  <1>12. CASE AbortRead(r)
    BY <1>0, <1>12 DEF AbortRead, NoRead
  <1> QED
    BY <1>4, <1>5, <1>6, <1>7, <1>8, <1>9, <1>10, <1>11, <1>12 DEF ReadStepOf

LEMMA ServedInv ==
  IInv /\ [Next]_vars => [\A r \in Readers : UpToDate(r) => read'[r].step # "fallback"]_vars
  <1> SUFFICES ASSUME IInv, Next, NEW r \in Readers, UpToDate(r)
               PROVE  read'[r].step # "fallback"
    OBVIOUS
  <1>0. read[r].step # "fallback"
    BY DEF UpToDate
  <1>1. CASE \E q \in Readers : ReadStepOf(q)
    <2>1. PICK q \in Readers : ReadStepOf(q)
      BY <1>1
    <2>2. CASE q = r
      BY <2>1, <2>2, ServedStep
    <2>3. CASE q # r
      BY <1>0, <2>1, <2>3, OtherReads DEF IInv
    <2> QED
      BY <2>2, <2>3
  <1>2. CASE \/ \E g \in Generations : DamageMembers(g) \/ DamageMetadata(g) \/ DamagePlayers(g)
             \/ DamagePointer \/ Flush
    BY <1>0, <1>2, FaultHarm DEF IInv
  <1>3. CASE (\E s \in Scores : SubmitScore(s)) \/ (\E g \in Generations : Expire(g))
    BY <1>0, <1>3 DEF SubmitScore, Expire
  <1>4. CASE \E w \in Rebuilders : RebuildStepOf(w)
    BY <1>0, <1>4 DEF RebuildStepOf, ReadPointer, ReadScores, ReadRevision, Publish, LosePublish,
         Verify, Retire, DeferRetire, FailRebuild, Cleanup, CrashRebuild
  <1> QED
    BY <1>1, <1>2, <1>3, <1>4 DEF Next, RebuildStepOf, ReadStepOf

\* A projection of the current board serves every page, and every rank there is:
\* no check of the reader turns it down.
THEOREM FreshIsServed == Spec => NoNeedlessFallback
  BY ServedInv, Invariance, PTL DEF Spec, NoNeedlessFallback

=============================================================================
