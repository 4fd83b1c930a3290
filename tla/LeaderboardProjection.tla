----------------------- MODULE LeaderboardProjection -----------------------
(***************************************************************************)
(* The Redis projection of one game and week: rebuild_leaderboard of       *)
(* tools/rebuild_leaderboard.py, the readers of                            *)
(* app/leaderboard_projection.py and redis_cache/, and the final scores in *)
(* PostgreSQL they are about.                                              *)
(*                                                                         *)
(* A step is one statement sent to PostgreSQL or one command, pipeline or  *)
(* MULTI sent to Redis.  Scores are numbered in ranking order, which is    *)
(* both the ORDER BY of the queries and the order of the sorted set        *)
(* (negated score, then the zero-padded microseconds and the session id).  *)
(* A signed member is the record of what the signature binds; a member or  *)
(* a hash whose signature does not verify is Garbage.                      *)
(***************************************************************************)
EXTENDS Integers, Sequences, SequencesExt

CONSTANTS
  Rebuilders,  \* rebuilds that can run at once
  Readers,     \* page and rank requests that can be in flight at once
  Players,
  Scores,      \* final scores of the week, as numbers in ranking order
  PlayerOf,    \* PlayerOf[s]: the player of score s
  Asks,        \* the pages and ranks that are asked for
  MaxRebuilds, \* bound: generations ever built
  MaxFaults,   \* bound: failures of Redis
  Garbage,     \* what does not verify
  None         \* nil: a missing key

ASSUME ScoreAssumption == Scores \subseteq Nat /\ PlayerOf \in [Scores -> Players]
ASSUME AskAssumption ==
  Asks \subseteq [kind : {"page"}, offset : Nat, limit : Nat \ {0}]
                 \cup [kind : {"rank"}, player : Players]
ASSUME BoundAssumption == MaxRebuilds \in Nat /\ MaxFaults \in Nat

Generations == 1 .. MaxRebuilds

VARIABLES
  board,    \* committed final_scores, in the order of their commits
  redis,    \* the keys of Redis
  made,     \* generations named so far
  rebuild,  \* each rebuild_leaderboard in progress
  read,     \* each request: its progress, then its answer
  faults    \* failures so far

vars == <<board, redis, made, rebuild, read, faults>>

------------------------------------------------------------------------------
(***************************************************************************)
(* PostgreSQL.                                                             *)
(***************************************************************************)
Committed == {board[i] : i \in DOMAIN board}

\* No revision row is read as NULL.
Revision_Null == IF board = <<>> THEN None ELSE Len(board)

\* The trigger advances the revision once per score, in its transaction
\* (RevisionCounts of module Settlement).
Revision == Len(board)

\* The place of s in the ORDER BY of list_canonical_scores and in row_number.
Position(S, s) == 1 + Cardinality({q \in S : q < s})
Ordered(S) == [k \in 1 .. Cardinality(S) |-> CHOOSE s \in S : Position(S, s) = k]

\* submit_final_score commits.
SubmitScore(s) ==
  /\ s \notin Committed
  /\ board' = Append(board, s)
  /\ UNCHANGED <<redis, made, rebuild, read, faults>>

------------------------------------------------------------------------------
(***************************************************************************)
(* Redis.                                                                  *)
(***************************************************************************)
NoKeys == [pointer |-> None,
           members |-> [g \in Generations |-> <<>>],
           players |-> [g \in Generations |-> [p \in Players |-> None]],
           metadata |-> [g \in Generations |-> None],
           expiring |-> {}]

\* The keys of projection_generation_keys(g) are gone.
Deleted(g) == [redis EXCEPT !.members[g] = <<>>, !.players[g] = [p \in Players |-> None],
                            !.metadata[g] = None, !.expiring = @ \ {g}]

Exists(g) == redis.members[g] # <<>> \/ redis.metadata[g] # None

\* The TTL of a superseded generation runs out.
Expire(g) ==
  /\ g \in redis.expiring
  /\ redis' = Deleted(g)
  /\ UNCHANGED <<board, made, rebuild, read, faults>>

Fault(keys) ==
  /\ faults < MaxFaults
  /\ faults' = faults + 1
  /\ redis' = keys
  /\ UNCHANGED <<board, made, rebuild, read>>

\* Keys are evicted, lost or overwritten with what no signature covers.
DamageMembers(g) ==
  LET m == redis.members[g] IN
  \/ \E i \in DOMAIN m : Fault([redis EXCEPT !.members[g] = RemoveAt(m, i)])
  \/ \E i \in 1 .. Len(m) + 1 : m # <<>> /\ Fault([redis EXCEPT !.members[g] = InsertAt(m, i, Garbage)])
  \/ \E i \in DOMAIN m : Fault([redis EXCEPT !.members[g] = ReplaceAt(m, i, Garbage)])
DamageMetadata(g) ==
  \E x \in {Garbage, None} :
    redis.metadata[g] # None /\ Fault([redis EXCEPT !.metadata[g] = x])
DamagePlayers(g) ==
  \E p \in Players, x \in {Garbage, None} :
    redis.players[g][p] # None /\ Fault([redis EXCEPT !.players[g][p] = x])

\* The pointer is lost, or set to another generation there was.
DamagePointer ==
  \E x \in ((1 .. made) \cup {None}) \ {redis.pointer} : Fault([redis EXCEPT !.pointer = x])

\* Redis comes back without its data.
Flush == redis # NoKeys /\ Fault(NoKeys)

------------------------------------------------------------------------------
(***************************************************************************)
(* rebuild_leaderboard.                                                    *)
(***************************************************************************)
NoRebuild == [step |-> "idle", generation |-> None, previous |-> None, scores |-> <<>>,
              revision |-> None]

Finish(w) == rebuild' = [rebuild EXCEPT ![w] = NoRebuild]
Goto(w, step) == rebuild' = [rebuild EXCEPT ![w].step = step]
Fail(w) ==
  rebuild' = [rebuild EXCEPT ![w] =
    [NoRebuild EXCEPT !.step = "cleanup", !.generation = rebuild[w].generation]]

\* A fresh generation is named and the pointer read.
ReadPointer(w) ==
  /\ rebuild[w].step = "idle" /\ made < MaxRebuilds
  /\ made' = made + 1
  /\ rebuild' = [rebuild EXCEPT ![w] =
       [NoRebuild EXCEPT !.step = "scores", !.generation = made + 1, !.previous = redis.pointer]]
  /\ UNCHANGED <<board, redis, read, faults>>

ReadScores(w) ==
  /\ rebuild[w].step = "scores"
  /\ rebuild' = [rebuild EXCEPT ![w].step = "revision", ![w].scores = Ordered(Committed)]
  /\ UNCHANGED <<board, redis, made, read, faults>>

\* A statement of its own, after other commits.
ReadRevision(w) ==
  /\ rebuild[w].step = "revision"
  /\ rebuild' = [rebuild EXCEPT ![w].step = "publish", ![w].revision = Revision]
  /\ UNCHANGED <<board, redis, made, read, faults>>

\* _member for each score, ranked from one.
Members(q) == [k \in DOMAIN q |-> [score |-> q[k], rank |-> k]]

\* Assignment keeps the last member of a player.
BestMembers_Last(q) ==
  [p \in Players |->
     LET own == {k \in DOMAIN q : PlayerOf[q[k]] = p}
         last == CHOOSE k \in own : \A j \in own : j <= k
     IN IF own = {} THEN None ELSE Members(q)[last]]

\* players.setdefault keeps the first member of a player.
BestMembers(q) ==
  [p \in Players |->
     LET own == {k \in DOMAIN q : PlayerOf[q[k]] = p}
         best == CHOOSE k \in own : \A j \in own : k <= j
     IN IF own = {} THEN None ELSE Members(q)[best]]

Published(b) ==
  [redis EXCEPT !.pointer = b.generation,
                !.members[b.generation] = Members(b.scores),
                !.players[b.generation] = BestMembers(b.scores),
                !.metadata[b.generation] = [count |-> Len(b.scores), revision |-> b.revision]]

Publish(w) ==
  /\ rebuild[w].step = "publish"
  /\ redis' = Published(rebuild[w])
  /\ Goto(w, "verify")
  /\ UNCHANGED <<board, made, read, faults>>

\* The MULTI is executed and its answer lost, so that the rebuild fails.
LosePublish(w) ==
  /\ rebuild[w].step = "publish" /\ faults < MaxFaults
  /\ faults' = faults + 1
  /\ redis' = Published(rebuild[w])
  /\ Fail(w)
  /\ UNCHANGED <<board, made, read>>

\* zrange is compared with what was written.
Verify(w) ==
  LET b == rebuild[w]
      same == redis.members[b.generation] = Members(b.scores)
  IN
  /\ b.step = "verify"
  /\ \/ ~same /\ Fail(w)
     \/ same /\ b.previous # None
        /\ rebuild' = [rebuild EXCEPT ![w] =
             [NoRebuild EXCEPT !.step = "retire", !.previous = b.previous,
                               !.generation = b.generation]]
     \/ same /\ b.previous = None /\ Finish(w)
  /\ UNCHANGED <<board, redis, made, read, faults>>

\* The pointer is read again, after publishing.
Retire_Current(w) ==
  LET old == redis.pointer IN
  /\ rebuild[w].step = "retire"
  /\ redis' = [redis EXCEPT !.expiring = IF Exists(old) THEN @ \cup {old} ELSE @]
  /\ Finish(w)
  /\ UNCHANGED <<board, made, read, faults>>

\* The keys of the previous generation that exist get a TTL.
Retire(w) ==
  LET old == rebuild[w].previous IN
  /\ rebuild[w].step = "retire"
  /\ redis' = [redis EXCEPT !.expiring = IF Exists(old) THEN @ \cup {old} ELSE @]
  /\ Finish(w)
  /\ UNCHANGED <<board, made, read, faults>>

\* A RedisError there is logged as a deferred cleanup, and the rebuild succeeds.
DeferRetire(w) ==
  /\ rebuild[w].step = "retire" /\ faults < MaxFaults
  /\ faults' = faults + 1
  /\ Finish(w)
  /\ UNCHANGED <<board, redis, made, read>>

\* Any other exception after the pointer was read: either database, or the
\* interruption of the command.
FailRebuild(w) ==
  /\ rebuild[w].step \in {"scores", "revision", "publish", "verify", "retire"} /\ faults < MaxFaults
  /\ faults' = faults + 1
  /\ Fail(w)
  /\ UNCHANGED <<board, redis, made, read>>

\* The rebuild's own keys are deleted, never the pointer.
Cleanup(w) ==
  /\ rebuild[w].step = "cleanup"
  /\ redis' = Deleted(rebuild[w].generation)
  /\ Finish(w)
  /\ UNCHANGED <<board, made, read, faults>>

\* The process dies, or the deletion fails as well.
CrashRebuild(w) ==
  /\ rebuild[w].step # "idle" /\ faults < MaxFaults
  /\ faults' = faults + 1
  /\ Finish(w)
  /\ UNCHANGED <<board, redis, made, read>>

------------------------------------------------------------------------------
(***************************************************************************)
(* LeaderboardProjectionReader.                                            *)
(***************************************************************************)
NoRead == [step |-> "idle", ask |-> None, count |-> None, revision |-> None,
           generation |-> None, rank |-> None, answer |-> None]

Move(r, step) == read' = [read EXCEPT ![r].step = step]
FallBack(r) ==
  read' = [read EXCEPT ![r] = [NoRead EXCEPT !.step = "fallback", !.ask = read[r].ask,
                                             !.count = read[r].count]]
Give(r, answer) == read' = [read EXCEPT ![r] = [NoRead EXCEPT !.answer = answer]]

\* zrange offset .. offset + limit, one row more than the page.
Rows(q, ask) ==
  {k \in DOMAIN q : ask.offset < k /\ k <= ask.offset + ask.limit + 1}
Page(q, ask) ==
  [items |-> {q[k] : k \in {j \in Rows(q, ask) : j <= ask.offset + ask.limit}},
   more |-> ask.offset + ask.limit + 1 \in Rows(q, ask)]

\* Authorization passes and count_canonical_scores answers.
ReadCount(r, ask) ==
  /\ read[r].step = "idle"
  /\ read' = [read EXCEPT ![r] = [NoRead EXCEPT !.step = "revision", !.ask = ask,
                                  !.count = Len(board)]]
  /\ UNCHANGED <<board, redis, made, rebuild, faults>>

\* leaderboard_projection_revision, in a later snapshot.
ReadExpectedRevision(r) ==
  /\ read[r].step = "revision"
  /\ read' = [read EXCEPT ![r].step = "pointer", ![r].revision = Revision]
  /\ UNCHANGED <<board, redis, made, rebuild, faults>>

GetGeneration(r) ==
  /\ read[r].step = "pointer"
  /\ IF redis.pointer = None
     THEN FallBack(r)
     ELSE read' = [read EXCEPT ![r].step = "metadata", ![r].generation = redis.pointer]
  /\ UNCHANGED <<board, redis, made, rebuild, faults>>

\* verify_metadata: scope, signature, revision and count.
VerifyMetadata(x, t) == x = [count |-> t.count, revision |-> t.revision]

\* The pipeline is no transaction: hgetall and zcard are two steps.
GetMetadata(r) ==
  LET t == read[r] IN
  /\ t.step = "metadata"
  /\ IF VerifyMetadata(redis.metadata[t.generation], t)
     THEN Move(r, "cardinality")
     ELSE FallBack(r)
  /\ UNCHANGED <<board, redis, made, rebuild, faults>>

GetCardinality(r) ==
  LET t == read[r] IN
  /\ t.step = "cardinality"
  /\ IF Len(redis.members[t.generation]) = t.count THEN Move(r, "members") ELSE FallBack(r)
  /\ UNCHANGED <<board, redis, made, rebuild, faults>>

\* A full page is expected also at the end of the board.
ExpectedRows_Unclipped(t) == t.ask.offset + 1 .. t.ask.offset + t.ask.limit + 1

\* expected_rows of projected_page.
ExpectedRows(t) ==
  {k \in 1 .. t.count : t.ask.offset < k /\ k <= t.ask.offset + t.ask.limit + 1}

\* parse_member: the signature covers the rank, which must be that of the row.
ValidMember(x, k) == x # Garbage /\ x.rank = k

GetPage(r) ==
  LET t == read[r]
      m == redis.members[t.generation]
      valid == Rows(m, t.ask) = ExpectedRows(t) /\ \A k \in Rows(m, t.ask) : ValidMember(m[k], k)
  IN
  /\ t.step = "members" /\ t.ask.kind = "page"
  /\ IF valid THEN Give(r, Page(m, t.ask)) ELSE FallBack(r)
  /\ UNCHANGED <<board, redis, made, rebuild, faults>>

\* hget of the player's member.
GetPlayer(r) ==
  LET t == read[r]
      x == redis.players[t.generation][t.ask.player]
  IN
  /\ t.step = "members" /\ t.ask.kind = "rank"
  /\ IF x = None
     THEN FallBack(r)
     ELSE read' = [read EXCEPT ![r].step = "rank", ![r].rank = x]
  /\ UNCHANGED <<board, redis, made, rebuild, faults>>

\* zscore and zrank of that member, whose rank and player must be as signed.
GetRank(r) ==
  LET t == read[r]
      m == redis.members[t.generation]
      at == {k \in DOMAIN m : m[k] = t.rank /\ ValidMember(m[k], k)}
  IN
  /\ t.step = "rank"
  /\ IF at # {} /\ PlayerOf[t.rank.score] = t.ask.player
     THEN Give(r, [items |-> {t.rank}, more |-> FALSE])
     ELSE FallBack(r)
  /\ UNCHANGED <<board, redis, made, rebuild, faults>>

\* A RedisError, or Redis is not configured at all.
RedisFails(r) ==
  /\ read[r].step \in {"pointer", "metadata", "cardinality", "members", "rank"}
  /\ FallBack(r)
  /\ faults' = faults + 1 /\ faults < MaxFaults
  /\ UNCHANGED <<board, redis, made, rebuild>>

\* The first row of the player in player_canonical_rank, none for a 404.
OwnBest(q, p) ==
  LET own == {k \in DOMAIN q : PlayerOf[q[k].score] = p}
  IN {q[k] : k \in {b \in own : \A j \in own : b <= j}}

\* canonical_leaderboard or canonical_player_rank, one statement of its own.
ReadCanonical(r) ==
  LET t == read[r]
      q == Members(Ordered(Committed))
  IN
  /\ t.step = "fallback"
  /\ Give(r, IF t.ask.kind = "page" THEN Page(q, t.ask)
             ELSE [items |-> OwnBest(q, t.ask.player), more |-> FALSE])
  /\ UNCHANGED <<board, redis, made, rebuild, faults>>

\* The client disconnects or PostgreSQL fails: an error, and no page.
AbortRead(r) ==
  /\ read[r].step # "idle"
  /\ read' = [read EXCEPT ![r] = NoRead]
  /\ UNCHANGED <<board, redis, made, rebuild, faults>>

------------------------------------------------------------------------------
Init ==
  /\ board = <<>>
  /\ redis = NoKeys
  /\ made = 0
  /\ rebuild = [w \in Rebuilders |-> NoRebuild]
  /\ read = [r \in Readers |-> NoRead]
  /\ faults = 0

Next ==
  \/ \E s \in Scores : SubmitScore(s)
  \/ \E g \in Generations :
       Expire(g) \/ DamageMembers(g) \/ DamageMetadata(g) \/ DamagePlayers(g)
  \/ DamagePointer \/ Flush
  \/ \E w \in Rebuilders :
       \/ ReadPointer(w) \/ ReadScores(w) \/ ReadRevision(w)
       \/ Publish(w) \/ LosePublish(w) \/ Verify(w) \/ Retire(w) \/ DeferRetire(w)
       \/ FailRebuild(w) \/ Cleanup(w) \/ CrashRebuild(w)
  \/ \E r \in Readers :
       \/ \E ask \in Asks : ReadCount(r, ask)
       \/ ReadExpectedRevision(r) \/ GetGeneration(r) \/ GetMetadata(r) \/ GetCardinality(r)
       \/ GetPage(r) \/ GetPlayer(r) \/ GetRank(r) \/ RedisFails(r)
       \/ ReadCanonical(r) \/ AbortRead(r)

Spec == Init /\ [][Next]_vars

------------------------------------------------------------------------------
(***************************************************************************)
(* Properties.                                                             *)
(***************************************************************************)
Member == [score : Scores, rank : Nat]
Metadata == [count : Nat, revision : Nat]
ASSUME NullAssumption ==
  /\ None \notin Member \cup Metadata \cup Nat \cup [ask : Asks, from : Nat]
  /\ Garbage \notin Member \cup Metadata \cup {None}

Keys == [pointer : Generations \cup {None},
         members : [Generations -> Seq(Member \cup {Garbage})],
         players : [Generations -> [Players -> Member \cup {Garbage, None}]],
         metadata : [Generations -> Metadata \cup {Garbage, None}],
         expiring : SUBSET Generations]

RebuildStep == {"idle", "scores", "revision", "publish", "verify", "retire", "cleanup"}
Rebuild == [step : RebuildStep, generation : Generations \cup {None},
            previous : Generations \cup {None}, scores : Seq(Scores),
            revision : Nat \cup {None}]

ReadStep == {"idle", "revision", "pointer", "metadata", "cardinality", "members", "rank", "fallback"}
Reply == [items : SUBSET Member, more : BOOLEAN]
Read == [step : ReadStep, ask : Asks \cup {None}, count : Nat \cup {None},
         revision : Nat \cup {None}, generation : Generations \cup {None},
         rank : Member \cup {Garbage, None}, answer : Reply \cup {None}]

\* Every variable has its type, and whoever is at a step holds what it needs.
TypeOK ==
  /\ board \in Seq(Scores)
  /\ redis \in Keys
  /\ made \in 0 .. MaxRebuilds
  /\ rebuild \in [Rebuilders -> Rebuild]
  /\ \A w \in Rebuilders :
       /\ rebuild[w].step # "idle" => rebuild[w].generation \in Generations
       /\ rebuild[w].step \in {"publish", "verify"} => rebuild[w].revision \in Nat
       /\ rebuild[w].step = "retire" => rebuild[w].previous \in Generations
  /\ read \in [Readers -> Read]
  /\ \A r \in Readers :
       /\ read[r].step # "idle" =>
            read[r].ask \in Asks /\ read[r].count \in Nat /\ read[r].answer = None
       /\ read[r].step \in {"metadata", "cardinality", "members", "rank"} =>
            read[r].generation \in Generations
       /\ read[r].step \in {"pointer", "metadata", "cardinality", "members", "rank"} =>
            read[r].revision \in Nat
       /\ read[r].step = "rank" => read[r].ask.kind = "rank" /\ read[r].rank # None
  /\ faults \in 0 .. MaxFaults

\* As long as nothing fails, concurrent rebuilds leave the pointer at a complete
\* generation that no TTL will remove.
CurrentKept ==
  LET g == redis.pointer IN
  faults = 0 /\ g # None =>
    /\ redis.metadata[g] # None
    /\ Len(redis.members[g]) = redis.metadata[g].count
    /\ g \notin redis.expiring

\* Generation g is that of the board as it is now, and unharmed.
Fresh(g) ==
  LET q == Ordered(Committed) IN
  /\ redis.members[g] = Members(q)
  /\ redis.players[g] = BestMembers(q)
  /\ redis.metadata[g] = [count |-> Len(board), revision |-> Len(board)]

\* What reader r is about to read is of the current board, and Redis does not fail.
UpToDate(r) ==
  LET t == read[r]
      g == IF t.step = "pointer" THEN redis.pointer ELSE t.generation
  IN /\ t.step \in {"pointer", "metadata", "cardinality", "members", "rank"}
     /\ t.count = Len(board) /\ t.revision = Len(board)
     /\ g # None /\ Fresh(g)
     /\ t.step = "rank" => t.rank = redis.players[g][t.ask.player]
     /\ t.step = "members" /\ t.ask.kind = "rank" =>
          \E s \in Committed : PlayerOf[s] = t.ask.player
     /\ faults' = faults

\* A reader that finds the current generation whole and up to date does not turn
\* to PostgreSQL, unless Redis fails it or the player has no score.
NoNeedlessFallback ==
  [][\A r \in Readers : UpToDate(r) => read'[r].step # "fallback"]_vars

\* Generations that are there, not current and without a TTL.
Orphans == {g \in Generations : Exists(g) /\ g \notin redis.expiring /\ g # redis.pointer}

\* redis_cache/projections.py:28 "Readers therefore reject the old generation
\* [...], and the next rebuild can still clean it up": once the rebuilds are over
\* and nothing failed, every generation but the current one carries a TTL.
NextRebuildCleansUp ==
  faults = 0 /\ (\A w \in Rebuilders : rebuild[w].step = "idle") => Orphans = {}

\* The board's variables, read off the requests.
Call == [r \in Readers |-> IF read[r].step = "idle" THEN None
                           ELSE [ask |-> read[r].ask, from |-> read[r].count]]
Answers == [r \in Readers |-> read[r].answer]

Board == INSTANCE LeaderboardBoard WITH call <- Call, reply <- Answers

\* Whatever Redis holds, and however rebuilds, failures and submissions fall
\* between the statements of a read, a page or a rank is that of the board at one
\* moment between the request and its answer.
ImplementsBoard == Board!Spec

==============================================================================
