----------------------------- MODULE Settlement -----------------------------
(***************************************************************************)
(* Final scores and the weekly settlement of one game: submit_final_score  *)
(* and settle_leaderboard of app/services/leaderboards.py, the trigger of  *)
(* migration 0013 and the row locks they meet at.                          *)
(*                                                                         *)
(* As in GameSessions a handler is one transaction, with a step per point  *)
(* at which it can wait or another commit can slip in, and one for its     *)
(* commit.  A final score, its outcome and its evidence are named by the   *)
(* session; a recipient, its reward and its evidence are one record of the *)
(* run, since one transaction writes all of them.  That transaction takes  *)
(* the run from processing to completed, so nobody ever reads a run that   *)
(* is still processing, and the code that would resume one never runs.     *)
(***************************************************************************)
EXTENDS Integers, Sequences, FiniteSets, FiniteSetsExt

CONSTANTS
  Workers,     \* request handlers that can be in flight at once
  Sessions,    \* sessions of the game, as numbers in the order of their ids
  PlayerOf,    \* PlayerOf[s]: the player of session s
  Values,      \* scores the outcome of a session can be worth
  Week,        \* ticks in a leaderboard period
  TierConfigs, \* reward_tier_configs: the n-th is version n
  MaxTime,     \* bound: last tick of the clock
  None         \* SQL NULL

Periods == 0 .. MaxTime \div Week

ASSUME SessionAssumption == Sessions \subseteq Nat /\ IsFiniteSet(Sessions)
ASSUME ClockAssumption == Week \in Nat \ {0} /\ MaxTime \in Nat
ASSUME ValueAssumption == Values \subseteq Nat
ASSUME TierAssumption ==
  TierConfigs \in Seq([published : Nat, tiers : Seq([min : Nat, max : Nat, reward : Nat])])
ASSUME NullAssumption == None \notin Nat

VARIABLES
  now,        \* the clock
  ended,      \* ended_at of a completed session
  points,     \* what its accepted outcome is worth
  recorded,   \* tick at which the session's final_scores row was committed
  revision,   \* leaderboard_projection_revisions, 0 while the period has no row
  runs,       \* completed settlement_runs rows
  tx,         \* the open transaction of each handler
  settled,    \* history: answers given to settlement calls
  broken      \* history: handlers that died on a unique constraint

rows == <<ended, points, recorded, revision, runs>>
vars == <<now, rows, tx, settled, broken>>

\* A score is filed under the week that follows.
Period_Following(t) == t \div Week + 1

\* leaderboard_period: the ISO week of a time.
Period(t) == t \div Week
PeriodEnd(p) == (p + 1) * Week

Completed(s) == ended[s] # None
Recorded(p) == {s \in Sessions : recorded[s] # None /\ Period(ended[s]) = p}

------------------------------------------------------------------------------
(***************************************************************************)
(* Ranking.                                                                *)
(***************************************************************************)
\* _ranking_order: higher score, then earlier completion, then smaller id.
Before(q, s) ==
  \/ points[q] > points[s]
  \/ points[q] = points[s] /\ ended[q] < ended[s]
  \/ points[q] = points[s] /\ ended[q] = ended[s] /\ q < s

\* Every score of a player is ranked, as on the public board.
BestOf_AllScores(S) == S

\* The rows whose row_number over their player's partition is 1.
BestOf(S) == {s \in S : \A q \in S : PlayerOf[q] = PlayerOf[s] => ~Before(q, s)}

\* The newest version, whenever it was published.
TierConfig_Newest(p) == DOMAIN TierConfigs

\* settlement_tier_config: versions published by the end of the period.
TierConfig(p) == {v \in DOMAIN TierConfigs : TierConfigs[v].published <= PeriodEnd(p)}

Matching(tiers, rank) == {i \in DOMAIN tiers : tiers[i].min <= rank /\ rank <= tiers[i].max}

\* The position of s when T is listed in ranking order.
Position(s, T) == 1 + Cardinality({q \in T : Before(q, s)})

\* settle_leaderboard's loop over list_settlement_scores: the first matching tier
\* pays the rank; a rank that no tier covers wins nothing.
Winners(S, tiers) ==
  LET best == BestOf(S)
      matching(s) == Matching(tiers, Position(s, best))
  IN {[score |-> s, rank |-> Position(s, best), reward |-> tiers[Min(matching(s))].reward] :
        s \in {b \in best : matching(b) # {}}}

------------------------------------------------------------------------------
(***************************************************************************)
(* Transactions and locks.                                                 *)
(***************************************************************************)
NoTx == [step |-> "idle", plan |-> "none", score |-> None, period |-> None,
         revision |-> None, counted |-> {}, winners |-> {}]

Idle(w) == tx[w].step = "idle"
Finish(w) == tx' = [tx EXCEPT ![w] = NoTx]

SessionFree_Unlocked(w, s) == TRUE

\* lock_session: no other open submission has locked the session.
SessionFree(w, s) == \A v \in Workers \ {w} : tx[v].plan = "score" => tx[v].score # s

\* The revision row that another open transaction has inserted or updated stays
\* locked until that transaction ends.
RevisionFree_Unlocked(w, p) == TRUE

RevisionFree(w, p) ==
  \A v \in Workers \ {w} :
    tx[v].plan = "score" /\ tx[v].step = "commit" => tx[v].period # p

\* lock_game_by_id is held by another settlement.
GameLocked(w) == \E v \in Workers \ {w} : tx[v].plan = "settle"

\* The foreign key of a new revision row holds the game KEY SHARE.
GameShared(w) ==
  \E v \in Workers \ {w} : tx[v].plan = "score" /\ tx[v].step = "commit" /\ tx[v].revision = 1

GameFree_Unlocked(w) == TRUE

GameFree(w) == ~GameLocked(w) /\ ~GameShared(w)

------------------------------------------------------------------------------
(***************************************************************************)
(* submit_final_score.                                                     *)
(***************************************************************************)
\* play_session or evaluate_fairness completes a session (module GameSessions).
CompleteSession(s, v) ==
  /\ ~Completed(s)
  /\ ended' = [ended EXCEPT ![s] = now]
  /\ points' = [points EXCEPT ![s] = v]
  /\ UNCHANGED <<now, recorded, revision, runs, tx, settled, broken>>

\* lock_session is granted, the outcome is accepted and the clock is still before
\* the end of the session's period.  A recorded score is answered as it is.
LockSession(w, s) ==
  /\ Idle(w) /\ SessionFree(w, s) /\ Completed(s) /\ recorded[s] = None
  /\ now < PeriodEnd(Period(ended[s]))
  /\ tx' = [tx EXCEPT ![w] = [NoTx EXCEPT !.step = "insert", !.plan = "score", !.score = s,
                              !.period = Period(ended[s])]]
  /\ UNCHANGED <<now, rows, settled, broken>>

\* The flush inserts the score and its trigger advances the revision: an UPDATE
\* of a row that exists, an INSERT that needs KEY SHARE on the game otherwise.
InsertScore(w) ==
  LET p == tx[w].period IN
  /\ tx[w].step = "insert"
  /\ RevisionFree(w, p)
  /\ revision[p] = 0 => ~GameLocked(w)
  /\ tx' = [tx EXCEPT ![w].step = "commit", ![w].revision = revision[p] + 1]
  /\ UNCHANGED <<now, rows, settled, broken>>

\* The score, its evidence and the revision are committed together; a second row
\* for the session would violate uq_final_scores_session.
CommitScore(w) ==
  LET s == tx[w].score IN
  /\ tx[w].step = "commit" /\ tx[w].plan = "score"
  /\ IF recorded[s] = None
     THEN /\ recorded' = [recorded EXCEPT ![s] = now]
          /\ revision' = [revision EXCEPT ![tx[w].period] = tx[w].revision]
          /\ UNCHANGED broken
     ELSE broken' = broken \cup {"score"} /\ UNCHANGED <<recorded, revision>>
  /\ Finish(w)
  /\ UNCHANGED <<now, ended, points, runs, settled>>

------------------------------------------------------------------------------
(***************************************************************************)
(* settle_leaderboard.                                                     *)
(***************************************************************************)
\* The period may still be running.
PeriodOver_Unchecked(p) == TRUE

\* LeaderboardPeriodOpenError is not raised.
PeriodOver(p) == now >= PeriodEnd(p)

\* lock_game_by_id is granted and the period has no run: past the clock, a tier
\* configuration is chosen and the run inserted.
LockGame(w, p) ==
  /\ Idle(w) /\ GameFree(w)
  /\ runs[p] = None
  /\ PeriodOver(p)
  /\ TierConfig(p) # {}
  /\ tx' = [tx EXCEPT ![w] = [NoTx EXCEPT !.step = "scores", !.plan = "settle", !.period = p]]
  /\ UNCHANGED <<now, rows, settled, broken>>

\* list_settlement_scores reads in a snapshot of its own, after the clock, and the
\* loop allocates the rewards; submissions can commit before it and after it.
ReadScores(w) ==
  LET p == tx[w].period
      S == Recorded(p)
  IN
  /\ tx[w].step = "scores"
  /\ tx' = [tx EXCEPT ![w].step = "commit", ![w].counted = S,
                      ![w].winners = Winners(S, TierConfigs[Max(TierConfig(p))].tiers)]
  /\ UNCHANGED <<now, rows, settled, broken>>

\* The completed run, its recipients, rewards and evidence are committed; a second
\* run of the period would violate uq_settlement_game_period.
CommitRun(w) ==
  LET p == tx[w].period IN
  /\ tx[w].step = "commit" /\ tx[w].plan = "settle"
  /\ IF runs[p] = None
     THEN /\ runs' = [runs EXCEPT ![p] = [counted |-> tx[w].counted, winners |-> tx[w].winners]]
          /\ settled' = settled \cup {<<p, tx[w].winners>>}
          /\ UNCHANGED broken
     ELSE broken' = broken \cup {"settle"} /\ UNCHANGED <<runs, settled>>
  /\ Finish(w)
  /\ UNCHANGED <<now, ended, points, recorded, revision>>

\* A repeated call is answered with what the scores say today.
ReplayRun_Recomputed(w, p) ==
  /\ Idle(w) /\ GameFree(w)
  /\ runs[p] # None
  /\ settled' = settled \cup
       {<<p, Winners(Recorded(p), TierConfigs[Max(TierConfig(p))].tiers)>>}
  /\ UNCHANGED <<now, rows, tx, broken>>

\* A completed run is answered with its stored recipients.
ReplayRun(w, p) ==
  /\ Idle(w) /\ GameFree(w)
  /\ runs[p] # None
  /\ settled' = settled \cup {<<p, runs[p].winners>>}
  /\ UNCHANGED <<now, rows, tx, broken>>

------------------------------------------------------------------------------
\* get_session rolls back after an error, a timeout or a crash.
Rollback(w) ==
  /\ ~Idle(w)
  /\ Finish(w)
  /\ UNCHANGED <<now, rows, settled, broken>>

Tick ==
  /\ now < MaxTime
  /\ now' = now + 1
  /\ UNCHANGED <<rows, tx, settled, broken>>

Init ==
  /\ now = 0
  /\ ended = [s \in Sessions |-> None]
  /\ points = [s \in Sessions |-> None]
  /\ recorded = [s \in Sessions |-> None]
  /\ revision = [p \in Periods |-> 0]
  /\ runs = [p \in Periods |-> None]
  /\ tx = [w \in Workers |-> NoTx]
  /\ settled = {}
  /\ broken = {}

Next ==
  \/ Tick
  \/ \E s \in Sessions, v \in Values : CompleteSession(s, v)
  \/ \E w \in Workers :
       \/ \E s \in Sessions : LockSession(w, s)
       \/ InsertScore(w) \/ CommitScore(w)
       \/ \E p \in Periods : LockGame(w, p) \/ ReplayRun(w, p)
       \/ ReadScores(w) \/ CommitRun(w) \/ Rollback(w)

Spec == Init /\ [][Next]_vars

------------------------------------------------------------------------------
(***************************************************************************)
(* Properties.                                                             *)
(***************************************************************************)
Step == {"idle", "insert", "scores", "commit"}
Plan == {"none", "score", "settle"}
Winner == [score : Sessions, rank : Nat, reward : Nat]
Run == [counted : SUBSET Sessions, winners : SUBSET Winner]
ASSUME RunAssumption == None \notin Run

Transaction == [step : Step, plan : Plan, score : Sessions \cup {None},
                period : Periods \cup {None}, revision : Nat \cup {None},
                counted : SUBSET Sessions, winners : SUBSET Winner]

WellFormed(t) ==
  /\ t.step = "idle" <=> t.plan = "none"
  /\ t.step = "insert" => t.plan = "score"
  /\ t.step = "scores" => t.plan = "settle"
  /\ t.plan = "score" => t.score # None /\ (t.step = "commit" => t.revision # None)
  /\ t.plan # "none" => t.period # None
  /\ t.plan = "settle" => TierConfig(t.period) # {}

\* Every variable has its type, and an open transaction names what its plan needs.
TypeOK ==
  /\ now \in 0 .. MaxTime
  /\ ended \in [Sessions -> (0 .. MaxTime) \cup {None}]
  /\ points \in [Sessions -> Values \cup {None}]
  /\ recorded \in [Sessions -> (0 .. MaxTime) \cup {None}]
  /\ revision \in [Periods -> Nat]
  /\ runs \in [Periods -> Run \cup {None}]
  /\ tx \in [Workers -> Transaction]
  /\ \A w \in Workers :
       WellFormed(tx[w]) /\ (tx[w].plan = "score" => Completed(tx[w].score))

Timely(p) == {s \in Recorded(p) : recorded[s] < PeriodEnd(p)}

\* A period is settled over committed scores only, and a score committed before
\* the period ended is never left out: the settlement reads the clock under the
\* game's lock and the scores after it, in a later snapshot.
TimelyScoresCount ==
  \A p \in Periods : runs[p] # None =>
    Timely(p) \subseteq runs[p].counted /\ runs[p].counted \subseteq Recorded(p)

Better(q, s) == PlayerOf[q] # PlayerOf[s] /\ Before(q, s)

\* The recipients of a run against the rules: a rank counts the players with a
\* better score, one recipient per player, no paid rank is skipped, and the
\* reward is that of the tier configuration in force when the period ended.
PaidByRank(p) ==
  LET C == runs[p].counted
      R == runs[p].winners
      config == CHOOSE v \in DOMAIN TierConfigs :
                  /\ TierConfigs[v].published <= PeriodEnd(p)
                  /\ \A u \in DOMAIN TierConfigs :
                       u > v => TierConfigs[u].published > PeriodEnd(p)
      tiers == TierConfigs[config].tiers
      pays(k) == {i \in DOMAIN tiers : k \in tiers[i].min .. tiers[i].max}
  IN
  /\ \A x \in R :
       /\ x.score \in C
       /\ x.rank = 1 + Cardinality({PlayerOf[q] : q \in {c \in C : Better(c, x.score)}})
       /\ \E i \in pays(x.rank) : x.reward = tiers[i].reward /\ \A j \in pays(x.rank) : i <= j
       /\ \A y \in R : PlayerOf[x.score] = PlayerOf[y.score] => x = y
  /\ \A k \in 1 .. Cardinality({PlayerOf[c] : c \in C}) :
       pays(k) # {} => \E x \in R : x.rank = k

RewardsFollowRanks == \A p \in Periods : runs[p] # None => PaidByRank(p)

\* The revision of a period is the number of its scores: concurrent submissions
\* advance it one after the other, and one that dies does not advance it.
RevisionCounts == \A p \in Periods : revision[p] = Cardinality(Recorded(p))

\* The session's and the game's row locks keep every call away from
\* uq_final_scores_session and uq_settlement_game_period.
SettledOnce == broken = {}

\* Whenever it is called again, a settlement answers what its first call answered.
SameRecipients == \A a, b \in settled : a[1] = b[1] => a = b

\* README.md:46 "Weekly settlement uses each player's best eligible result": the
\* recipients of a settled period are the winners among all its final scores.
SettlementIsFinal ==
  \A p \in Periods : runs[p] # None =>
    runs[p].winners = Winners(Recorded(p), TierConfigs[Max(TierConfig(p))].tiers)

\* The contract's variables, read off the rows.
InTime(s) == recorded[s] < PeriodEnd(Period(ended[s]))
TimelyScores == {s \in Sessions : recorded[s] # None /\ InTime(s)}
LateScores == {s \in Sessions : recorded[s] # None /\ ~InTime(s)}
PeriodOf == [s \in Sessions |-> IF Completed(s) THEN Period(ended[s]) ELSE None]
CountedIn == [p \in Periods |-> IF runs[p] = None THEN None ELSE runs[p].counted]

Contract == INSTANCE SettlementContract WITH
  timely <- TimelyScores, late <- LateScores, period <- PeriodOf, counted <- CountedIn

\* Submissions and settlements implement the atomic contract: a score is recorded
\* once, a period is settled once, and what was recorded in time is counted.
ImplementsSettlementContract == Contract!Spec

==============================================================================
