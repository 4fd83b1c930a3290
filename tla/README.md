# Formal model of the RNG game platform

TLA+ modules, TLC runs and TLAPS proofs about the game platform of this repository: a FastAPI
application over PostgreSQL (READ COMMITTED), an optional Redis projection of the leaderboard, and
a browser client. Each request is one handler with one database transaction; many run at once, in
several processes.

`PROJECT.json` lists components, runs, mutants, theorems, hazards, findings, and for every
definition the source lines it stands for.

## 1. The system

| Part | State | Operations | Hard part |
| --- | --- | --- | --- |
| Session lifecycle (`app/services/sessions.py`, `session_termination.py`, `session_transitions.py`) | `game_sessions` | create, retrieve, recover (`retrieve_player_game_state`), cancel; expiry on the way of every call | concurrent ends of one session, creations that wait, the cooldown, idempotency keys |
| Direct play (`services/gameplay.py`) | `outcomes`, `rewards`, evidence | `play_session` | one outcome per session, retries |
| Provably fair lifecycle (`services/fairness.py`) | `fairness_proofs`, `fairness_seed_custody`, `fairness_proof_events` | `commit_fairness`, `evaluate_fairness`, `verify_*` | the proof must end with its session; four tables in agreement |
| Session rewards (`services/rewards.py`) | `rewards` | `claim_session_reward` | claimed once |
| Transactions (`database.py`) | row and advisory locks | begin, commit, rollback, timeouts | lock order, deadlocks |
| Final scores and settlement (`services/leaderboards.py`) | `final_scores`, `settlement_runs`, `settlement_recipients`, `rewards` | `submit_final_score`, `settle_leaderboard` | a score that commits while its week is being settled |
| Leaderboard projection (`leaderboard_projection.py`, `redis_cache/`, `tools/rebuild_leaderboard.py`) | Redis pointer, generations; revisions in PostgreSQL | rebuild, page, player rank | torn reads, failed and concurrent rebuilds |
| Event hub (`leaderboard_events.py`, `api/leaderboards.py`) | subscriptions with bounded queues | subscribe, publish, close, shutdown | dropped events, the shutdown sentinel, crashes between commit and publication |
| Live leaderboard (`static/js/components/leaderboard.js`, `core/player-store.js`) | board, personal entry, event source, debounce | load, refresh, change of player or week | overlapping loads, late answers, missed events |
| Game pages (`static/js/games/*.js`, `core/operation-journal.js`, `final-score.js`, `api-client.js`) | page state, operation journal in localStorage | load, recover, play, submit the score | lost answers and reloads between any two calls, the countdown's own recovery |
| Rules and derivation (`game_rules.py`, `rng.py`, `fairness_events.py`) | none | draws, reward map, scoring; derivation, event chain, verification | rejection sampling, boundaries of the weights; which changed evidence is told |
| Catalogue, players, analytics, application shell, migrations, tools | rows written once, or none | inserts, reads, wiring | - |

The parts meet in the database. Sessions feed outcomes and rewards, completed sessions feed final
scores, final scores feed settlements (which issue rewards of their own), the projection and,
through a trigger on the score table, the projection's revision. The hub carries only "something
changed" from a committed score to the streams of the browsers, which read again.

What makes each part correct: a session ends once and everything that hangs on it ends with it;
idempotency keys answer with the one stored result; a settlement contains every score of its week,
ranks each player once and pays once; a projected page is one PostgreSQL held; a subscriber that
stays connected eventually reads again after a change; a browser that reloads anywhere reaches the
state of the server.

## 2. Modules

### GameSessions

The four session services and everything they share, as concurrent transactions.

* `sessions`, `proofs`, `custody`, `chain`, `outcomes`, `rewards` and `evidence` are the committed
  rows. A session is named by the `request_id` that created it; proof, outcome and reward are unique
  per session and carry its name. An outcome is abstracted to the intent it answers (choice, action
  list or client seed): rules and digests are functions of it.
* `tx[w]` is the open transaction of handler `w`: the statement it stands at (`step`), what it will
  commit (`plan`), its arguments, `start` (what `now()` returns in it, hence `created_at`), `at` (the
  `clock()` it read) and the elapsed sessions it finalizes on the way (`due`).
* Locks are not variables: `HoldsRequest`, `HoldsPlayer`, `HoldsSession` and `HoldsReward` read them
  off the statement a handler stands at, and commit or rollback releases them all.
* One action per point where a handler can wait, and one per commit. `BeginCreate`, `LockRequest`,
  `LockPlayer`, `LockElapsed`, `CommitCreate` are the five stages of `create_session`;
  `RecoverState`, `LockElapsed`, `CommitRecover` those of `retrieve_player_game_state`; the other
  services lock their row and decide (`DecideCancel`, `DecidePlay`, `DecideCommitment`,
  `DecideReveal`, `DecideClaim`, and `DecideExpire` for the `finalize_expired_session` each of them
  starts with) and then commit. `ReplayOutcome` answers a retry. Ticks may fall between any two
  steps of a transaction.
* `UniqueViolation` is the flush that a unique constraint refuses. `Rollback` is everything else
  that ends a transaction: lock and statement timeouts, the deadlock detector, a disconnect, a
  crash, a domain error that depends on data outside the model.
* The event insertion of play, evaluation and claim takes KEY SHARE on the player row, which
  excludes `lock_player`'s FOR UPDATE (`KeyShareFree`).

Left out: ownership and existence checks that fail before any write, inactive players and games
(they only refuse calls), the pinned configuration apart from its cooldown and duration, and the
hashes of the event chain, of which only order and completeness are kept.

### SessionContract

What the services promise, without transactions, locks, proofs or a clock: plays start, stop or are
finished atomically, a finished play is rewarded in the same instant and claimed once, a player has
one active play per game. `GameSessions` implements it (`ImplementsContract`), the refinement
mapping being the committed rows, and so does `PlayServer` for one player (`ServerKeepsContract`).

### MCGameSessions

Model values and the games of the TLC instances; handlers, players and intents are symmetric,
request ids are not (session ids break ties in `latest_session`).

### GameSessions_proofs, GameSessionsContract_proofs

Theorems about `GameSessions`: the agreement of the rows and the decisions, and what rests on it. Section 4.

### Settlement, SettlementContract, MCSettlement, Settlement_proofs

Final scores and the weekly settlement of one game.

* `recorded[s]` is the tick at which the final score of session `s` was committed, `ended` and `points`
  are the session's `ended_at` and what its outcome is worth, `revision` the row that the trigger of
  migration 0013 maintains, `runs` the completed settlements. A recipient, its reward and their
  evidence are one record (`winners`), because one transaction writes them; `counted` remembers which
  scores the settlement read.
* `submit_final_score` is `LockSession` (session lock, checks, clock), `InsertScore` (the flush, with
  the revision row's lock and, for the first score of a week, KEY SHARE on the game) and
  `CommitScore`. `settle_leaderboard` is `LockGame` (the game's FOR UPDATE, the clock), `ReadScores`
  (the ranking query, a later snapshot, and the loop over tiers) and `CommitRun`; `ReplayRun` answers
  from a completed run. A recorded score is answered as it is and changes nothing.
* `Before`, `BestOf`, `Position`, `TierConfig` and `Winners` are the ranking query, the version query
  and the loop. Nobody ever reads a run in `processing`, since the transaction that inserts it also
  completes it, so the branch that resumes one is unreachable and not modelled.
* `SettlementContract` is the promise: scores are recorded once, a period is settled once over
  recorded scores and leaves out none that was recorded before the period ended.

Left out: authorization, a game without the capability, a malformed period or tier, inactive players
(they refuse calls before any write), and the key-share locks on the player and outcome rows, which
delay a submission but not past anything the properties see.

### LeaderboardProjection, LeaderboardBoard, MCLeaderboardProjection, LeaderboardProjection_proofs

The Redis projection of one game and week: `rebuild_leaderboard`, the page and rank readers, and the
scores in PostgreSQL they are about. One action per statement sent to PostgreSQL and per command,
pipeline or MULTI sent to Redis.

* `board` is the committed scores in the order of their commits; a score is its place in the ranking
  order, which the queries and the sorted set share. The revision is the number of scores, as
  `Settlement` shows of the trigger (`RevisionCounts`).
* `redis` is the pointer and, per generation, the sorted set (`members`), the hash of best members
  (`players`), the `metadata` and whether the keys carry a TTL (`expiring`). A member is the record its
  signature binds; whatever does not verify is `Garbage`. Generations are numbered in the order they
  are named and never reused, as fresh UUIDs are not.
* `rebuild[w]` is a rebuild at one of its steps: `ReadPointer`, `ReadScores`, `ReadRevision` (three
  snapshots), `Publish` (the MULTI), `Verify`, `Retire`; `LosePublish` executes the MULTI and loses its
  answer, `FailRebuild` is any other exception, `Cleanup` the deletion of the own keys, `DeferRetire`
  the logged failure of the last pipeline, `CrashRebuild` the end of the process anywhere.
* `read[r]` is a request: `ReadCount` and `ReadExpectedRevision` (two snapshots), `GetGeneration`,
  `GetMetadata` and `GetCardinality` (a pipeline is not atomic), `GetPage`, or `GetPlayer` and
  `GetRank`; every doubt leads to `FallBack`, and `ReadCanonical` answers from PostgreSQL in a later
  snapshot.
* Redis may expire, lose, add or overwrite members, hashes and the pointer (`Damage...`), or come back
  empty (`Flush`); `faults` counts this and the failures of rebuilds and commands.

`LeaderboardBoard` is the promise without Redis: an answer is that of the board at some moment between
the request and the answer.

Left out: the encoding of members and metadata and the digests (what a signature binds is what a
record holds; a stored value that verifies is one that was written); the rotation of the signing key;
labels of players; a Redis that comes back with an older state of its data; `project_final_score`,
which changes nothing.

### LeaderboardEvents, LiveBoard, MCLiveBoard, LiveBoard_proofs

The fan-out of leaderboard changes, and the live board in a browser on top of it.

* `LeaderboardEvents` is `LeaderboardEventHub` and the server's half of a stream. `scores` counts the
  committed scores per week, `handlers` the requests between their commit and `hub.publish`. The hub
  runs on one event loop and none of its critical sections awaits, so `Publish`, `Subscribe`,
  `Shutdown` and `Unsubscribed` are single steps; `Deliver` is one turn of the stream's loop.
  `Offer` is the bounded queue that drops its oldest event, `None` the sentinel. `Restart` loses
  what is only in memory.
* `LiveBoard` is the component: `page` its fields, `loads` the calls of `load()` under way. `Load` and
  `LoadOver` are the start and the `finally` of `load()`, `AnswerPage` and `AnswerRank` the server,
  `ApplyLoad` and `FailLoad` the continuation; `Stale` is what advancing `requestGeneration` does.
  `Connect` ... `LoseConnection` are the event source, `ReadWire` its two listeners, `Poll` and
  `FireTimer` the poll and debounce timers, `PlayerChecked`, `PlayerGone` and `CheckFails` the rest of
  `init()` after `validateCurrent`, `StartCurrentPeriod` the turn of the week.
* A page of the leaderboard is the number of scores it counts. `due` is a ghost: the scores of which
  the open stream has told its reader, by an event or by having reconnected.

Left out: announcements, animations, the status label (an error and a reconnection set it, nothing
reads it), heartbeats, more games.

### PlayServer, GamePage, GamePage_proofs

The three game pages against the services of one player.

* `PlayServer` is the services as a browser meets them, each call at one moment, which is what
  `GameSessions` implements (`ImplementsContract`); sessions are numbered, "due" is active past
  `expires_at`, `score = "closed"` a week that ended before its score was submitted.
* `GamePage` has the fields of the page (`page`), the entry of the journal (`journal`) and two threads:
  `main`, what the visitor or the load started and `busy` reserves, and `timer`, the `recover()` that a
  countdown starts and `busy` does not hold back. A thread waits for one request; `Serve` answers
  it, `Continue` runs the function to its next request (`Resume`), `Lose` gives it up while it may
  reach the server later (`late`, `ServeLate`), `Fail` answers it with a 503. `Reload` keeps journal
  and server only.
* `page.failure` tells whether the message on the page is that of an error ("told"), or an error has been
  thrown with nobody to catch it and no message of its own ("unheard"); whatever writes another status and message
  clears it.
* `Recovered...`, `Created`, `Played`, `SubmitFinalScore`, `Throw` are the three pages' functions between
  two `await`s; where the pages agree they share a definition.

Left out: the choice of another player in the middle of a request, the background `recover()` of a
player store event, `claim()` (no control reaches it: `canClaim` tests for the status "pending", which
no reward has), animations, which take no time here, and error codes that no state of the model gives. A countdown
that is adopted is started over; the interval that an overlapping `recover()` may leave running beside it is not
modelled.

### GameRules, GameRules_proofs, ProofVerification, MCProofVerification, ProofVerification_proofs

* `GameRules` (theorems in `GameRules_proofs`) has the pure functions: `Uniform` (rejection sampling), the reward
  map, and for each game evaluation, comparison of retries and value. Numbers keep their roles, not their size: `Space` stands
  for 2^256.
* `ProofVerification` is one spin's evidence, column by column: `Commit`, `Evaluate`, `End` (expiry or
  cancellation) write proof, custody and events as the services do, before or after migration 0012
  (`legacy`, `Migrate`); `Corrupt...` changes any column of any row to any other value of its kind, as
  `tests/integration/test_fairness_evidence.py:73` does to one; `Verify` is the verdict with its code.
* `SchemaAdmits` is what the constraints and triggers of migrations 0007, 0008 and 0012 demand of the services'
  steps, before or after the migration: which columns a proof of each status holds (`EvidenceOf0007`,
  `EvidenceOf0012`), which updates of a proof they let pass (`TransitionOf...`), and that events are numbered
  rows that are only appended (`EventRows`, `AppendOnly`). Uniqueness over proofs, foreign keys and the patterns of
  hexadecimal columns are no part of it. The constraints are stated beside the services'
  actions, which do not consult them; a corruption is a change made past them.
* A hash is the term of what it hashes, so that different contents never collide; HMAC values are
  integers given by the constant `Value`.

What a verdict of "verified" means is `Established` (of the result that was computed and paid) and `Promised` (of the
commitment as it was published, which `committed` remembers). With payloads in the events both are every
column the verifier compares. A first event of format 1 binds no nonce, configuration or session, and
with two changes commitment and custody can be exchanged together before the reveal; a last event of format 1
leaves, after two changes, the digest and one of its inputs open, but not the seed, the draw and the prize. In no case
does `verify_fairness_proof` notice custody that changes after the reveal, which it does not read, or `created_at` of
the last event rewritten together with that event's hash, which anyone can compute. `VerifiedIsGenuine` claims none of
these.

## 3. Runs

| Run | Instance | What it shows |
| --- | --- | --- |
| `fairness` | 2 handlers, 1 player, 1 fairness game, 2 requests, 2 seeds, clock 0..4 | all row agreements, decisions under locks, cooldown, recovery, the one kind of deadlock, irrevocability and the contract |
| `retries` | 2 handlers, 2 players, a choice and a skill game, 2 requests | idempotency of creations and plays, also across players; no call dies on a constraint |
| `no_cooldown` | 2 handlers, 1 player, a choice game without cooldown, 3 requests | creations that overtake each other, to the unique index; the contract still holds |
| `overtaken` | as `no_cooldown`, longer transactions | finding: recovery can miss the active session |
| `settlement` | 2 handlers, 3 sessions of 2 players, 2 weeks of 2 ticks, 2 tier versions | timely scores counted, ranks and rewards right, revision exact, once only, the contract |
| `settlement_late` | the same, clock 0..2 | finding: a score behind its settlement |
| `projection` | 2 rebuilds, 1 reader, 2 scores of a player, a page of one row and a rank, 1 failure | pages and ranks are of one moment of the request; the projection is used when it is whole; the pointer names a complete generation while nothing fails |
| `projection_cleanup` | the same without failure | finding: a generation nobody cleans up |
| `live_board` | 1 stream, 2 weeks, 2 players, queue and wire of 1, 2 scores, 1 disturbance, fair | the sentinel is heard, board and entry belong together, no signal is lost, a board never goes back and catches up |
| `game_page` | 3 games, 2 sessions, 2 answers, 1 disturbance, fair | one answer counts, no dead end but the five named ones, the page becomes usable again |
| `next_spin` | the wheel, 2 spins, 1 disturbance | finding: a spin evaluates the proof of another |
| `verification` | 2 seeds, 2 client seeds, 2 maps, digests 0..7, 2 changes | what verifies has the columns its evidence binds, genuine evidence verifies, and no service step is one that the lifecycle constraints and triggers refuse; the draws, maps, cards and skill checks keep their rules (as assumptions TLC evaluates) |

Bounds. `MaxTime` ends the clock and `TxLimit` keeps a transaction from staying open longer than so
many ticks; requests are never reused for a second session because the table never deletes. Two
handlers suffice for every pairwise race, and locks and constraints only relate pairs; with
`Duration` = `Cooldown` = 2, `TxLimit` = 1 and a clock up to 4, an elapsed session, its successor and
a transaction that straddles the deadline all occur. In `no_cooldown` a transaction stays within its tick
(`TxLimit` = 0), so that creations tie in `created_at` and the session id decides which is the latest, up to
the flush that the unique index refuses. The theorems remove these bounds for the
properties they state.

Distinct states: 480,236 (`fairness`), 826,957 (`retries`), 118,308 (`no_cooldown`), 402,880 (`settlement`),
1,337,576 (`projection`), 521,728 (`live_board`), 151,716 (`game_page`), 728,840 (`verification`); the longest
runs take about three minutes with two workers.

In `settlement` two sessions of one player and one of another give repeated players, ties in points
and in time, and an unpaid rank; the first week ends at tick 2 and is settled then or later, the
second tier version is published after it, and the second week runs on. Overlapping tiers exercise
the first-match rule.

In `projection` two rebuilds can read the same pointer, publish in either order and fail at any step
while two scores are committed before, between or after their statements and those of the reader. A
page of one row looks at a second row, so that both ends of the board, the row too many and a row that
is missing occur; the rank is that of a player with none, one or two scores. One reader suffices
because readers change nothing that others see. An answered request is not continued (`Unanswered`):
it holds nothing the next one would use. A single failure reaches every error path; `Refinement`
covers any number of all of these.

In `live_board` a queue of one is full after one event, so every second event or the sentinel
drops one; two scores and two weeks let a load be overtaken by an event, a poll, the turn of the week or
the choice of a player at every step. One disturbance (a failed load, a broken connection, a crash, a
shutdown, a reload, a choice) hits each of these; `LiveBoard_proofs` covers any number.

In `game_page` two sessions give a round before and after the one at hand, two answers a wrong one, and
one disturbance hits any request before or after the server has seen it, with a late execution at any
later moment. `GamePage_proofs` covers any number of each. Server time passes freely. In `verification` two
changes are the smallest number that can contradict the single-change tests (a value and the copy of it in an event); with three the payload of an
event, its hash and the column can be changed together, which no unkeyed hash tells.

Deadlocks. The services take their locks in different orders: play and evaluation hold the session row and take
KEY SHARE on the player row at the end, creation and recovery hold the player row and then lock the elapsed
sessions, a claim goes from the reward to the player, a creation from the request id to the player.
`DeadlocksOnlyAtExpiry` says that the orders meet in one way only: a play or an evaluation that found its session open
before `expires_at`, and a creation or a recovery that finds the same session elapsed. `fairness` reaches this cycle,
since a transaction there may stay open over a tick. PostgreSQL's deadlock detector or `lock_timeout`
(`app/database.py:40`) aborts one of the two, which is a `Rollback`, so nothing wrong is committed; any other cycle
would be a wait that only a timeout ends. A replayed evaluation that reads the reward waits behind a claim, but
its session is completed and nobody else needs what it holds. That every call ends is not stated: a rollback is
possible at every step, so it would only repeat the fairness assumed of it.

Fairness. The runs of `GameSessions`, `Settlement`, `LeaderboardProjection` and `ProofVerification` assume none.
`live_board` assumes that the event loop runs its tasks, that the server answers, and that the browser
fires its timers, reads its stream and reconnects; no restart, failure or choice has to happen, and a server
that has begun to shut down is excused (`Behind`). The first connection does not refresh when it opens, so
that what was committed between the first load and the subscription waits for the poll timer; hence `Poll` is
fair. Each event arms the debounce of `scheduleRefresh` anew, so that a stream of events that never pauses would
put it off for good; that the timer fires is justified because scores are bounded. `game_page` assumes that a request is answered or given up (the client aborts it after 10 s) and
that the page goes on; no control is fair.

### Findings

* `overtaken`. `created_at` is the start of the transaction, `latest_session` orders by it, and
  `prediction_card` and `skill_check` accept `cooldown_seconds = 0`. A creation that waited for the
  player lock then commits an active session older than one that is already over; recovery answers
  with the finished one, although it is meant to "recover an interrupted browser operation"
  (`app/services/sessions.py:154`), and the next creation fails on `uq_active_session_player_game`
  with a server error. With a cooldown longer than a transaction can stay open it cannot happen
  (run `fairness`).
* `settlement_late`. `submit_final_score` compares its clock with the end of the week and inserts
  later. A settlement does not wait for it unless it has inserted the first score of the week, so the
  score can be committed after the settlement has read the scores: accepted, on the public board,
  never ranked or rewarded, although "Weekly settlement uses each player's best eligible result"
  (`README.md:46`). What does hold, and is proved, is that a score committed before the week ended
  counts (`TimelyScoresCount`).

* `projection_cleanup`. A rebuild gives a TTL to the generation that the pointer named when it began. Of
  two rebuilds that read the same pointer, the one that publishes first is superseded by the other,
  and no later rebuild looks at its generation, so its keys stay. "The next rebuild can still clean it
  up" (`app/redis_cache/projections.py:29`) does not hold then. Readers are not affected.

* `next_spin`. The wheel keeps `commitmentId` in its journal when a round is over, and recovery writes there
  the proof of the latest session, also of a completed one (`daily-spin.js:202`). After a reload a spin
  creates a session, takes the old `commitmentId` for its own and evaluates the old proof
  (`daily-spin.js:272`). The server answers with the old outcome, as the client seed is kept as well: the
  visitor sees the last result again, the new session has no commitment and stays active. "Browser
  timers and operation journals are not authority" (`app/api/players.py:65`).

`OnlyKnownDeadEnds` names what else a visitor can run into, each in a definition of its own. An error whose message
the page shows (`page.failure = "told"`, `SaysFailed`) is no dead end: it leaves the visitor to load the page again.

* `CountdownFailed`: a countdown starts `recover()` without a `catch` (`daily-spin.js:236`, `prediction-card.js:126`,
  `skill-check.js:152`). If its request fails, the page stays in "recovering" with the message it had, no control and
  no timer, and nothing says that anything failed (`page.failure = "unheard"`).
* `CountdownFailedUnseen`: the same while another function is under way, which leaves the page in "cooldown" without a
  countdown.
* `ExpiredForGood`: a session that expired is what every recovery answers with, so the page returns to
  "expired", which no control leaves, although it says "Try again when the timer ends."
  (`daily-spin.js:215`). An API client can create the next session.
* `ChoiceWithoutSession`: the very first creation on the card is lost, or was not executed; recovery keeps the choice and
  finds no session, so neither a choice nor "resume" is offered.
* `PlayedLocally`: the skill check leaves `session.status` at "active" after a round, so a new one is
  offered only after the countdown or a reload.

Also seen while modelling, without a run: the card and the skill check offer the actions of the previous
round again after a reload during the preview (`skill-check.js:126`); their answer to an uncertain
submission whose recovery fails leaves the digits editable; a score whose week is over
("leaderboard_period_closed") makes each load of the page end in "terminal_error"; a countdown's
recovery that crosses a choice takes it out of the journal (hence `crossed` in `OneAnswer`); and the two
hazards about a change of player.

## 4. Proofs

`GameSessions_proofs` proves for all values of the constants (any number of handlers, players,
games, requests and intents, any cooldown, duration and bounds), from the assumptions `ModeAssumption`,
`TimeAssumption` and `NoneAssumption` of `GameSessions`:

* `TypeCorrect`: `Spec => []TypeOK`;
* `OutcomesAgree`, `ProofsAgree`, `SessionsEndInTime`, `NoStaleDecision`: the properties
  `OutcomeAgreement`, `ProofAgreement`, `EndedInTime` and `DecisionsHold` in every reachable state;
* `OnlyOneKindOfDeadlock` (`DeadlocksOnlyAtExpiry`), which follows from the same invariant: in any other cycle some
  handler would wait for a lock that its own decision excludes.

None of the first four is inductive alone: that a commit keeps the rows in agreement depends on the
decision still being right, and that the decision is still right depends on what the other
handlers' commits leave alone. `IInv` joins them, with the shape of a row (`Shaped`) and the order of
the clocks of a transaction (`ClocksOK`). The argument:

1. `RowKept`, `RowStopped`, `RowCompleted`: a row that is not written, ended or played out keeps its
   agreement.
2. `CommitCreateRows` ... `CommitClaimRows`: so every commit keeps all rows, and changes sessions and
   proofs only where its handler holds the session or none existed (`Frame`).
3. `DecisionsKept`: therefore the decisions of the others survive a commit; `DecisionTaken`,
   `SessionDecision`: a new decision is right because the lock was free and the row was read under it.
4. `CallKeeps`, `WaitKeeps`, `TickKeeps`, `EndKeeps` cover the remaining steps; `Invariance` puts them
   together.

`GameSessionsContract_proofs` proves the rest of the safety properties of `GameSessions`, on top of that `IInv`:

* `NothingUndone` (`Irrevocable`), by how the rows of one session can move in a commit (`SessionMoves`,
  `RowsMove`).
* `CreationsBound` (`RequestBinding`), `AnswersStored` (`AnswersAgree`) and `Refinement` (`ImplementsContract`),
  from the invariant `LockInv`: what each handler has decided is still so (`Decided`), no two hold the same
  request, player or reward (`Exclusive`), and a player has one active session per game (`OneActive`).
  `LocksKept` is the central lemma: one handler moves, with locks that are free for it, and the decisions of
  the others stand. In the refinement a commit is one step of the contract (`CommitImplements`), but that of a
  commitment, and everything else is a stutter; a creation that follows an elapsed session ends it and
  starts the new one in one step, as `Start` of the contract does.
* `ConstraintsNeverReached` (`NoUniqueViolation`), `CooldownKept` (`CooldownRespected`) and `ActiveIsRecovered`
  (`RecoveryFindsActive`), for `LongCooldown`, `Cooldown > TxLimit`. Their invariant `SpacingInv` says that a
  creation that may commit comes a full cooldown after every session of its player and game, and is later
  than all of them. The hypothesis cannot be dropped: the run `overtaken` is the counterexample for a cooldown of
  0, which two games accept (section 3). It holds of what is shipped: the cooldowns of
  `tools/seed.py:42-106` are 30 seconds to a day, and each of the few statements before the insertion waits for
  a lock at most 2 seconds (`app/config.py:92`). The other theorems do not need it.

`Settlement_proofs` proves, from `SessionAssumption`, `ClockAssumption`, `TierAssumption`,
`NullAssumption` and `RunAssumption`, for any number of handlers, sessions, players, weeks and tier versions:
`TypeCorrect`, `NoTimelyScoreIsLost` (`TimelyScoresCount`), `RevisionIsCount` (`RevisionCounts`),
`OncePerSessionAndPeriod` (`SettledOnce`), `AnswersNeverChange` (`SameRecipients`) and `Refinement`
(`ImplementsSettlementContract`). Its `IInv` adds what an open submission knows (its score is not
recorded, no other handler has its session, its revision is the successor of the committed one
because no other handler of the week has passed the revision row) and what an open settlement knows
(its period has no run, is over, and the scores it read include all timely ones: a later commit is
late by the clock). `CommitScoreInv` is the step where the two meet. In the refinement a commit is the
step of the contract and every other step a stutter. `MinNat`, `MaxNat` and `WinnersType` establish that
`Min` and `Max` pick a tier and a version, so that the loop pays scores of the period only.

`RewardsAreByRank` (`RewardsFollowRanks`) has an invariant of its own, `RewardsInv`: a run, and a settlement that is
about to commit, hold exactly the winners of the scores they counted (`Allocated`), and neither those scores nor the
tiers of a period that is over change. That ranks are 1..n without gap or repetition, and follow points, the end of
the session and its number, is `PositionStrict` and `PositionOnto`: `Before` is a strict order, so the positions of
a finite set of scores are an injection into as many numbers, and hence onto.

`LeaderboardProjection_proofs` proves, from `ScoreAssumption`, `AskAssumption`, `BoundAssumption` and
`NullAssumption`, for any number of rebuilds, requests, players, scores, generations and failures:
`TypeCorrect` and `Refinement` (`ImplementsBoard`), from the inductive invariant of `Invariance`. The
argument:

1. Ranking (`PositionType` ... `BestFacts`): the positions of a finite set of scores are a bijection
   with 1..n, so a listing is the set's entries in the order of their ranks, and the first member of a
   player is that of its best score.
2. `PageIsAnswer`, `BestIsAnswer`, `OwnBestIsAnswer`: rows that carry the ranks that were looked for
   and are entries of a set make the page of that set, wherever else the sorted set is damaged.
3. `Snapshots`: for every generation there is one prefix of the board such that all authentic members,
   players and builds of it are entries of this prefix, its metadata have the prefix's length as their
   count, and every request past the metadata counted that length. It needs `OwnGenerations` (a
   generation that is not published has no keys and one builder) and `CountsBehind`.
4. `Frame`: failures, expiry and deletion only take away or garble (`Harmed`), so they keep it.
   `PublishInv` and `AcceptingRead` are the two steps that move data.
5. `RefinesPage`, `RefinesRank`, `RefinesCanonical`: an answer is that of the prefix as long as the
   count, which lies between the request and now.

`CurrentGeneration` (`CurrentKept`) rests on `KeptInv`, which holds as long as nothing fails: only the TTL and
the cleanup of a rebuild delete a generation; a TTL goes to the one that was current when a rebuild began, and that
rebuild has published another since (`SupersededApart`); since generations are named and published once, none becomes
current again, and a rebuild that is still current finds what it wrote (`PublishedKept`). `FreshIsServed`
(`NoNeedlessFallback`) goes through the checks of the reader one by one: a projection of the current board passes
each.

`LiveBoard_proofs` proves, from the assumptions of `LeaderboardEvents` and `LiveBoard`, for any number of
streams, weeks, players, scores, disturbances and any bounds of queue and wire: `TypeCorrect`,
`ShutdownIsHeard` (`ShutdownHeard`), `BoardBelongsToPage` (`BoardIsOfPage`), `NoSignalIsLost`
(`NoLostSignal`) and `BoardNeverGoesBack` (`NeverBackwards`). `IInv` adds to these properties:

1. `StreamsOK`: only subscriptions have queues, none is left after a shutdown, and no reader is owed
   more than was committed;
2. `SourceOK`: the page's source is a stream of the page's week that it has not left;
3. `LoadsOK`: a load that is not stale is of the page's week and player, and counts no less than is
   shown and no more than there is;
4. `PageOK`: what is shown was committed, and a page that is not yet initialized has a player to check.

The lemmas follow the code: what `Offer` keeps of a queue (its last entry, its bound, the absence of a
sentinel), what the start and the end of `load()` do to a page, and one lemma per action. `NoLostSignal`
needs that `Publish` puts an event into the queue of every stream it owes something, `Deliver` moves it
to the wire, `ReadWire` turns it into the debounce timer, `FireTimer` into a load or `pending`, and the end of
the load that was in the way into the timer again.

`GameRules_proofs` proves, from `RangeAssumption`, for a digest space and a number of results of any size, what
`MCProofVerification` evaluates for eight digests: `DrawsAreFair` (`FairDraw`) and `DrawIsAResult`. The limit of
a draw is a multiple of the number of results, so that moving a digest from one result to another stays below it
(`Moved`), and this is a bijection between the digests of any two results.

`ProofVerification_proofs` proves, from `MapAssumption`, `EvidenceBounds`, `DrawAssumption` and `NullAssumption`, for
any seeds, reward maps, digests, times and number of corruptions: `TypeCorrect`, `GenuineEvidenceVerifies`
(`GenuineVerifies`) and `SchemaIsMet` (`SchemaAdmits`); and for at most two corruptions (`MaxChanges <= 2`)
`VerifiedEvidenceIsGenuine` (`VerifiedIsGenuine`). The invariant is that, as long as nothing is corrupted, custody,
commitment, result and events belong together column by column (`Genuine`), across migration 0012 wherever it
falls. After a corruption, `TwoInv` compares what there is with what the services wrote: the commitment as it was published
(`committed`), the proof as it was revealed (`original`), and the two events as they were appended (`g` and `h`). A proof that
differs from either, an event that tells something else (`Agrees`), and a hash that differs count one each, and
there are never more of them than corruptions. With payloads, a verdict of "verified" over other columns needs
three (`TwoVerified`), because a hash binds what it hashes (`SoundAgree`), so that an event that was changed needs its hash
changed as well. Without payloads a change of a proof, a map or the seed shows in the derivation unless it was made to
fit (`DerivationShows`): `Near` counts the columns that are not as they were revealed and where the revealed row did not fit its
seed and map (`Damage`), and `Kept` says that what fits is what was committed, as long as there was one corruption only.
With three corruptions the property is false, as TLC shows with
`MaxChanges = 3`. `MapAssumption` is what the validation of a map and the assertion
at the end of `select_daily_spin_reward` give. `DrawAssumption` is that no draw needs more than `Attempts` digests;
the loop of `derive_daily_spin` has no limit, but each attempt succeeds with a probability above one half.

`GamePage_proofs` proves, from the assumptions of `PlayServer` and `GamePage`, for any number of sessions,
answers and disturbances: `TypeCorrect`, `NoOtherDeadEnds` (`OnlyKnownDeadEnds`), `AnswersAreOne`
(`OneAnswer`) and `ServerKeepsContract`. A function of a page is a chain of calls from one request to the next, so there is one lemma per
operator, from what it is given to what it leaves.

1. `PageInv`: what a thread is at fits its function, its reply and the game (`AtWork`); at most one function
   runs unless some crossed (`OneRuns`); a function that nothing crossed has started the countdown of the
   cooldown it found (`Counts`); and a page at rest shows something that leads on (`Leads`). `Running` says this of
   a client in the middle of a function, `HasRun` of one that waits again.
   The dead ends need `CalmInv` besides: a page that recovers and has had no failure, told or unheard, has a
   function under way that owes it the next status (`Owes`), and "terminal_error" comes with its message. `Calm` follows
   it through the operators, one lemma each (`RecoverSettles`, `ThrowSettles`, ...). The theorem then follows by cases
   over the status.
2. `AnswerInv` is needed for the answers. On the wheel (`SeedInv`), a seed that was drawn stays in the journal, and
   what is on its way carries it (`Drawn`); `Keeps` and `HasKept` follow it through the operators. On the card
   (`ChoiceInv`), as long as a play is live, which means that the server may still execute it, page,
   journal and function agree with its choice (`Follows`, `Agrees`, `Heeds`), and the steps of the server
   only shrink the set of live plays (`Shrinks`).
3. `ServerKeepsContract` ties the pages to `GameSessions`: the services as `PlayServer` has them implement the
   same `SessionContract`, for one player, under every loss, delay and repetition of the page's calls. `Life` is
   the refinement mapping: a session that is due is an active play, one that is completed has its reward, and proofs,
   scores and the cooldown are not seen. It needs that what is played is given: on the wheel and the card that is part
   of `AnswerInv`; in the skill check (`RoundInv`) no function that goes on comes to play (`Waits`), so that
   only a submission, which has its digits, does.

Only model-checked:

* Of `GameRules`, the reward map and the games: they rest on folds and on the longest prefix of two sequences, so
  that a proof is an induction over data.
* The liveness properties `BoardCatchesUp` and `PageSettles`, which are beyond the prover.

## 5. Plan

1. `GameSessions`, `SessionContract`, proofs of the row agreements: done.
2. `Settlement`, `SettlementContract`, proofs of all safety properties: done.
3. `LeaderboardProjection`, `LeaderboardBoard`, proofs of the refinement, of the current generation and of the
   readers: done.
4. `LeaderboardEvents` and `LiveBoard`, proof of the safety properties: done.
5. `PlayServer`, `GamePage`, proofs: done; a second player, and the background recovery of the player store,
   are left.
6. `GameRules`, `ProofVerification`, proofs of the draws, of genuine and of changed evidence and of the schema: done.
7. The contract of `GameSessions`, cooldown and recovery, proofs: done.
8. `PlayServer` as a refinement of `SessionContract`, proof: done.

## 6. Not modelled

The application shell, identity headers, analytics summaries, seeds and simulations keep no state
that the properties are about; migrations run offline, but for what 0012 does to evidence and the trigger
of 0013; templates, styles, dialogs and preferences are presentation. Digest functions are taken as
collision-free. The connection pool's limit is not modelled: a request that gets no connection never
opens a transaction, and one that has a connection needs no other. The microseconds of
`rebuild_leaderboard.py:63` go through floating point, which TLA+ does not have. How uvicorn ends a process
is outside the repository.

Some properties say less than their names may suggest: `TimelyScoresCount` takes `ended_at` as it is, so an end
filed under the wrong week would not violate it; damage in Redis is garbage or loss, so a signed
entry moved to another member's place is not among what `ImplementsBoard` covers; `ShutdownHeard` says that the sentinel
is the last thing a subscriber reads, not that the process reaches the hub's shutdown; and the columns of
`TypeOK` in `ProofVerification` hold a reward of some map, not of the one the proof names.
