---------------------------- MODULE GameSessions ----------------------------
(***************************************************************************)
(* The life of a game session: create_session, retrieve_session,           *)
(* retrieve_player_game_state, cancel_session, play_session,               *)
(* commit_fairness, evaluate_fairness and claim_session_reward of          *)
(* app/services, run concurrently by request handlers against PostgreSQL   *)
(* under READ COMMITTED.                                                   *)
(*                                                                         *)
(* A handler is one transaction.  The model gives it one step per point at *)
(* which it can wait for another transaction (a FOR UPDATE, an advisory    *)
(* lock, the KEY SHARE a foreign key takes on the player row) and one step *)
(* for its commit; what a handler decides, it decides when its lock is     *)
(* granted, from the rows it then reads, and its writes take effect at the *)
(* commit.  Domain errors, crashes, cancelled requests and database        *)
(* timeouts all roll the transaction back.                                 *)
(*                                                                         *)
(* A session is named by the request_id that created it (unique in the     *)
(* table); its proof, outcome and reward are unique per session and are    *)
(* named the same way.                                                     *)
(***************************************************************************)
EXTENDS Integers, Sequences

CONSTANTS
  Workers,    \* request handlers that can be in flight at once
  Players,    \* registered, active players
  Games,      \* active games with a published configuration
  Requests,   \* session request ids (idempotency keys)
  Intents,    \* accepted choices, action lists and client seeds
  Mode,       \* Mode[g]: how game g is played
  Duration,   \* seconds (ticks) from create to expires_at
  Cooldown,   \* cooldown_seconds of the pinned configuration
  TxLimit,    \* bound: ticks a transaction can stay open
  MaxTime,    \* bound: last tick of the clock
  IdOrder,    \* IdOrder[r]: order of the random session ids
  None        \* SQL NULL

Modes == {"fairness", "choice", "skill"}

ASSUME ModeAssumption == Mode \in [Games -> Modes]
ASSUME TimeAssumption ==
  /\ Duration \in Nat \ {0}
  /\ Cooldown \in Nat
  /\ TxLimit \in Nat
  /\ MaxTime \in Nat
ASSUME IdOrderAssumption == IdOrder \in [Requests -> Nat]
ASSUME NoneAssumption == None \notin Intents /\ None \notin Players /\ None \notin Games

VARIABLES
  now,        \* the clock, read by clock() and by the database's now()
  sessions,   \* committed game_sessions rows
  proofs,     \* committed status of fairness_proofs rows
  custody,    \* sessions whose proof has a fairness_seed_custody row
  chain,      \* event types of the proof's append-only event chain
  outcomes,   \* the intent the committed outcome answers
  rewards,    \* committed status of rewards rows
  evidence,   \* analytics_events rows: <<event type, session>>
  tx,         \* the open transaction of each handler
  created,    \* history: creations answered with a session
  answers,    \* history: plays and evaluations answered with an outcome
  broken      \* history: handlers that died on a unique constraint

rows == <<sessions, proofs, custody, chain, outcomes, rewards, evidence>>
history == <<created, answers, broken>>
vars == <<now, rows, tx, history>>

Unset == -1
SessionStatus == {"absent", "active", "completed", "expired", "cancelled"}
ProofStatus == {"absent", "committed", "revealed", "expired", "cancelled"}
RewardStatus == {"absent", "issued", "claimed"}
EventType == {"session_started", "game_played", "reward_issued", "reward_claimed"}

Session == [status: SessionStatus, player: Players \cup {None}, game: Games \cup {None},
            created: Int, expires: Int, ended: Int]

NoSession == [status |-> "absent", player |-> None, game |-> None,
              created |-> Unset, expires |-> Unset, ended |-> Unset]

(***************************************************************************)
(* What an open transaction is doing: the statement it stands at, what it  *)
(* will commit, the arguments of the call, the start of the transaction,   *)
(* the clock() it read and the elapsed sessions it finalizes on the way.   *)
(***************************************************************************)
Step == {"idle", "request", "player", "elapsed", "commit"}
Plan == {"none", "create", "recover", "expire", "cancel", "play", "commitment", "reveal",
         "claim"}

SessionPlan == {"expire", "cancel", "play", "commitment", "reveal"}
EvidencePlan == {"play", "reveal", "claim"}

Transaction == [step: Step, plan: Plan, player: Players \cup {None}, game: Games \cup {None},
                req: Requests \cup {None}, intent: Intents \cup {None},
                start: Int, at: Int, due: SUBSET Requests]

\* The arguments a plan has.
WellFormed(t) ==
  /\ t.plan \in SessionPlan \cup {"create", "claim"} => t.req \in Requests
  /\ t.plan \in {"create", "recover"} => t.player \in Players /\ t.game \in Games
  /\ t.plan \in {"play", "reveal"} => t.intent \in Intents
  /\ t.step = "idle" <=> t.plan = "none"
  /\ t.step \in {"request", "player"} => t.plan = "create"
  /\ t.step = "elapsed" => t.plan \in {"create", "recover"}

NoTx == [step |-> "idle", plan |-> "none", player |-> None, game |-> None, req |-> None,
         intent |-> None, start |-> Unset, at |-> Unset, due |-> {}]

Idle(w) == tx[w].step = "idle"
Finish(w) == tx' = [tx EXCEPT ![w] = NoTx]

------------------------------------------------------------------------------
(***************************************************************************)
(* Locks.  A handler holds exactly what its statement so far has locked;   *)
(* all of it is released by commit or rollback.                            *)
(***************************************************************************)
HoldsRequest(w, r) ==
  tx[w].plan = "create" /\ tx[w].step \in {"player", "elapsed", "commit"} /\ tx[w].req = r

HoldsPlayer(w, p) ==
  tx[w].plan \in {"create", "recover"} /\ tx[w].step \in {"elapsed", "commit"} /\ tx[w].player = p

HoldsSession(w, r) ==
  /\ tx[w].step = "commit"
  /\ \/ tx[w].plan \in SessionPlan /\ tx[w].req = r
     \/ r \in tx[w].due

HoldsReward(w, r) == tx[w].step = "commit" /\ tx[w].plan = "claim" /\ tx[w].req = r

\* The advisory lock dropped: two creations of one request_id run side by side.
RequestFree_Unlocked(w, r) == TRUE

RequestFree(w, r) == \A v \in Workers \ {w} : ~HoldsRequest(v, r)

\* lock_player without FOR UPDATE.
PlayerFree_Unlocked(w, p) == TRUE

PlayerFree(w, p) == \A v \in Workers \ {w} : ~HoldsPlayer(v, p)

\* lock_session without FOR UPDATE.
SessionFree_Unlocked(w, r) == TRUE

SessionFree(w, r) == \A v \in Workers \ {w} : ~HoldsSession(v, r)

\* lock_reward_by_session without FOR UPDATE.
RewardFree_Unlocked(w, r) == TRUE

RewardFree(w, r) == \A v \in Workers \ {w} : ~HoldsReward(v, r)

\* finalize_expired_session writes an analytics event of its own.
InsertsEvent_AtExpiry(w) == tx[w].plan \in EvidencePlan \cup {"expire"}

\* The plans that insert an analytics event without lock_player: it references the
\* player row and takes KEY SHARE on it, which lock_player's FOR UPDATE excludes.
InsertsEvent(w) == tx[w].plan \in EvidencePlan

KeyShareFree(w) == InsertsEvent(w) => PlayerFree(w, sessions[tx[w].req].player)

------------------------------------------------------------------------------
(***************************************************************************)
(* Reading the rows.                                                       *)
(***************************************************************************)
Active(r) == sessions[r].status = "active"

\* Strictly after expires_at only.
Elapsed_Late(r, t) == Active(r) /\ sessions[r].expires < t

\* expire_if_due.
Elapsed(r, t) == Active(r) /\ sessions[r].expires <= t

Of(p, g) == {r \in Requests : sessions[r].player = p /\ sessions[r].game = g}

\* The order of latest_session: created_at, then id.
Newer(r, q) ==
  \/ sessions[r].created > sessions[q].created
  \/ sessions[r].created = sessions[q].created /\ IdOrder[r] > IdOrder[q]

\* What lock_expired_active_sessions selects.
Due(w) == {r \in Of(tx[w].player, tx[w].game) : Elapsed(r, tx[w].at)}

IsLatest(r, S) == r \in S /\ \A q \in S : ~Newer(q, r)

\* Only sessions that were played out count against the cooldown.
CoolingDown_CompletedOnly(r, t) ==
  sessions[r].status = "completed" /\ sessions[r].created + Cooldown > t

CoolingDown(r, t) == sessions[r].created + Cooldown > t

------------------------------------------------------------------------------
(***************************************************************************)
(* Opening a transaction.                                                  *)
(***************************************************************************)
\* create_session begins; the row's created_at default, now(), is this instant,
\* whatever the handler waits for afterwards.
BeginCreate(w, p, g, r) ==
  /\ Idle(w)
  /\ tx' = [tx EXCEPT ![w] = [NoTx EXCEPT !.step = "request", !.plan = "create",
                              !.player = p, !.game = g, !.req = r, !.start = now]]
  /\ UNCHANGED <<now, rows, history>>

\* pg_advisory_xact_lock(request_id) is granted.
LockRequest(w) ==
  /\ tx[w].step = "request"
  /\ RequestFree(w, tx[w].req)
  /\ tx' = [tx EXCEPT ![w].step = "player"]
  /\ UNCHANGED <<now, rows, history>>

\* A stored key is answered with its session only for the same player and game.
SameCreation_AnyCaller(r, p, g) == TRUE

SameCreation(r, p, g) == sessions[r].player = p /\ sessions[r].game = g

\* lock_player is granted to create_session, which looks its request_id up: a
\* replay answers with the stored session (commit), a different fingerprint is an
\* IdempotencyConflictError (rollback); otherwise the clock is read.
LockPlayer(w) ==
  LET r == tx[w].req  p == tx[w].player  g == tx[w].game IN
  /\ tx[w].step = "player"
  /\ PlayerFree(w, p)
  /\ \/ /\ sessions[r] = NoSession
        /\ tx' = [tx EXCEPT ![w].step = "elapsed", ![w].at = now]
        /\ UNCHANGED created
     \/ /\ sessions[r] # NoSession
        /\ Finish(w)
        /\ created' = IF SameCreation(r, p, g) THEN created \cup {<<r, p, g>>} ELSE created
  /\ UNCHANGED <<now, rows, answers, broken>>

\* retrieve_player_game_state begins and is granted lock_player.
RecoverState(w, p, g) ==
  /\ Idle(w)
  /\ PlayerFree(w, p)
  /\ tx' = [tx EXCEPT ![w] = [NoTx EXCEPT !.step = "elapsed", !.plan = "recover",
                              !.player = p, !.game = g, !.start = now, !.at = now]]
  /\ UNCHANGED <<now, rows, history>>

\* lock_expired_active_sessions is granted.  Creation is refused while the latest
\* session is active (ActiveSessionError) or cooling down (CooldownError), which
\* rolls the finalizations of this transaction back too; recovery commits only
\* when it has finalized something.
LockElapsed(w) ==
  LET t == tx[w].at
      mine == Of(tx[w].player, tx[w].game)
      due == Due(w)
      refused == \E r \in mine : /\ IsLatest(r, mine)
                                 /\ (Active(r) /\ r \notin due) \/ CoolingDown(r, t)
      proceeds == IF tx[w].plan = "create" THEN ~refused ELSE due # {}
  IN
  /\ tx[w].step = "elapsed"
  /\ \A r \in due : SessionFree(w, r)
  /\ IF proceeds THEN tx' = [tx EXCEPT ![w].step = "commit", ![w].due = due] ELSE Finish(w)
  /\ UNCHANGED <<now, rows, history>>

\* A handler that works on one session is granted lock_session and decides.
Decide(w, r, plan, intent) ==
  /\ Idle(w)
  /\ SessionFree(w, r)
  /\ tx' = [tx EXCEPT ![w] = [NoTx EXCEPT !.step = "commit", !.plan = plan, !.req = r,
                              !.intent = intent, !.start = now, !.at = now]]
  /\ UNCHANGED <<now, rows, history>>

\* finalize_expired_session, the first thing retrieve_session, cancel_session,
\* play_session, commit_fairness and evaluate_fairness do with a locked session.
DecideExpire(w, r) ==
  /\ Elapsed(r, now) \/ (sessions[r].status = "expired" /\ proofs[r] = "committed")
  /\ Decide(w, r, "expire", None)

\* cancel_session, past finalize_expired_session.
DecideCancel(w, r) ==
  /\ Active(r) /\ ~Elapsed(r, now)
  /\ Decide(w, r, "cancel", None)

\* play_session, for a valid intent.
DecidePlay(w, r, i) ==
  /\ Active(r) /\ ~Elapsed(r, now)
  /\ Mode[sessions[r].game] # "fairness"
  /\ Decide(w, r, "play", i)

\* commit_fairness; a second call returns the stored proof and writes nothing.
DecideCommitment(w, r) ==
  /\ Active(r) /\ ~Elapsed(r, now)
  /\ Mode[sessions[r].game] = "fairness"
  /\ proofs[r] = "absent"
  /\ Decide(w, r, "commitment", None)

\* evaluate_fairness on a committed proof.
DecideReveal(w, r, i) ==
  /\ Active(r) /\ ~Elapsed(r, now)
  /\ proofs[r] = "committed"
  /\ r \in custody
  /\ Decide(w, r, "reveal", i)

\* claim_session_reward is granted the reward row; a claimed reward is returned as
\* it is.
DecideClaim(w, r) ==
  /\ Idle(w)
  /\ RewardFree(w, r)
  /\ rewards[r] = "issued"
  /\ tx' = [tx EXCEPT ![w] = [NoTx EXCEPT !.step = "commit", !.plan = "claim", !.req = r,
                              !.start = now, !.at = now]]
  /\ UNCHANGED <<now, rows, history>>

\* A retry answered whatever intent it carries.
RetryMatches_Any(r, i) == outcomes[r] # None

\* DirectPlayRules.retry_matches and the evaluation fingerprint.
RetryMatches(r, i) == outcomes[r] = i

\* A completed choice game or a revealed proof answers the same intent again;
\* another intent is an IdempotencyConflictError.  skill_check declines retries.
ReplayOutcome(w, r, i) ==
  /\ Idle(w)
  /\ SessionFree(w, r)
  /\ \/ sessions[r].status = "completed" /\ Mode[sessions[r].game] = "choice"
     \/ proofs[r] = "revealed" /\ RewardFree(w, r)
  /\ RetryMatches(r, i)
  /\ answers' = answers \cup {<<r, i>>}
  /\ UNCHANGED <<now, rows, tx, created, broken>>

------------------------------------------------------------------------------
(***************************************************************************)
(* The writes of a transaction and its commit.                             *)
(***************************************************************************)
\* The proof's status moves on but its seed stays in custody.
EndProofs_KeepSeed(S, status) ==
  LET ending == {r \in S : proofs[r] = "committed"} IN
  /\ proofs' = [r \in Requests |-> IF r \in ending THEN status ELSE proofs[r]]
  /\ chain' = [r \in Requests |-> IF r \in ending THEN Append(chain[r], status) ELSE chain[r]]
  /\ UNCHANGED custody

\* end_committed_fairness_proof for the proofs of the sessions in S.
EndProofs(S, status) ==
  LET ending == {r \in S : proofs[r] = "committed"} IN
  /\ proofs' = [r \in Requests |-> IF r \in ending THEN status ELSE proofs[r]]
  /\ chain' = [r \in Requests |-> IF r \in ending THEN Append(chain[r], status) ELSE chain[r]]
  /\ custody' = custody \ ending

End(r, status, t) == [sessions[r] EXCEPT !.status = status, !.ended = t]

\* The deadline's name written for the status's.
Expire_BadStatus(S, t) ==
  [r \in Requests |-> IF r \in S THEN End(r, "elapsed", t) ELSE sessions[r]]

\* The rows of finalize_expired_session for the sessions in S.
Expire(S, t) ==
  [r \in Requests |-> IF r \in S /\ sessions[r].status # "expired"
                        THEN End(r, "expired", t) ELSE sessions[r]]

\* What a unique constraint refuses at the flush: uq_session_request,
\* uq_active_session_player_game, uq_outcomes_session, uq_fairness_proof_session,
\* uq_fairness_proof_event_sequence and the analytics event_key.
UniqueConflict(w) ==
  LET r == tx[w].req IN
  CASE tx[w].plan = "create" ->
         \/ sessions[r] # NoSession
         \/ \E q \in Of(tx[w].player, tx[w].game) \ tx[w].due : Active(q)
    [] tx[w].plan = "play" -> outcomes[r] # None
    [] tx[w].plan = "commitment" -> proofs[r] # "absent"
    [] tx[w].plan = "reveal" -> outcomes[r] # None \/ Len(chain[r]) # 1
    [] tx[w].plan = "claim" -> <<"reward_claimed", r>> \in evidence
    [] OTHER -> FALSE

Commit(w, plan) ==
  /\ tx[w].step = "commit" /\ tx[w].plan = plan
  /\ KeyShareFree(w)
  /\ ~UniqueConflict(w)
  /\ Finish(w)
  /\ UNCHANGED <<now, broken>>

\* create_session commits: the elapsed sessions are finalized and the new session
\* inserted in one transaction.
CommitCreate(w) ==
  LET r == tx[w].req  t == tx[w].at IN
  /\ Commit(w, "create")
  /\ sessions' = [Expire(tx[w].due, t) EXCEPT ![r] =
       [status |-> "active", player |-> tx[w].player, game |-> tx[w].game,
        created |-> tx[w].start, expires |-> t + Duration, ended |-> Unset]]
  /\ EndProofs(tx[w].due, "expired")
  /\ evidence' = evidence \cup {<<"session_started", r>>}
  /\ created' = created \cup {<<r, tx[w].player, tx[w].game>>}
  /\ UNCHANGED <<outcomes, rewards, answers>>

\* retrieve_player_game_state commits what it finalized.
CommitRecover(w) ==
  /\ Commit(w, "recover")
  /\ sessions' = Expire(tx[w].due, tx[w].at)
  /\ EndProofs(tx[w].due, "expired")
  /\ UNCHANGED <<outcomes, rewards, evidence, created, answers>>

\* A handler that found its session elapsed commits the finalization and answers
\* with the session or with SessionExpiredError.
CommitExpire(w) ==
  /\ Commit(w, "expire")
  /\ sessions' = Expire({tx[w].req}, tx[w].at)
  /\ EndProofs({tx[w].req}, "expired")
  /\ UNCHANGED <<outcomes, rewards, evidence, created, answers>>

\* cancel_session commits without its proof.
CommitCancel_ProofLeft(w) ==
  /\ Commit(w, "cancel")
  /\ sessions' = [sessions EXCEPT ![tx[w].req] = End(tx[w].req, "cancelled", tx[w].at)]
  /\ UNCHANGED <<proofs, custody, chain, outcomes, rewards, evidence, created, answers>>

\* cancel_session commits.
CommitCancel(w) ==
  LET r == tx[w].req IN
  /\ Commit(w, "cancel")
  /\ sessions' = [sessions EXCEPT ![r] = End(r, "cancelled", tx[w].at)]
  /\ EndProofs({r}, "cancelled")
  /\ UNCHANGED <<outcomes, rewards, evidence, created, answers>>

\* The outcome, its one reward, the end of the session and the evidence of both,
\* which play_session and evaluate_fairness write alike.
Complete(w) ==
  LET r == tx[w].req IN
  /\ sessions' = [sessions EXCEPT ![r] = End(r, "completed", tx[w].at)]
  /\ outcomes' = [outcomes EXCEPT ![r] = tx[w].intent]
  /\ rewards' = [rewards EXCEPT ![r] = "issued"]
  /\ evidence' = evidence \cup {<<"game_played", r>>, <<"reward_issued", r>>}
  /\ answers' = answers \cup {<<r, tx[w].intent>>}
  /\ UNCHANGED created

\* play_session commits.
CommitPlay(w) ==
  /\ Commit(w, "play")
  /\ Complete(w)
  /\ UNCHANGED <<proofs, custody, chain>>

\* commit_fairness commits the proof, its seed and the first event of its chain.
CommitCommitment(w) ==
  LET r == tx[w].req IN
  /\ Commit(w, "commitment")
  /\ proofs' = [proofs EXCEPT ![r] = "committed"]
  /\ custody' = custody \cup {r}
  /\ chain' = [chain EXCEPT ![r] = Append(@, "committed")]
  /\ UNCHANGED <<sessions, outcomes, rewards, evidence, created, answers>>

\* evaluate_fairness commits: the revealed proof, with its event at sequence 1,
\* and the completed session.  The seed stays in custody.
CommitReveal(w) ==
  LET r == tx[w].req IN
  /\ Commit(w, "reveal")
  /\ proofs' = [proofs EXCEPT ![r] = "revealed"]
  /\ chain' = [chain EXCEPT ![r] = Append(@, "revealed")]
  /\ Complete(w)
  /\ UNCHANGED custody

\* claim_session_reward commits.
CommitClaim(w) ==
  LET r == tx[w].req IN
  /\ Commit(w, "claim")
  /\ rewards' = [rewards EXCEPT ![r] = "claimed"]
  /\ evidence' = evidence \cup {<<"reward_claimed", r>>}
  /\ UNCHANGED <<sessions, proofs, custody, chain, outcomes, created, answers>>

\* The flush raises IntegrityError: no service catches it, so the call ends in a
\* server error and a rollback.
UniqueViolation(w) ==
  /\ tx[w].step = "commit"
  /\ KeyShareFree(w)
  /\ UniqueConflict(w)
  /\ Finish(w)
  /\ broken' = broken \cup {tx[w].plan}
  /\ UNCHANGED <<now, rows, created, answers>>

\* get_session rolls back: a lock_timeout or statement_timeout, the deadlock
\* detector, a disconnected client, a crash of the process, or any domain error
\* that depends on what is not modelled (an inactive player, an invalid intent).
Rollback(w) ==
  /\ ~Idle(w)
  /\ Finish(w)
  /\ UNCHANGED <<now, rows, history>>

\* Time passes; no transaction stays open longer than TxLimit.
Tick ==
  /\ now < MaxTime
  /\ \A w \in Workers : Idle(w) \/ now - tx[w].start < TxLimit
  /\ now' = now + 1
  /\ UNCHANGED <<rows, tx, history>>

------------------------------------------------------------------------------
Init ==
  /\ now = 0
  /\ sessions = [r \in Requests |-> NoSession]
  /\ proofs = [r \in Requests |-> "absent"]
  /\ custody = {}
  /\ chain = [r \in Requests |-> <<>>]
  /\ outcomes = [r \in Requests |-> None]
  /\ rewards = [r \in Requests |-> "absent"]
  /\ evidence = {}
  /\ tx = [w \in Workers |-> NoTx]
  /\ created = {}
  /\ answers = {}
  /\ broken = {}

\* The steps of a transaction that is already open.
Progress(w) ==
  \/ LockRequest(w) \/ LockPlayer(w) \/ LockElapsed(w)
  \/ CommitCreate(w) \/ CommitRecover(w) \/ CommitExpire(w) \/ CommitCancel(w)
  \/ CommitPlay(w) \/ CommitCommitment(w) \/ CommitReveal(w) \/ CommitClaim(w)
  \/ UniqueViolation(w)

Call(w) ==
  \/ \E p \in Players, g \in Games :
       RecoverState(w, p, g) \/ \E r \in Requests : BeginCreate(w, p, g, r)
  \/ \E r \in Requests :
       \/ DecideExpire(w, r) \/ DecideCancel(w, r) \/ DecideCommitment(w, r) \/ DecideClaim(w, r)
       \/ \E i \in Intents : DecidePlay(w, r, i) \/ DecideReveal(w, r, i) \/ ReplayOutcome(w, r, i)

Next == Tick \/ \E w \in Workers : Call(w) \/ Progress(w) \/ Rollback(w)

Spec == Init /\ [][Next]_vars

------------------------------------------------------------------------------
(***************************************************************************)
(* Properties.                                                             *)
(***************************************************************************)
\* Every variable holds a value of its kind.
TypeOK ==
  /\ now \in 0..MaxTime
  /\ sessions \in [Requests -> Session]
  /\ proofs \in [Requests -> ProofStatus]
  /\ custody \subseteq Requests
  /\ chain \in [Requests -> Seq(ProofStatus)]
  /\ outcomes \in [Requests -> Intents \cup {None}]
  /\ rewards \in [Requests -> RewardStatus]
  /\ evidence \subseteq EventType \X Requests
  /\ tx \in [Workers -> Transaction] /\ \A w \in Workers : WellFormed(tx[w])
  /\ created \subseteq Requests \X Players \X Games
  /\ answers \subseteq Requests \X Intents
  /\ broken \subseteq Plan

Fair(r) == sessions[r].game # None /\ Mode[sessions[r].game] = "fairness"

\* Outcome, reward, revealed proof, completed session and the append-only evidence
\* of one play exist together or not at all, whatever play, evaluate, cancel, claim
\* and expiry do at the same time.
PlayAgrees(r) ==
  LET played == outcomes[r] # None IN
  /\ played <=> sessions[r].status = "completed"
  /\ played <=> rewards[r] # "absent"
  /\ proofs[r] = "revealed" <=> played /\ Fair(r)
  /\ <<"session_started", r>> \in evidence <=> sessions[r] # NoSession
  /\ {<<"game_played", r>>, <<"reward_issued", r>>} \subseteq evidence <=> played
  /\ <<"reward_claimed", r>> \in evidence <=> rewards[r] = "claimed"

OutcomeAgreement == \A r \in Requests : PlayAgrees(r)

\* A proof ends with its session and in the same way: none stays committed (and
\* still able to be revealed) once its session is over, the seed of an unrevealed
\* proof does not survive it, and the event chain tells the whole story once.
ProofAgrees(r) ==
  /\ proofs[r] = "committed" => Active(r) /\ Fair(r)
  /\ proofs[r] \in {"expired", "cancelled"} => sessions[r].status = proofs[r]
  /\ r \in custody <=> proofs[r] \in {"committed", "revealed"}
  /\ chain[r] = CASE proofs[r] = "absent" -> <<>>
                  [] proofs[r] = "committed" -> <<"committed">>
                  [] OTHER -> <<"committed", proofs[r]>>

ProofAgreement == \A r \in Requests : ProofAgrees(r)

\* A session is played or cancelled strictly before expires_at and expired from
\* expires_at on, even if the transaction commits later.
EndsInTime(r) ==
  LET s == sessions[r] IN
  /\ s.status \in {"completed", "cancelled"} => s.created <= s.ended /\ s.ended < s.expires
  /\ s.status = "expired" => s.ended >= s.expires

EndedInTime == \A r \in Requests : EndsInTime(r)

\* What a handler decided when its lock was granted still holds when it commits.
StillHolds(w) ==
  LET r == tx[w].req  t == tx[w].at  plan == tx[w].plan IN
  /\ plan \in SessionPlan => Active(r) /\ sessions[r].created <= t
  /\ plan \in SessionPlan \ {"expire"} => t < sessions[r].expires
  /\ plan = "expire" => sessions[r].expires <= t
  /\ plan \in {"play", "commitment"} => (plan = "commitment" <=> Fair(r))
  /\ plan = "commitment" => proofs[r] = "absent"
  /\ plan = "reveal" => proofs[r] = "committed"
  /\ plan = "claim" => rewards[r] # "absent"
  /\ \A q \in tx[w].due : Active(q) /\ sessions[q].expires <= t

\* No handler acts on a stale decision, and no two hold one session.
DecisionsHold ==
  /\ \A w \in Workers : tx[w].step = "commit" => StillHolds(w)
  /\ \A v, w \in Workers, r \in Requests :
       v # w => ~(HoldsSession(v, r) /\ HoldsSession(w, r))

\* A creation is answered only with a session of the player and game it asked for,
\* also when players race on one request id and when a lost answer is retried.
RequestBinding ==
  \A c \in created : sessions[c[1]].player = c[2] /\ sessions[c[1]].game = c[3]

\* Every answered play or evaluation was answered with the one outcome stored for
\* its own intent.
AnswersAgree ==
  \A a \in answers : outcomes[a[1]] = a[2]

\* The locks the services take make the unique constraints a second line of defence:
\* no call ever dies on one.
NoUniqueViolation == broken = {}

BeganAt(r) == sessions[r].expires - Duration

\* Of two sessions of one player and game, one began a full cooldown after the
\* other was created, however the creations, plays and cancellations interleave.
CooldownRespected ==
  \A p \in Players, g \in Games : \A r, q \in Of(p, g) :
    \/ r = q
    \/ BeganAt(r) >= sessions[q].created + Cooldown
    \/ BeganAt(q) >= sessions[r].created + Cooldown

\* retrieve_player_game_state shows the latest session: no active one is hidden
\* behind a session of the same player and game that was created later and is over.
RecoveryFindsActive ==
  \A p \in Players, g \in Games : \A r, q \in Of(p, g) :
    Active(r) => sessions[q].created <= sessions[r].created

\* w stands at a statement that is not granted while v keeps what it has locked.
WaitsFor(w, v) ==
  /\ v # w
  /\ \/ tx[w].step = "request" /\ HoldsRequest(v, tx[w].req)
     \/ tx[w].step = "player" /\ HoldsPlayer(v, tx[w].player)
     \/ tx[w].step = "elapsed" /\ \E r \in Due(w) : HoldsSession(v, r)
     \/ /\ tx[w].step = "commit" /\ InsertsEvent(w)
        /\ HoldsPlayer(v, sessions[tx[w].req].player)

\* Handlers each of which waits for one of them.
Deadlocked(S) == S # {} /\ \A w \in S : \E v \in S : WaitsFor(w, v)

\* v plays or evaluates a session it found open just before expires_at; w, a creation
\* or recovery that holds the player, finds that session elapsed.
MeetAtExpiry(v, w) ==
  LET r == tx[v].req IN
  /\ tx[v].step = "commit" /\ tx[v].plan \in {"play", "reveal"}
  /\ tx[w].step = "elapsed" /\ r \in Due(w)
  /\ tx[v].at < sessions[r].expires /\ sessions[r].expires <= tx[w].at

\* The services lock in different orders (session then player in play_session and
\* evaluate_fairness, player then session in create_session and recovery, reward then
\* player in a claim, request id then player in a creation), yet handlers deadlock in
\* one way only: a play or an evaluation that straddles expires_at against a creation
\* or a recovery.  Anywhere else every wait ends without lock_timeout.
DeadlocksOnlyAtExpiry ==
  \A S \in SUBSET Workers : Deadlocked(S) => \E v, w \in S : MeetAtExpiry(v, w)

RowIrrevocable(r) ==
  /\ sessions[r] # NoSession /\ ~Active(r) => sessions'[r] = sessions[r]
  /\ Active(r) => sessions'[r] = [sessions[r] EXCEPT !.status = sessions'[r].status,
                                                    !.ended = sessions'[r].ended]
  /\ outcomes[r] # None => outcomes'[r] = outcomes[r]
  /\ proofs[r] \in {"revealed", "expired", "cancelled"} => proofs'[r] = proofs[r]
  /\ rewards[r] = "claimed" => rewards'[r] = "claimed"

\* What a step never undoes: the end of a session, the binding of a session to its
\* player, game and times, an outcome, the end of a proof, a claim, evidence.
Irrevocable ==
  [][(\A r \in Requests : RowIrrevocable(r)) /\ evidence \subseteq evidence']_vars

Contract == INSTANCE SessionContract WITH
  life <- [r \in Requests |->
    [state |-> sessions[r].status, player |-> sessions[r].player, game |-> sessions[r].game,
     answer |-> outcomes[r], reward |-> rewards[r]]]

\* The concurrent transactions implement the atomic life cycle of SessionContract:
\* every commit is one of its steps and everything else is invisible.
ImplementsContract == Contract!Spec

==============================================================================
