--------------------- MODULE GameSessionsContract_proofs ---------------------
(***************************************************************************)
(* What the committed rows of GameSessions add up to, for all values of    *)
(* its constants: nothing that is over is undone, the transactions         *)
(* implement the atomic life cycle of SessionContract, and creations that  *)
(* are shorter than the cooldown keep their distance and find the latest   *)
(* session.                                                                *)
(***************************************************************************)
EXTENDS GameSessions_proofs, WellFoundedInduction

(***************************************************************************)
(* How the rows of one session move when a handler commits.                *)
(***************************************************************************)
Ends(q) ==
  /\ Active(q)
  /\ \E st \in {"expired", "cancelled", "completed"}, t \in Int : sessions'[q] = End(q, st, t)

Starts(w, q) ==
  /\ CommitCreate(w)
  /\ q = tx[w].req
  /\ sessions[q] = NoSession
  /\ sessions'[q] = [status |-> "active", player |-> tx[w].player, game |-> tx[w].game,
                     created |-> tx[w].start, expires |-> tx[w].at + Duration, ended |-> Unset]

SessionMoves(w, q) == sessions'[q] = sessions[q] \/ Ends(q) \/ Starts(w, q)

RowsMove(w, q) ==
  /\ outcomes[q] # None => outcomes'[q] = outcomes[q]
  /\ proofs[q] \in {"revealed", "expired", "cancelled"} => proofs'[q] = proofs[q]
  /\ rewards[q] = "claimed" => rewards'[q] = "claimed"
  /\ rewards[q] = "issued" => rewards'[q] = "issued" \/ HoldsReward(w, q)

LEMMA EndProofsMoves ==
  ASSUME IInv, NEW S, NEW st, EndProofs(S, st), NEW q \in Requests
  PROVE  proofs[q] \in {"revealed", "expired", "cancelled"} => proofs'[q] = proofs[q]
  BY EndProofsAt DEF IInv

\* An active session has no outcome, no reward and no revealed proof yet.
LEMMA ActiveIsOpen ==
  ASSUME IInv, NEW q \in Requests, Active(q)
  PROVE  /\ outcomes[q] = None /\ rewards[q] = "absent"
         /\ proofs[q] \in {"absent", "committed"}
         /\ sessions[q] # NoSession
  <1>1. sessions[q].status = "active" /\ sessions[q] # NoSession
    BY DEF Active, NoSession
  <1>2. outcomes[q] = None /\ rewards[q] = "absent" /\ proofs[q] # "revealed"
    BY <1>1 DEF IInv, RowOK, PlayAgrees
  <1>3. proofs[q] \notin {"expired", "cancelled"}
    BY <1>1 DEF IInv, RowOK, ProofAgrees
  <1> QED
    BY <1>1, <1>2, <1>3 DEF IInv, TypeOK, ProofStatus

\* The sessions a commit finalizes on its way.
LEMMA ExpireMoves ==
  ASSUME IInv, NEW S \in SUBSET Requests, NEW t \in Int, \A q \in S : Active(q),
         NEW q \in Requests, sessions'[q] = Expire(S, t)[q]
  PROVE  sessions'[q] = sessions[q] \/ Ends(q)
  <1>1. CASE q \in S
    BY <1>1 DEF Expire, Active, Ends
  <1>2. CASE q \notin S
    BY <1>2 DEF Expire
  <1> QED
    BY <1>1, <1>2

LEMMA CommitMoves ==
  ASSUME IInv, NEW w \in Workers, Commits(w), NEW q \in Requests
  PROVE  SessionMoves(w, q) /\ RowsMove(w, q)
  <1> DEFINE r == tx[w].req
             t == tx[w].at
  <1>0. \A plan \in SessionPlan \cup {"create", "recover", "claim"} : plan \in Plan
    BY DEF SessionPlan, Plan
  <1>1. CASE CommitCreate(w)
    <2>1. Commit(w, "create") /\ "create" \in Plan
      BY <1>0, <1>1 DEF CommitCreate
    <2>2. /\ r \in Requests /\ t \in Int /\ tx[w].due \in SUBSET Requests
          /\ \A x \in tx[w].due : Active(x)
          /\ ~UniqueConflict(w) /\ tx[w].plan = "create"
      BY <2>1, CommitFacts DEF WellFormed
    <2>3. sessions[r] = NoSession
      BY <2>2 DEF UniqueConflict
    <2>4. SessionMoves(w, q)
      <3>1. CASE q = r
        BY <1>1, <2>2, <2>3, <3>1 DEF CommitCreate, Expire, Starts, SessionMoves
      <3>2. CASE q # r
        <4>1. sessions'[q] = Expire(tx[w].due, t)[q]
          BY <1>1, <3>2 DEF CommitCreate, Expire
        <4> QED
          BY <2>2, <4>1, ExpireMoves DEF SessionMoves
      <3> QED
        BY <3>1, <3>2
    <2> QED
      BY <1>1, <2>4, EndProofsMoves DEF CommitCreate, RowsMove
  <1>2. CASE CommitRecover(w) \/ CommitExpire(w)
    <2> DEFINE S == IF CommitRecover(w) THEN tx[w].due ELSE {r}
    <2>1. /\ S \in SUBSET Requests /\ t \in Int /\ \A x \in S : Active(x)
          /\ sessions' = Expire(S, t) /\ EndProofs(S, "expired")
          /\ UNCHANGED <<outcomes, rewards, evidence>>
      <3>1. CASE CommitRecover(w)
        <4>1. Commit(w, "recover") /\ "recover" \in Plan
          BY <1>0, <3>1 DEF CommitRecover
        <4> QED
          BY <3>1, <4>1, CommitFacts DEF CommitRecover
      <3>2. CASE CommitExpire(w) /\ ~CommitRecover(w)
        <4>1. Commit(w, "expire") /\ "expire" \in Plan /\ "expire" \in SessionPlan
          BY <1>0, <3>2 DEF CommitExpire, SessionPlan
        <4> QED
          BY <3>2, <4>1, CommitFacts DEF CommitExpire, StillHolds, WellFormed
      <3> QED
        BY <1>2, <3>1, <3>2
    <2> HIDE DEF S
    <2> QED
      BY <2>1, ExpireMoves, EndProofsMoves DEF SessionMoves, RowsMove
  <1>3. CASE CommitCancel(w)
    <2>1. Commit(w, "cancel") /\ "cancel" \in Plan /\ "cancel" \in SessionPlan
      BY <1>0, <1>3 DEF CommitCancel, SessionPlan
    <2>2. r \in Requests /\ t \in Int /\ Active(r)
      BY <2>1, CommitFacts DEF StillHolds, WellFormed
    <2>3. SessionMoves(w, q)
      BY <1>3, <2>2 DEF CommitCancel, SessionMoves, Ends, IInv, TypeOK
    <2> QED
      BY <1>3, <2>3, EndProofsMoves DEF CommitCancel, RowsMove
  <1>4. CASE CommitPlay(w) \/ CommitReveal(w)
    <2>1. PICK plan \in {"play", "reveal"} : Commit(w, plan) /\ Complete(w)
      BY <1>4 DEF CommitPlay, CommitReveal
    <2>2. plan \in Plan /\ plan \in SessionPlan
      BY DEF Plan, SessionPlan
    <2>3. r \in Requests /\ t \in Int /\ Active(r)
      BY <2>1, <2>2, CommitFacts DEF StillHolds, WellFormed
    <2>4. SessionMoves(w, q)
      BY <2>1, <2>3 DEF Complete, SessionMoves, Ends, IInv, TypeOK
    <2>5. outcomes[r] = None /\ rewards[r] = "absent" /\ proofs[r] \in {"absent", "committed"}
      BY <2>3, ActiveIsOpen
    <2>6. q # r => outcomes'[q] = outcomes[q] /\ rewards'[q] = rewards[q]
      BY <2>1, <2>3 DEF Complete, IInv, TypeOK
    <2>7. q # r => proofs'[q] = proofs[q]
      BY <1>4, <2>3 DEF CommitPlay, CommitReveal, IInv, TypeOK
    <2> QED
      BY <2>4, <2>5, <2>6, <2>7 DEF RowsMove
  <1>5. CASE CommitCommitment(w)
    <2>1. Commit(w, "commitment") /\ "commitment" \in Plan
      BY <1>0, <1>5 DEF CommitCommitment, SessionPlan
    <2>2. r \in Requests /\ proofs[r] = "absent"
      BY <2>1, CommitFacts DEF StillHolds, WellFormed, SessionPlan
    <2> QED
      BY <1>5, <2>2 DEF CommitCommitment, SessionMoves, RowsMove, IInv, TypeOK
  <1>6. CASE CommitClaim(w)
    <2>1. Commit(w, "claim") /\ "claim" \in Plan
      BY <1>0, <1>6 DEF CommitClaim
    <2>2. r \in Requests /\ HoldsReward(w, r)
      BY <2>1, CommitFacts DEF WellFormed, HoldsReward
    <2> QED
      BY <1>6, <2>2 DEF CommitClaim, SessionMoves, RowsMove, IInv, TypeOK
  <1> QED
    BY <1>1, <1>2, <1>3, <1>4, <1>5, <1>6 DEF Commits

------------------------------------------------------------------------------
(***************************************************************************)
(* One step of the system, seen from the rows.                             *)
(***************************************************************************)
LEMMA StepMoves ==
  ASSUME IInv, [Next]_vars
  PROVE  \/ \E w \in Workers : Commits(w)
         \/ UNCHANGED rows
  <1>1. CASE Tick
    BY <1>1 DEF Tick
  <1>2. ASSUME NEW w \in Workers, Call(w)
        PROVE  UNCHANGED rows
    BY <1>2 DEF Call, RecoverState, BeginCreate, DecideExpire, DecideCancel, DecidePlay,
                DecideCommitment, DecideReveal, DecideClaim, Decide, ReplayOutcome
  <1>3. ASSUME NEW w \in Workers, Progress(w), ~Commits(w)
        PROVE  UNCHANGED rows
    BY <1>3 DEF Progress, Commits, LockRequest, LockPlayer, LockElapsed, UniqueViolation
  <1>4. ASSUME NEW w \in Workers, Rollback(w)
        PROVE  UNCHANGED rows
    BY <1>4 DEF Rollback
  <1>5. CASE UNCHANGED vars
    BY <1>5 DEF vars
  <1> QED
    BY <1>1, <1>2, <1>3, <1>4, <1>5 DEF Next

\* A session keeps its player, game and times for as long as it exists.
LEMMA BindingKept ==
  ASSUME IInv, [Next]_vars, NEW q \in Requests, sessions[q] # NoSession
  PROVE  /\ sessions'[q].player = sessions[q].player /\ sessions'[q].game = sessions[q].game
         /\ sessions'[q].created = sessions[q].created /\ sessions'[q].expires = sessions[q].expires
         /\ Active(q)' => Active(q)
         /\ sessions'[q] # NoSession
  <1>1. sessions'[q] = sessions[q] \/ Ends(q)
    BY StepMoves, CommitMoves DEF SessionMoves, Starts, rows
  <1>2. sessions[q] \in Session
    BY DEF IInv, TypeOK
  <1>3. CASE Ends(q)
    <2>1. PICK st \in {"expired", "cancelled", "completed"}, t \in Int : sessions'[q] = End(q, st, t)
      BY <1>3 DEF Ends
    <2>2. /\ sessions'[q].status = st
          /\ sessions'[q].player = sessions[q].player /\ sessions'[q].game = sessions[q].game
          /\ sessions'[q].created = sessions[q].created /\ sessions'[q].expires = sessions[q].expires
      BY <1>2, <2>1 DEF End, Session
    <2>3. sessions'[q] # NoSession /\ Active(q)
      BY <1>3, <2>2 DEF NoSession, Ends
    <2> QED
      BY <2>2, <2>3
  <1> QED
    BY <1>1, <1>3 DEF Active

(***************************************************************************)
(* A step never undoes the end of a session, its binding to player, game   *)
(* and times, an outcome, the end of a proof, a claim or evidence.         *)
(***************************************************************************)
THEOREM NothingUndone == Spec => Irrevocable
  <1>1. ASSUME IInv, [Next]_vars, NEW r \in Requests
        PROVE  RowIrrevocable(r)
    <2>1. \/ UNCHANGED rows
          \/ \E w \in Workers : SessionMoves(w, r) /\ RowsMove(w, r)
      BY <1>1, StepMoves, CommitMoves
    <2>2. /\ outcomes[r] # None => outcomes'[r] = outcomes[r]
          /\ proofs[r] \in {"revealed", "expired", "cancelled"} => proofs'[r] = proofs[r]
          /\ rewards[r] = "claimed" => rewards'[r] = "claimed"
      BY <2>1 DEF RowsMove, rows
    <2>3. sessions[r] # NoSession => sessions'[r] = sessions[r] \/ Ends(r)
      BY <2>1 DEF SessionMoves, Starts, rows
    <2>4. sessions[r] \in Session
      BY <1>1 DEF IInv, TypeOK
    <2>5. Active(r) => sessions[r] # NoSession
      BY DEF Active, NoSession
    <2>6. Active(r) => sessions'[r] = [sessions[r] EXCEPT !.status = sessions'[r].status,
                                                          !.ended = sessions'[r].ended]
      <3>1. CASE sessions'[r] = sessions[r]
        BY <2>4, <3>1 DEF Session
      <3>2. CASE Ends(r)
        <4>1. PICK st \in {"expired", "cancelled", "completed"}, t \in Int : sessions'[r] = End(r, st, t)
          BY <3>2 DEF Ends
        <4>2. sessions'[r].status = st /\ sessions'[r].ended = t
          BY <2>4, <4>1 DEF End, Session
        <4> QED
          BY <4>1, <4>2 DEF End
      <3> QED
        BY <2>3, <2>5, <3>1, <3>2
    <2> QED
      BY <2>2, <2>3, <2>6 DEF Ends, RowIrrevocable
  <1>2. ASSUME IInv, [Next]_vars
        PROVE  evidence \subseteq evidence'
    <2>1. CASE UNCHANGED rows
      BY <2>1 DEF rows
    <2>2. ASSUME NEW w \in Workers, Commits(w)
          PROVE  evidence \subseteq evidence'
      BY <2>2 DEF Commits, CommitCreate, CommitRecover, CommitExpire, CommitCancel, CommitPlay,
                  CommitCommitment, CommitReveal, CommitClaim, Complete
    <2> QED
      BY <1>2, <2>1, <2>2, StepMoves
  <1>3. IInv /\ [Next]_vars =>
          [(\A r \in Requests : RowIrrevocable(r)) /\ evidence \subseteq evidence']_vars
    BY <1>1, <1>2
  <1> QED
    BY <1>3, Invariance, PTL DEF Spec, Irrevocable

------------------------------------------------------------------------------
(***************************************************************************)
(* What the advisory lock, the player lock and the reward lock keep true.  *)
(***************************************************************************)
Decided(w) ==
  LET t == tx[w] IN
  /\ t.plan = "create" /\ t.step \in {"elapsed", "commit"} => sessions[t.req] = NoSession
  /\ t.plan = "claim" => rewards[t.req] = "issued"
  /\ \A q \in t.due : q \in Of(t.player, t.game)

Exclusive ==
  \A v, w \in Workers : v # w =>
    /\ \A r \in Requests : ~(HoldsRequest(v, r) /\ HoldsRequest(w, r))
    /\ \A p \in Players : ~(HoldsPlayer(v, p) /\ HoldsPlayer(w, p))
    /\ \A r \in Requests : ~(HoldsReward(v, r) /\ HoldsReward(w, r))

OneActive ==
  \A p \in Players, g \in Games : \A r, q \in Of(p, g) : Active(r) /\ Active(q) => r = q

LockInv ==
  /\ \A w \in Workers : Decided(w)
  /\ Exclusive
  /\ OneActive
  /\ RequestBinding
  /\ AnswersAgree

\* One handler moves, with the locks that are free for it: what the others have
\* decided still stands.
LEMMA LocksKept ==
  ASSUME IInv, LockInv, [Next]_vars, NEW w \in Workers,
         UNCHANGED rows \/ Commits(w),
         \A v \in Workers \ {w} : tx'[v] = tx[v],
         Decided(w)',
         \A v \in Workers \ {w} :
           /\ \A r \in Requests : HoldsRequest(w, r)' => ~HoldsRequest(v, r)
           /\ \A p \in Players : HoldsPlayer(w, p)' => ~HoldsPlayer(v, p)
           /\ \A r \in Requests : HoldsReward(w, r)' => ~HoldsReward(v, r)
  PROVE  (\A v \in Workers : Decided(v)') /\ Exclusive'
  <1>1. ASSUME NEW v \in Workers \ {w}
        PROVE  Decided(v)'
    <2> DEFINE t == tx[v]
    <2>1. tx'[v] = t /\ Decided(v) /\ WellFormed(t) /\ t.due \subseteq Requests /\ ClocksOK(v)
      BY DEF LockInv, IInv, TypeOK, Transaction
    <2>2. CASE UNCHANGED rows
      BY <2>1, <2>2 DEF Decided, Of, rows
    <2>3. CASE Commits(w)
      <3>1. ASSUME t.plan = "create", t.step \in {"elapsed", "commit"}
            PROVE  sessions'[t.req] = NoSession
        <4>1. t.req \in Requests /\ HoldsRequest(v, t.req) /\ sessions[t.req] = NoSession
          BY <2>1, <3>1 DEF WellFormed, HoldsRequest, Decided
        <4>2. ~HoldsRequest(w, t.req)
          BY <4>1 DEF LockInv, Exclusive
        <4>3. ~Starts(w, t.req)
          BY <4>2 DEF Starts, CommitCreate, Commit, HoldsRequest
        <4>4. ~Ends(t.req)
          BY <4>1 DEF Ends, Active, NoSession
        <4> QED
          BY <2>3, <4>1, <4>3, <4>4, CommitMoves DEF SessionMoves
      <3>2. ASSUME t.plan = "claim"
            PROVE  rewards'[t.req] = "issued"
        <4>1. t.req \in Requests /\ rewards[t.req] = "issued" /\ t.step # "idle"
          BY <2>1, <3>2 DEF WellFormed, Decided
        <4>2. t.step = "commit"
          BY <2>1, <3>2, <4>1 DEF WellFormed, IInv, TypeOK, Transaction, Step
        <4>3. HoldsReward(v, t.req)
          BY <3>2, <4>2 DEF HoldsReward
        <4>4. ~HoldsReward(w, t.req)
          BY <4>1, <4>3 DEF LockInv, Exclusive
        <4> QED
          BY <2>3, <4>1, <4>4, CommitMoves DEF RowsMove
      <3>3. ASSUME NEW q \in t.due
            PROVE  q \in Of(t.player, t.game)'
        <4>1. q \in Requests /\ sessions[q].player = t.player /\ sessions[q].game = t.game
          BY <2>1 DEF Decided, Of
        <4>2. t.player \in Players
          BY <2>1 DEF ClocksOK, WellFormed
        <4>3. sessions[q] # NoSession
          BY <4>1, <4>2, NoneAssumption DEF NoSession
        <4> QED
          BY <2>1, <4>1, <4>3, BindingKept DEF Of
      <3> QED
        BY <2>1, <3>1, <3>2, <3>3 DEF Decided
    <2> QED
      BY <2>2, <2>3
  <1>2. ASSUME NEW u \in Workers, NEW v \in Workers, u # v
        PROVE  /\ \A r \in Requests : ~(HoldsRequest(u, r)' /\ HoldsRequest(v, r)')
               /\ \A p \in Players : ~(HoldsPlayer(u, p)' /\ HoldsPlayer(v, p)')
               /\ \A r \in Requests : ~(HoldsReward(u, r)' /\ HoldsReward(v, r)')
    <2>1. ASSUME NEW x \in Workers \ {w}, NEW y
          PROVE  /\ HoldsRequest(x, y)' <=> HoldsRequest(x, y)
                 /\ HoldsPlayer(x, y)' <=> HoldsPlayer(x, y)
                 /\ HoldsReward(x, y)' <=> HoldsReward(x, y)
      BY DEF HoldsRequest, HoldsPlayer, HoldsReward
    <2>2. CASE u # w /\ v # w
      BY <1>2, <2>1, <2>2 DEF LockInv, Exclusive
    <2>3. CASE u = w
      BY <1>2, <2>1, <2>3
    <2>4. CASE v = w
      BY <1>2, <2>1, <2>4
    <2> QED
      BY <2>2, <2>3, <2>4
  <1> QED
    BY <1>1, <1>2 DEF Exclusive

\* A transaction ends.
LEMMA LocksReleased ==
  ASSUME IInv, LockInv, [Next]_vars, NEW w \in Workers, Finish(w), UNCHANGED rows \/ Commits(w)
  PROVE  (\A v \in Workers : Decided(v)') /\ Exclusive'
  <1>1. /\ \A v \in Workers \ {w} : tx'[v] = tx[v]
        /\ tx'[w] = NoTx
    BY DEF Finish, IInv, TypeOK
  <1>2. tx'[w].plan = "none" /\ tx'[w].step = "idle" /\ tx'[w].due = {}
    BY <1>1 DEF NoTx
  <1>3. Decided(w)'
    BY <1>2 DEF Decided
  <1>4. \A y : ~HoldsRequest(w, y)' /\ ~HoldsPlayer(w, y)' /\ ~HoldsReward(w, y)'
    BY <1>2 DEF HoldsRequest, HoldsPlayer, HoldsReward
  <1> QED
    BY <1>1, <1>3, <1>4, LocksKept

LEMMA CallLocks ==
  ASSUME IInv, LockInv, [Next]_vars, NEW w \in Workers, Call(w)
  PROVE  (\A v \in Workers : Decided(v)') /\ Exclusive'
  <1>0. tx \in [Workers -> Transaction]
    BY DEF IInv, TypeOK
  <1>1. ASSUME NEW p \in Players, NEW g \in Games, RecoverState(w, p, g)
        PROVE  (\A v \in Workers : Decided(v)') /\ Exclusive'
    <2>1. /\ UNCHANGED rows /\ \A v \in Workers \ {w} : tx'[v] = tx[v] /\ ~HoldsPlayer(v, p)
          /\ tx'[w].plan = "recover" /\ tx'[w].due = {} /\ tx'[w].player = p
      BY <1>0, <1>1 DEF RecoverState, PlayerFree, NoTx
    <2>2. Decided(w)'
      BY <2>1 DEF Decided
    <2>3. \A y : ~HoldsRequest(w, y)' /\ ~HoldsReward(w, y)' /\ (HoldsPlayer(w, y)' => y = p)
      BY <2>1 DEF HoldsRequest, HoldsPlayer, HoldsReward
    <2> QED
      BY <2>1, <2>2, <2>3, LocksKept
  <1>2. ASSUME NEW p \in Players, NEW g \in Games, NEW r \in Requests, BeginCreate(w, p, g, r)
        PROVE  (\A v \in Workers : Decided(v)') /\ Exclusive'
    <2>1. /\ UNCHANGED rows /\ \A v \in Workers \ {w} : tx'[v] = tx[v]
          /\ tx'[w].plan = "create" /\ tx'[w].due = {} /\ tx'[w].step = "request"
      BY <1>0, <1>2 DEF BeginCreate, NoTx
    <2>2. Decided(w)'
      BY <2>1 DEF Decided
    <2>3. \A y : ~HoldsRequest(w, y)' /\ ~HoldsReward(w, y)' /\ ~HoldsPlayer(w, y)'
      BY <2>1 DEF HoldsRequest, HoldsPlayer, HoldsReward
    <2> QED
      BY <2>1, <2>2, <2>3, LocksKept
  <1>3. ASSUME NEW r \in Requests, NEW plan \in SessionPlan, NEW i, Decide(w, r, plan, i)
        PROVE  (\A v \in Workers : Decided(v)') /\ Exclusive'
    <2>1. /\ UNCHANGED rows /\ \A v \in Workers \ {w} : tx'[v] = tx[v]
          /\ tx'[w].plan = plan /\ tx'[w].due = {}
      BY <1>0, <1>3 DEF Decide, NoTx
    <2>2. plan \notin {"create", "recover", "claim"}
      BY DEF SessionPlan
    <2>3. Decided(w)'
      BY <2>1, <2>2 DEF Decided
    <2>4. \A y : ~HoldsRequest(w, y)' /\ ~HoldsReward(w, y)' /\ ~HoldsPlayer(w, y)'
      BY <2>1, <2>2 DEF HoldsRequest, HoldsPlayer, HoldsReward
    <2> QED
      BY <2>1, <2>3, <2>4, LocksKept
  <1>4. ASSUME NEW r \in Requests, DecideClaim(w, r)
        PROVE  (\A v \in Workers : Decided(v)') /\ Exclusive'
    <2>1. /\ UNCHANGED rows /\ \A v \in Workers \ {w} : tx'[v] = tx[v] /\ ~HoldsReward(v, r)
          /\ tx'[w].plan = "claim" /\ tx'[w].due = {} /\ tx'[w].req = r
          /\ rewards'[r] = "issued"
      BY <1>0, <1>4 DEF DecideClaim, RewardFree, NoTx, rows
    <2>2. Decided(w)'
      BY <2>1 DEF Decided
    <2>3. \A y : ~HoldsRequest(w, y)' /\ ~HoldsPlayer(w, y)' /\ (HoldsReward(w, y)' => y = r)
      BY <2>1 DEF HoldsRequest, HoldsPlayer, HoldsReward
    <2> QED
      BY <2>1, <2>2, <2>3, LocksKept
  <1>5. ASSUME NEW r \in Requests, NEW i \in Intents, ReplayOutcome(w, r, i)
        PROVE  (\A v \in Workers : Decided(v)') /\ Exclusive'
    BY <1>5 DEF ReplayOutcome, LockInv, Decided, Exclusive, Of, HoldsRequest, HoldsPlayer,
                HoldsReward, rows
  <1> QED
    BY <1>1, <1>2, <1>3, <1>4, <1>5 DEF Call, DecideExpire, DecideCancel, DecidePlay,
       DecideCommitment, DecideReveal, SessionPlan

LEMMA WaitLocks ==
  ASSUME IInv, LockInv, [Next]_vars, NEW w \in Workers,
         LockRequest(w) \/ LockPlayer(w) \/ LockElapsed(w)
  PROVE  (\A v \in Workers : Decided(v)') /\ Exclusive'
  <1>0. /\ tx \in [Workers -> Transaction] /\ tx[w] \in Transaction /\ WellFormed(tx[w])
        /\ Decided(w)
    BY DEF IInv, TypeOK, LockInv
  <1>1. CASE Finish(w)
    BY <1>1, LocksReleased DEF LockRequest, LockPlayer, LockElapsed
  <1>2. CASE LockRequest(w)
    <2>1. /\ UNCHANGED rows
          /\ \A v \in Workers \ {w} : tx'[v] = tx[v] /\ ~HoldsRequest(v, tx[w].req)
          /\ tx'[w] = [tx[w] EXCEPT !.step = "player"]
          /\ tx[w].plan = "create"
      BY <1>0, <1>2 DEF LockRequest, RequestFree, WellFormed
    <2>2. /\ tx'[w].plan = "create" /\ tx'[w].step = "player" /\ tx'[w].req = tx[w].req
          /\ tx'[w].due = tx[w].due /\ tx'[w].player = tx[w].player /\ tx'[w].game = tx[w].game
      BY <1>0, <2>1 DEF Transaction
    <2>3. Decided(w)'
      BY <1>0, <2>1, <2>2 DEF Decided, Of, rows
    <2>4. \A y : ~HoldsReward(w, y)' /\ ~HoldsPlayer(w, y)' /\ (HoldsRequest(w, y)' => y = tx[w].req)
      BY <2>2 DEF HoldsRequest, HoldsPlayer, HoldsReward
    <2> QED
      BY <2>1, <2>3, <2>4, LocksKept
  <1>3. CASE LockPlayer(w) /\ ~Finish(w)
    <2>1. /\ UNCHANGED rows
          /\ \A v \in Workers \ {w} : tx'[v] = tx[v] /\ ~HoldsPlayer(v, tx[w].player)
          /\ tx'[w] = [tx[w] EXCEPT !.step = "elapsed", !.at = now]
          /\ tx[w].plan = "create" /\ tx[w].step = "player"
          /\ sessions[tx[w].req] = NoSession
      BY <1>0, <1>3 DEF LockPlayer, PlayerFree, WellFormed
    <2>2. /\ tx'[w].plan = "create" /\ tx'[w].step = "elapsed" /\ tx'[w].req = tx[w].req
          /\ tx'[w].due = tx[w].due /\ tx'[w].player = tx[w].player /\ tx'[w].game = tx[w].game
      BY <1>0, <2>1 DEF Transaction
    <2>3. Decided(w)'
      BY <1>0, <2>1, <2>2 DEF Decided, Of, rows
    <2>4. \A y : /\ ~HoldsReward(w, y)' /\ (HoldsPlayer(w, y)' => y = tx[w].player)
                 /\ HoldsRequest(w, y)' => HoldsRequest(w, y)
      BY <2>1, <2>2 DEF HoldsRequest, HoldsPlayer, HoldsReward
    <2>5. \A v \in Workers \ {w}, y \in Requests : HoldsRequest(w, y)' => ~HoldsRequest(v, y)
      BY <2>4 DEF LockInv, Exclusive
    <2> QED
      BY <2>1, <2>3, <2>4, <2>5, LocksKept
  <1>4. CASE LockElapsed(w) /\ ~Finish(w)
    <2>1. PICK S \in SUBSET Of(tx[w].player, tx[w].game) :
            tx' = [tx EXCEPT ![w].step = "commit", ![w].due = S]
      BY <1>4 DEF LockElapsed, Due
    <2>2. /\ UNCHANGED rows
          /\ \A v \in Workers \ {w} : tx'[v] = tx[v]
          /\ tx'[w] = [tx[w] EXCEPT !.step = "commit", !.due = S]
          /\ tx[w].plan \in {"create", "recover"} /\ tx[w].step = "elapsed"
      BY <1>0, <1>4, <2>1 DEF LockElapsed, WellFormed
    <2>3. /\ tx'[w].plan = tx[w].plan /\ tx'[w].step = "commit" /\ tx'[w].req = tx[w].req
          /\ tx'[w].due = S /\ tx'[w].player = tx[w].player /\ tx'[w].game = tx[w].game
      BY <1>0, <2>2 DEF Transaction
    <2>4. Decided(w)'
      BY <1>0, <2>2, <2>3 DEF Decided, Of, rows
    <2>5. \A y : /\ ~HoldsReward(w, y)' /\ (HoldsPlayer(w, y)' => HoldsPlayer(w, y))
                 /\ HoldsRequest(w, y)' => HoldsRequest(w, y)
      BY <2>2, <2>3 DEF HoldsRequest, HoldsPlayer, HoldsReward
    <2>6. \A v \in Workers \ {w} :
            /\ \A y \in Requests : HoldsRequest(w, y)' => ~HoldsRequest(v, y)
            /\ \A y \in Players : HoldsPlayer(w, y)' => ~HoldsPlayer(v, y)
      BY <2>5 DEF LockInv, Exclusive
    <2> QED
      BY <2>2, <2>4, <2>5, <2>6, LocksKept
  <1> QED
    BY <1>1, <1>2, <1>3, <1>4 DEF LockRequest, Finish

\* What the rows and the answers keep when a step is taken.
LEMMA OneActiveKept ==
  ASSUME IInv, OneActive, [Next]_vars
  PROVE  OneActive'
  <1> SUFFICES ASSUME NEW r \in Requests, NEW q \in Requests, Active(r)', Active(q)', r # q,
                      sessions'[r].player \in Players, sessions'[r].game \in Games,
                      sessions'[q].player = sessions'[r].player,
                      sessions'[q].game = sessions'[r].game
               PROVE  FALSE
    BY DEF OneActive, Of
  <1>1. ASSUME NEW x \in Requests, NEW y \in Requests, x # y, Active(x)', Active(y)',
               sessions[x] = NoSession,
               sessions'[y].player = sessions'[x].player, sessions'[y].game = sessions'[x].game
        PROVE  FALSE
    <2>1. PICK w \in Workers : Commits(w) /\ Starts(w, x)
      <3>1. sessions'[x] # sessions[x] /\ ~Ends(x)
        BY <1>1 DEF Active, NoSession, Ends
      <3> QED
        BY <3>1, StepMoves, CommitMoves DEF SessionMoves, rows
    <2>2. Commit(w, "create") /\ "create" \in Plan
      BY <2>1 DEF Starts, CommitCreate, Plan
    <2>3. /\ tx[w].plan = "create" /\ x = tx[w].req /\ ~UniqueConflict(w)
          /\ sessions'[x].player = tx[w].player /\ sessions'[x].game = tx[w].game
          /\ tx[w].at \in Int /\ tx[w].due \in SUBSET Requests
      BY <2>1, <2>2, CommitFacts DEF Starts
    <2>4. sessions[y] # NoSession
      <3>1. SessionMoves(w, y) /\ ~Starts(w, y)
        BY <1>1, <2>1, <2>3, CommitMoves DEF Starts
      <3> QED
        BY <1>1, <3>1 DEF SessionMoves, Ends, Active, NoSession
    <2>5. Active(y) /\ sessions[y].player = tx[w].player /\ sessions[y].game = tx[w].game
      BY <1>1, <2>3, <2>4, BindingKept
    <2>6. y \in tx[w].due
      BY <2>3, <2>5 DEF UniqueConflict, Of
    <2>7. sessions'[y] = End(y, "expired", tx[w].at)
      BY <1>1, <2>1, <2>3, <2>5, <2>6 DEF Starts, CommitCreate, Expire, Active
    <2>8. sessions'[y].status = "expired"
      BY <2>7 DEF End, IInv, TypeOK, Session
    <2> QED
      BY <1>1, <2>8 DEF Active
  <1>2. sessions[r] # NoSession /\ sessions[q] # NoSession
    BY <1>1
  <1>3. /\ Active(r) /\ Active(q)
        /\ sessions[r].player = sessions'[r].player /\ sessions[r].game = sessions'[r].game
        /\ sessions[q].player = sessions'[q].player /\ sessions[q].game = sessions'[q].game
    BY <1>2, BindingKept
  <1> QED
    BY <1>3 DEF OneActive, Of

LEMMA BindingAnswered ==
  ASSUME IInv, RequestBinding, [Next]_vars
  PROVE  RequestBinding'
  <1> SUFFICES ASSUME NEW c \in created'
               PROVE  sessions'[c[1]].player = c[2] /\ sessions'[c[1]].game = c[3]
    BY DEF RequestBinding
  <1>1. CASE c \in created
    <2>1. /\ c[1] \in Requests /\ c[2] \in Players
          /\ sessions[c[1]].player = c[2] /\ sessions[c[1]].game = c[3]
      BY <1>1 DEF RequestBinding, IInv, TypeOK
    <2>2. sessions[c[1]] # NoSession
      BY <2>1, NoneAssumption DEF NoSession
    <2> QED
      BY <2>1, <2>2, BindingKept
  <1>2. ASSUME NEW w \in Workers, LockPlayer(w), c \notin created
        PROVE  sessions'[c[1]].player = c[2] /\ sessions'[c[1]].game = c[3]
    BY <1>2 DEF LockPlayer, SameCreation, rows
  <1>3. ASSUME NEW w \in Workers, CommitCreate(w), c \notin created
        PROVE  sessions'[c[1]].player = c[2] /\ sessions'[c[1]].game = c[3]
    <2>1. Commit(w, "create") /\ "create" \in Plan
      BY <1>3 DEF CommitCreate, Plan
    <2>2. tx[w].req \in Requests
      BY <2>1, CommitFacts DEF WellFormed
    <2>3. c = <<tx[w].req, tx[w].player, tx[w].game>>
      BY <1>3 DEF CommitCreate
    <2>4. /\ sessions'[tx[w].req].player = tx[w].player
          /\ sessions'[tx[w].req].game = tx[w].game
      BY <1>3, <2>2 DEF CommitCreate, Expire
    <2> QED
      BY <2>3, <2>4
  <1>4. created' = created \/ \E w \in Workers : LockPlayer(w) \/ CommitCreate(w)
    <2>1. CASE Tick
      BY <2>1 DEF Tick, history
    <2>2. ASSUME NEW w \in Workers, Call(w)
          PROVE  created' = created
      BY <2>2 DEF Call, RecoverState, BeginCreate, DecideExpire, DecideCancel, DecidePlay,
                  DecideCommitment, DecideReveal, DecideClaim, Decide, ReplayOutcome, history
    <2>3. ASSUME NEW w \in Workers, Progress(w), ~LockPlayer(w), ~CommitCreate(w)
          PROVE  created' = created
      BY <2>3 DEF Progress, LockRequest, LockElapsed, CommitRecover, CommitExpire, CommitCancel,
                  CommitPlay, CommitCommitment, CommitReveal, CommitClaim, Complete,
                  UniqueViolation, history
    <2>4. ASSUME NEW w \in Workers, Rollback(w)
          PROVE  created' = created
      BY <2>4 DEF Rollback, history
    <2>5. CASE UNCHANGED vars
      BY <2>5 DEF vars, history
    <2> QED
      BY <2>1, <2>2, <2>3, <2>4, <2>5 DEF Next
  <1> QED
    BY <1>1, <1>2, <1>3, <1>4

LEMMA AnswersKept ==
  ASSUME IInv, AnswersAgree, [Next]_vars
  PROVE  AnswersAgree'
  <1> SUFFICES ASSUME NEW a \in answers' PROVE outcomes'[a[1]] = a[2]
    BY DEF AnswersAgree
  <1>1. CASE a \in answers
    <2>1. a[1] \in Requests /\ a[2] \in Intents /\ outcomes[a[1]] = a[2]
      BY <1>1 DEF AnswersAgree, IInv, TypeOK
    <2>2. outcomes[a[1]] # None
      BY <2>1, NoneAssumption
    <2> QED
      BY <2>1, <2>2, StepMoves, CommitMoves DEF RowsMove, rows
  <1>2. ASSUME NEW w \in Workers, CommitPlay(w) \/ CommitReveal(w), a \notin answers
        PROVE  outcomes'[a[1]] = a[2]
    <2>1. PICK plan \in {"play", "reveal"} : Commit(w, plan) /\ Complete(w)
      BY <1>2 DEF CommitPlay, CommitReveal
    <2>2. plan \in Plan /\ plan \in SessionPlan
      BY DEF Plan, SessionPlan
    <2>3. tx[w].req \in Requests
      BY <2>1, <2>2, CommitFacts DEF WellFormed
    <2>4. a = <<tx[w].req, tx[w].intent>>
      BY <1>2, <2>1 DEF Complete
    <2> QED
      BY <2>1, <2>3, <2>4 DEF Complete, IInv, TypeOK
  <1>3. ASSUME NEW w \in Workers, NEW r \in Requests, NEW i \in Intents, ReplayOutcome(w, r, i),
               a \notin answers
        PROVE  outcomes'[a[1]] = a[2]
    BY <1>3 DEF ReplayOutcome, RetryMatches, rows
  <1>4. \/ answers' = answers
        \/ \E w \in Workers : \/ CommitPlay(w) \/ CommitReveal(w)
                              \/ \E r \in Requests, i \in Intents : ReplayOutcome(w, r, i)
    <2>1. CASE Tick
      BY <2>1 DEF Tick, history
    <2>2. ASSUME NEW w \in Workers, Call(w),
                 ~ \E r \in Requests, i \in Intents : ReplayOutcome(w, r, i)
          PROVE  answers' = answers
      BY <2>2 DEF Call, RecoverState, BeginCreate, DecideExpire, DecideCancel, DecidePlay,
                  DecideCommitment, DecideReveal, DecideClaim, Decide, history
    <2>3. ASSUME NEW w \in Workers, Progress(w), ~CommitPlay(w), ~CommitReveal(w)
          PROVE  answers' = answers
      BY <2>3 DEF Progress, LockRequest, LockPlayer, LockElapsed, CommitCreate, CommitRecover,
                  CommitExpire, CommitCancel, CommitCommitment, CommitClaim, UniqueViolation, history
    <2>4. ASSUME NEW w \in Workers, Rollback(w)
          PROVE  answers' = answers
      BY <2>4 DEF Rollback, history
    <2>5. CASE UNCHANGED vars
      BY <2>5 DEF vars, history
    <2> QED
      BY <2>1, <2>2, <2>3, <2>4, <2>5 DEF Next
  <1> QED
    BY <1>1, <1>2, <1>3, <1>4

(***************************************************************************)
(* LockInv is invariant, on top of IInv.                                   *)
(***************************************************************************)
THEOREM LockInvariance == Spec => []LockInv
  <1>1. Init => LockInv
    <2> SUFFICES ASSUME Init PROVE LockInv
      OBVIOUS
    <2>1. \A w \in Workers : /\ tx[w].plan = "none" /\ tx[w].step = "idle" /\ tx[w].due = {}
      BY DEF Init, NoTx
    <2>2. \A r \in Requests : ~Active(r)
      BY DEF Init, Active, NoSession
    <2> QED
      BY <2>1, <2>2 DEF LockInv, Decided, Exclusive, HoldsRequest, HoldsPlayer, HoldsReward,
                        OneActive, Of, RequestBinding, AnswersAgree, Init
  <1>2. IInv /\ LockInv /\ [Next]_vars => LockInv'
    <2> SUFFICES ASSUME IInv, LockInv, [Next]_vars PROVE LockInv'
      OBVIOUS
    <2>1. OneActive' /\ RequestBinding' /\ AnswersAgree'
      BY OneActiveKept, BindingAnswered, AnswersKept DEF LockInv
    <2>2. ASSUME NEW w \in Workers, Call(w)
          PROVE  (\A v \in Workers : Decided(v)') /\ Exclusive'
      BY <2>2, CallLocks
    <2>3. ASSUME NEW w \in Workers, LockRequest(w) \/ LockPlayer(w) \/ LockElapsed(w)
          PROVE  (\A v \in Workers : Decided(v)') /\ Exclusive'
      BY <2>3, WaitLocks
    <2>4. ASSUME NEW w \in Workers, Commits(w) \/ UniqueViolation(w) \/ Rollback(w)
          PROVE  (\A v \in Workers : Decided(v)') /\ Exclusive'
      <3>1. Finish(w)
        BY <2>4 DEF Commits, CommitCreate, CommitRecover, CommitExpire, CommitCancel, CommitPlay,
                    CommitCommitment, CommitReveal, CommitClaim, Commit, UniqueViolation, Rollback
      <3>2. UNCHANGED rows \/ Commits(w)
        BY <2>4 DEF UniqueViolation, Rollback
      <3> QED
        BY <3>1, <3>2, LocksReleased
    <2>5. CASE Tick \/ UNCHANGED vars
      <3>1. UNCHANGED <<rows, tx>>
        BY <2>5 DEF Tick, vars
      <3>2. \A w \in Workers : Decided(w)'
        BY <3>1 DEF LockInv, Decided, Of, rows
      <3>3. \A w \in Workers : \A y :
              /\ HoldsRequest(w, y)' <=> HoldsRequest(w, y)
              /\ HoldsPlayer(w, y)' <=> HoldsPlayer(w, y)
              /\ HoldsReward(w, y)' <=> HoldsReward(w, y)
        BY <3>1 DEF HoldsRequest, HoldsPlayer, HoldsReward
      <3>4. Exclusive
        BY DEF LockInv
      <3>5. Exclusive'
        BY <3>3, <3>4 DEF Exclusive
      <3> QED
        BY <2>1, <3>2, <3>5 DEF LockInv
    <2> QED
      BY <2>1, <2>2, <2>3, <2>4, <2>5 DEF Next, Progress, Commits, LockInv
  <1> QED
    BY <1>1, <1>2, Invariance, PTL DEF Spec

(***************************************************************************)
(* A creation is answered only with a session of the player and game it    *)
(* asked for, also when a request id is shared or retried.                 *)
(***************************************************************************)
THEOREM CreationsBound == Spec => []RequestBinding
  <1>1. LockInv => RequestBinding
    BY DEF LockInv
  <1> QED
    BY <1>1, LockInvariance, PTL

(***************************************************************************)
(* Every answered play or evaluation was answered with the one outcome     *)
(* that is stored for its intent.                                          *)
(***************************************************************************)
THEOREM AnswersStored == Spec => []AnswersAgree
  <1>1. LockInv => AnswersAgree
    BY DEF LockInv
  <1> QED
    BY <1>1, LockInvariance, PTL

------------------------------------------------------------------------------
(***************************************************************************)
(* The contract.  Creation is Start, which ends the elapsed session before *)
(* it; every other commit moves at most one play; nothing else is visible. *)
(***************************************************************************)
Life == [r \in Requests |->
  [state |-> sessions[r].status, player |-> sessions[r].player, game |-> sessions[r].game,
   answer |-> outcomes[r], reward |-> rewards[r]]]

ContractStart(r, p, g) ==
  /\ Life[r] = Contract!Unborn
  /\ Life' = [q \in Requests |->
       IF q = r THEN [Contract!Unborn EXCEPT !.state = "active", !.player = p, !.game = g]
       ELSE IF Life[q].state = "active" /\ Life[q].player = p /\ Life[q].game = g
         THEN [Life[q] EXCEPT !.state = "expired"]
       ELSE Life[q]]

ContractStop(r) ==
  /\ Life[r].state = "active"
  /\ \E st \in {"expired", "cancelled"} : Life' = [Life EXCEPT ![r].state = st]

ContractFinish(r, i) ==
  /\ Life[r].state = "active"
  /\ Life' = [Life EXCEPT ![r].state = "completed", ![r].answer = i, ![r].reward = "issued"]

ContractClaim(r) ==
  /\ Life[r].reward = "issued"
  /\ Life' = [Life EXCEPT ![r].reward = "claimed"]

\* The steps of the contract, read on the rows.
LEMMA ContractSteps ==
  ASSUME UNCHANGED Life \/
         \E r \in Requests :
            \/ \E p \in Players, g \in Games : ContractStart(r, p, g)
            \/ ContractStop(r)
            \/ \E i \in Intents : ContractFinish(r, i)
            \/ ContractClaim(r)
  PROVE  Contract!Next \/ UNCHANGED Life
  <1>1. ASSUME NEW r \in Requests, NEW p \in Players, NEW g \in Games, ContractStart(r, p, g)
        PROVE  Contract!Start(r, p, g)
    BY <1>1 DEF ContractStart, Contract!Start, Contract!ActiveOf, Life
  <1>2. ASSUME NEW r \in Requests, ContractStop(r)
        PROVE  Contract!Stop(r)
    BY <1>2 DEF ContractStop, Contract!Stop, Life
  <1>3. ASSUME NEW r \in Requests, NEW i \in Intents, ContractFinish(r, i)
        PROVE  Contract!Finish(r, i)
    BY <1>3 DEF ContractFinish, Contract!Finish, Life
  <1>4. ASSUME NEW r \in Requests, ContractClaim(r)
        PROVE  Contract!Claim(r)
    BY <1>4 DEF ContractClaim, Contract!Claim, Life
  <1> QED
    BY <1>1, <1>2, <1>3, <1>4 DEF Contract!Next

\* One session ends, and nothing else that the contract shows changes.
LEMMA StopsOne ==
  ASSUME IInv, NEW r \in Requests, Active(r), NEW st \in {"expired", "cancelled"}, NEW t \in Int,
         sessions'[r] = End(r, st, t), \A q \in Requests \ {r} : sessions'[q] = sessions[q],
         UNCHANGED <<outcomes, rewards>>
  PROVE  ContractStop(r)
  <1>1. /\ sessions'[r].status = st
        /\ sessions'[r].player = sessions[r].player /\ sessions'[r].game = sessions[r].game
    BY DEF End, IInv, TypeOK, Session
  <1>2. Life' = [Life EXCEPT ![r].state = st]
    BY <1>1 DEF Life
  <1>3. Life[r].state = "active"
    BY DEF Life, Active
  <1> QED
    BY <1>2, <1>3 DEF ContractStop

LEMMA CreateStarts ==
  ASSUME IInv, LockInv, NEW w \in Workers, CommitCreate(w)
  PROVE  tx[w].req \in Requests /\ tx[w].player \in Players /\ tx[w].game \in Games
         /\ ContractStart(tx[w].req, tx[w].player, tx[w].game)
  <1> DEFINE r == tx[w].req
             p == tx[w].player
             g == tx[w].game
             new == [q \in Requests |->
                       IF q = r THEN [Contract!Unborn EXCEPT !.state = "active", !.player = p, !.game = g]
                       ELSE IF Life[q].state = "active" /\ Life[q].player = p /\ Life[q].game = g
                         THEN [Life[q] EXCEPT !.state = "expired"]
                       ELSE Life[q]]
  <1>1. Commit(w, "create") /\ "create" \in Plan
    BY DEF CommitCreate, Plan
  <1>2. /\ r \in Requests /\ p \in Players /\ g \in Games /\ tx[w].plan = "create"
        /\ tx[w].at \in Int /\ tx[w].due \in SUBSET Requests
        /\ \A q \in tx[w].due : Active(q)
        /\ ~UniqueConflict(w)
    BY <1>1, CommitFacts DEF WellFormed
  <1>3. sessions[r] = NoSession /\ \A q \in Of(p, g) \ tx[w].due : ~Active(q)
    BY <1>2 DEF UniqueConflict
  <1>4. outcomes[r] = None /\ rewards[r] = "absent"
    BY <1>2, <1>3, Unborn DEF IInv
  <1>5. Life[r] = Contract!Unborn
    BY <1>2, <1>3, <1>4 DEF Life, NoSession, Contract!Unborn
  <1>6. \A q \in Requests \ {r} : q \in tx[w].due <=> Active(q) /\ q \in Of(p, g)
    BY <1>2, <1>3 DEF LockInv, Decided
  <1>7. UNCHANGED <<outcomes, rewards>>
    BY DEF CommitCreate
  <1>8. ASSUME NEW q \in Requests
        PROVE  Life'[q] = new[q]
    <2>1. CASE q = r
      <3>1. /\ sessions'[r].status = "active" /\ sessions'[r].player = p
            /\ sessions'[r].game = g
        BY <1>2 DEF CommitCreate, Expire
      <3> QED
        BY <1>4, <1>7, <2>1, <3>1 DEF Life, Contract!Unborn
    <2>2. CASE q # r /\ q \in tx[w].due
      <3>1. sessions'[q] = End(q, "expired", tx[w].at)
        BY <1>2, <2>2 DEF CommitCreate, Expire, Active
      <3>2. /\ sessions'[q].status = "expired"
            /\ sessions'[q].player = sessions[q].player /\ sessions'[q].game = sessions[q].game
        BY <3>1 DEF End, IInv, TypeOK, Session
      <3> QED
        BY <1>6, <1>7, <2>2, <3>2 DEF Life, Of, Active
    <2>3. CASE q # r /\ q \notin tx[w].due
      <3>1. sessions'[q] = sessions[q]
        BY <2>3 DEF CommitCreate, Expire
      <3> QED
        BY <1>6, <1>7, <2>3, <3>1 DEF Life, Of, Active
    <2> QED
      BY <2>1, <2>2, <2>3
  <1>9. Life' = new
    BY <1>8 DEF Life
  <1> QED
    BY <1>2, <1>5, <1>9 DEF ContractStart

LEMMA CommitImplements ==
  ASSUME IInv, LockInv, NEW w \in Workers, Commits(w)
  PROVE  Contract!Next \/ UNCHANGED Life
  <1> DEFINE r == tx[w].req
             t == tx[w].at
  <1>0. \A plan \in SessionPlan \cup {"create", "recover", "claim"} : plan \in Plan
    BY DEF SessionPlan, Plan
  <1>1. CASE CommitCreate(w)
    BY <1>1, CreateStarts, ContractSteps
  <1>2. CASE CommitRecover(w)
    <2>1. Commit(w, "recover") /\ "recover" \in Plan
      BY <1>0, <1>2 DEF CommitRecover
    <2>2. /\ tx[w].due \in SUBSET Requests /\ t \in Int /\ \A q \in tx[w].due : Active(q)
          /\ tx[w].player \in Players /\ tx[w].game \in Games
      BY <2>1, CommitFacts DEF WellFormed
    <2>3. \A q \in tx[w].due : q \in Of(tx[w].player, tx[w].game)
      BY DEF LockInv, Decided
    <2>4. \A x, y \in tx[w].due : x = y
      BY <2>2, <2>3 DEF LockInv, OneActive
    <2>5. UNCHANGED <<outcomes, rewards>> /\ sessions' = Expire(tx[w].due, t)
      BY <1>2 DEF CommitRecover
    <2>6. CASE tx[w].due = {}
      BY <2>5, <2>6 DEF Life, Expire
    <2>7. ASSUME NEW x \in tx[w].due
          PROVE  ContractStop(x)
      <3>1. /\ sessions'[x] = End(x, "expired", t)
            /\ \A q \in Requests \ {x} : sessions'[q] = sessions[q]
        BY <2>2, <2>4, <2>5, <2>7 DEF Expire, Active
      <3> QED
        BY <2>2, <2>5, <2>7, <3>1, StopsOne
    <2> QED
      BY <2>2, <2>6, <2>7, ContractSteps
  <1>3. CASE CommitExpire(w)
    <2>1. Commit(w, "expire") /\ "expire" \in Plan /\ "expire" \in SessionPlan
      BY <1>0, <1>3 DEF CommitExpire, SessionPlan
    <2>2. r \in Requests /\ t \in Int /\ Active(r)
      BY <2>1, CommitFacts DEF StillHolds, WellFormed
    <2>3. /\ sessions'[r] = End(r, "expired", t)
          /\ \A q \in Requests \ {r} : sessions'[q] = sessions[q]
          /\ UNCHANGED <<outcomes, rewards>>
      BY <1>3, <2>2 DEF CommitExpire, Expire, Active
    <2> QED
      BY <2>2, <2>3, StopsOne, ContractSteps
  <1>4. CASE CommitCancel(w)
    <2>1. Commit(w, "cancel") /\ "cancel" \in Plan /\ "cancel" \in SessionPlan
      BY <1>0, <1>4 DEF CommitCancel, SessionPlan
    <2>2. r \in Requests /\ t \in Int /\ Active(r)
      BY <2>1, CommitFacts DEF StillHolds, WellFormed
    <2>3. /\ sessions'[r] = End(r, "cancelled", t)
          /\ \A q \in Requests \ {r} : sessions'[q] = sessions[q]
          /\ UNCHANGED <<outcomes, rewards>>
      BY <1>4, <2>2 DEF CommitCancel, IInv, TypeOK
    <2> QED
      BY <2>2, <2>3, StopsOne, ContractSteps
  <1>5. CASE CommitPlay(w) \/ CommitReveal(w)
    <2>1. PICK plan \in {"play", "reveal"} : Commit(w, plan) /\ Complete(w)
      BY <1>5 DEF CommitPlay, CommitReveal
    <2>2. plan \in Plan /\ plan \in SessionPlan
      BY DEF Plan, SessionPlan
    <2>3. r \in Requests /\ t \in Int /\ Active(r) /\ tx[w].intent \in Intents
      BY <2>1, <2>2, CommitFacts DEF StillHolds, WellFormed
    <2>4. /\ sessions'[r] = End(r, "completed", t) /\ outcomes'[r] = tx[w].intent
          /\ rewards'[r] = "issued"
          /\ \A q \in Requests \ {r} : sessions'[q] = sessions[q] /\ outcomes'[q] = outcomes[q]
                                       /\ rewards'[q] = rewards[q]
      BY <2>1, <2>3 DEF Complete, IInv, TypeOK
    <2>5. /\ sessions'[r].status = "completed"
          /\ sessions'[r].player = sessions[r].player /\ sessions'[r].game = sessions[r].game
      BY <2>3, <2>4 DEF End, IInv, TypeOK, Session
    <2>6. Life' = [Life EXCEPT ![r].state = "completed", ![r].answer = tx[w].intent,
                               ![r].reward = "issued"]
      BY <2>3, <2>4, <2>5 DEF Life
    <2>7. ContractFinish(r, tx[w].intent)
      BY <2>3, <2>6 DEF ContractFinish, Life, Active
    <2> QED
      BY <2>3, <2>7, ContractSteps
  <1>6. CASE CommitCommitment(w)
    BY <1>6 DEF CommitCommitment, Life
  <1>7. CASE CommitClaim(w)
    <2>1. Commit(w, "claim") /\ "claim" \in Plan
      BY <1>0, <1>7 DEF CommitClaim
    <2>2. r \in Requests /\ rewards[r] = "issued"
      BY <2>1, CommitFacts DEF WellFormed, LockInv, Decided
    <2>3. ContractClaim(r)
      BY <1>7, <2>2 DEF CommitClaim, ContractClaim, Life, IInv, TypeOK
    <2> QED
      BY <2>2, <2>3, ContractSteps
  <1> QED
    BY <1>1, <1>2, <1>3, <1>4, <1>5, <1>6, <1>7 DEF Commits

(***************************************************************************)
(* The concurrent transactions implement SessionContract: every commit is  *)
(* a step of the atomic life cycle and everything else is invisible.       *)
(***************************************************************************)
THEOREM Refinement == Spec => ImplementsContract
  <1>1. Init => Contract!Init
    BY DEF Init, NoSession, Contract!Init, Contract!Unborn
  <1>2. IInv /\ LockInv /\ [Next]_vars => Contract!Next \/ UNCHANGED Life
    <2> SUFFICES ASSUME IInv, LockInv, [Next]_vars PROVE Contract!Next \/ UNCHANGED Life
      OBVIOUS
    <2>1. CASE UNCHANGED rows
      BY <2>1 DEF Life, rows
    <2> QED
      BY <2>1, StepMoves, CommitImplements
  <1>3. IInv /\ LockInv /\ [Next]_vars => [Contract!Next]_Life
    BY <1>2
  <1> QED
    BY <1>1, <1>3, Invariance, LockInvariance, PTL DEF Spec, ImplementsContract, Contract!Spec, Life

------------------------------------------------------------------------------
(***************************************************************************)
(* Creations keep their distance.  created_at is the start of the creating *)
(* transaction, the deadline counts from the clock it read after waiting   *)
(* for its locks: only when the cooldown is longer than a transaction can  *)
(* stay open does the order of created_at follow the order of creation.    *)
(***************************************************************************)
LongCooldown == Cooldown > TxLimit

Timely(w) == ~Idle(w) => now - tx[w].start <= TxLimit

\* A creation that may commit comes after every session of its player and game.
Cleared(w) ==
  LET t == tx[w] IN
  t.plan = "create" /\ t.step = "commit" =>
    \A q \in Of(t.player, t.game) :
      /\ sessions[q].created + Cooldown <= t.at
      /\ Active(q) => q \in t.due

CreationTimes ==
  \A r \in Requests : sessions[r] # NoSession =>
    /\ sessions[r].created <= BeganAt(r)
    /\ BeganAt(r) - sessions[r].created <= TxLimit

ActiveIsLatest ==
  \A p \in Players, g \in Games : \A r, q \in Of(p, g) :
    Active(r) /\ r # q => sessions[q].created < sessions[r].created

SpacingInv ==
  /\ \A w \in Workers : Timely(w) /\ Cleared(w)
  /\ CreationTimes
  /\ ActiveIsLatest
  /\ CooldownRespected
  /\ NoUniqueViolation

\* A set of times that are not in the future has a latest one.
LEMMA LatestTime ==
  ASSUME NEW S, S # {}, NEW f \in [S -> Int], NEW n \in Int, \A x \in S : f[x] <= n
  PROVE  \E m \in S : \A x \in S : f[x] <= f[m]
  <1> DEFINE T == {n - f[x] : x \in S}
  <1>1. T \subseteq Nat /\ T # {}
    <2>1. \A x \in S : n - f[x] \in Nat
      OBVIOUS
    <2> QED
      BY <2>1
  <1>2. PICK k \in T : \A y \in T : ~ (<<y, k>> \in OpToRel(<, Nat))
    BY <1>1, NatLessThanWellFounded, WFMin, Zenon
  <1>3. \A y \in T : k <= y
    <2> SUFFICES ASSUME NEW y \in T PROVE k <= y
      OBVIOUS
    <2>1. y \in Nat /\ k \in Nat
      BY <1>1
    <2>2. ~ (<<y, k>> \in {ss \in Nat \X Nat : ss[1] < ss[2]})
      BY <1>2 DEF OpToRel
    <2> QED
      BY <2>1, <2>2
  <1>4. PICK m \in S : k = n - f[m]
    BY <1>2
  <1>5. ASSUME NEW x \in S PROVE f[x] <= f[m]
    <2>1. n - f[m] <= n - f[x]
      BY <1>3, <1>4
    <2> QED
      BY <2>1
  <1> QED
    BY <1>5

LEMMA RowTimes ==
  ASSUME IInv, NEW r \in Requests
  PROVE  /\ sessions[r].created \in Int /\ sessions[r].expires \in Int
         /\ BeganAt(r) \in Int /\ sessions[r].created <= now
         /\ now \in Int /\ Cooldown \in Int /\ TxLimit \in Int /\ Duration \in Int
  BY TimeAssumption DEF IInv, TypeOK, Session, RowOK, Shaped, BeganAt

\* No two sessions of one player and game have the same created_at.
LEMMA DistinctTimes ==
  ASSUME LongCooldown, IInv, CreationTimes, CooldownRespected, NEW p \in Players, NEW g \in Games,
         NEW r \in Of(p, g), NEW q \in Of(p, g), sessions[r].created = sessions[q].created
  PROVE  r = q
  <1>1. r \in Requests /\ q \in Requests
    BY DEF Of
  <1>2. sessions[r] # NoSession /\ sessions[q] # NoSession
    BY NoneAssumption DEF Of, NoSession
  <1>3. /\ BeganAt(r) - sessions[r].created <= TxLimit
        /\ BeganAt(q) - sessions[q].created <= TxLimit
    BY <1>1, <1>2 DEF CreationTimes
  <1>4. /\ sessions[r].created \in Int /\ BeganAt(r) \in Int
        /\ sessions[q].created \in Int /\ BeganAt(q) \in Int
        /\ Cooldown \in Int /\ TxLimit \in Int
    BY <1>1, RowTimes
  <1>5. \/ r = q
        \/ BeganAt(r) >= sessions[q].created + Cooldown
        \/ BeganAt(q) >= sessions[r].created + Cooldown
    BY DEF CooldownRespected
  <1> HIDE DEF BeganAt
  <1> QED
    BY <1>3, <1>4, <1>5 DEF LongCooldown

\* create_session goes on: the latest session was over and cold.
LEMMA ElapsedClears ==
  ASSUME LongCooldown, IInv, SpacingInv, NEW w \in Workers, LockElapsed(w), ~Finish(w)
  PROVE  Cleared(w)'
  <1> DEFINE p == tx[w].player
             g == tx[w].game
             t == tx[w].at
             due == {r \in Of(p, g) : Elapsed(r, t)}
  <1>0. /\ tx \in [Workers -> Transaction] /\ tx[w] \in Transaction /\ WellFormed(tx[w])
        /\ t \in Int
    BY DEF IInv, TypeOK, Transaction
  <1>1. /\ tx' = [tx EXCEPT ![w].step = "commit", ![w].due = due]
        /\ tx[w].plan = "create" =>
             ~ \E r \in Of(p, g) : /\ IsLatest(r, Of(p, g))
                                   /\ (Active(r) /\ r \notin due) \/ CoolingDown(r, t)
        /\ UNCHANGED rows
        /\ tx[w].step = "elapsed"
    BY DEF LockElapsed, Due
  <1> HIDE DEF due
  <1>2. /\ tx'[w].plan = tx[w].plan /\ tx'[w].due = due /\ tx'[w].at = t
        /\ tx'[w].player = p /\ tx'[w].game = g
    BY <1>0, <1>1 DEF Transaction
  <1>3. p \in Players /\ g \in Games
    BY <1>0, <1>1 DEF WellFormed
  <1>4. ASSUME tx[w].plan = "create", NEW q \in Of(p, g)
        PROVE  sessions[q].created + Cooldown <= t /\ (Active(q) => q \in due)
    <2> DEFINE born(x) == sessions[x].created
    <2>1. \A x \in Of(p, g) : x \in Requests /\ born(x) \in Int /\ born(x) <= now
      BY RowTimes DEF Of
    <2>2. now \in Int /\ Cooldown \in Int
      BY TimeAssumption DEF IInv, TypeOK
    <2>3. PICK m \in Of(p, g) : \A x \in Of(p, g) : born(x) <= born(m)
      <3> DEFINE f == [x \in Of(p, g) |-> born(x)]
      <3>1. f \in [Of(p, g) -> Int] /\ \A x \in Of(p, g) : f[x] = born(x) /\ f[x] <= now
        BY <2>1
      <3> HIDE DEF f
      <3>2. \E m \in Of(p, g) : \A x \in Of(p, g) : f[x] <= f[m]
        BY <1>4, <2>2, <3>1, LatestTime
      <3> QED
        BY <3>1, <3>2
    <2>4. IsLatest(m, Of(p, g))
      <3> SUFFICES ASSUME NEW x \in Of(p, g), Newer(x, m) PROVE FALSE
        BY DEF IsLatest
      <3>1. born(x) \in Int /\ born(m) \in Int /\ born(x) <= born(m) /\ IdOrder[m] \in Nat
        BY <2>1, <2>3, IdOrderAssumption
      <3>2. born(x) = born(m) /\ IdOrder[x] > IdOrder[m]
        BY <3>1 DEF Newer
      <3>3. x = m
        BY <1>3, <3>2, DistinctTimes DEF SpacingInv
      <3> QED
        BY <3>1, <3>2, <3>3
    <2>5. ~CoolingDown(m, t) /\ (Active(m) => m \in due)
      BY <1>1, <1>4, <2>4
    <2>6. born(q) + Cooldown <= t
      <3>1. born(m) + Cooldown <= t
        BY <1>0, <2>1, <2>2, <2>5 DEF CoolingDown
      <3> QED
        BY <1>0, <2>1, <2>2, <2>3, <3>1
    <2>7. Active(q) => q = m
      <3>1. Active(q) /\ q # m => born(m) < born(q)
        BY <1>3 DEF SpacingInv, ActiveIsLatest
      <3>2. born(q) <= born(m) /\ born(q) \in Int /\ born(m) \in Int
        BY <2>1, <2>3
      <3> QED
        BY <3>1, <3>2
    <2> QED
      BY <2>5, <2>6, <2>7
  <1> QED
    BY <1>1, <1>2, <1>4 DEF Cleared, Of, Active, rows

\* A handler that may commit a creation stays cleared, whatever the others commit:
\* only a creation for its player could disturb it, and it holds the player row.
LEMMA ClearedKept ==
  ASSUME IInv, LockInv, [Next]_vars, NEW v \in Workers, Cleared(v), tx'[v] = tx[v]
  PROVE  Cleared(v)'
  <1> DEFINE p == tx[v].player
             g == tx[v].game
  <1> SUFFICES ASSUME tx[v].plan = "create", tx[v].step = "commit", NEW q \in Of(p, g)'
               PROVE  /\ sessions'[q].created + Cooldown <= tx[v].at
                      /\ Active(q)' => q \in tx[v].due
    BY DEF Cleared
  <1>1. p \in Players /\ q \in Requests /\ sessions'[q].player = p /\ sessions'[q].game = g
    BY DEF IInv, TypeOK, WellFormed, Of
  <1>2. ASSUME sessions[q] = NoSession
        PROVE  FALSE
    <2>1. sessions'[q] # sessions[q] /\ ~Ends(q)
      BY <1>1, <1>2, NoneAssumption DEF NoSession, Ends, Active
    <2>2. PICK w \in Workers : Commits(w) /\ Starts(w, q)
      BY <1>1, <2>1, StepMoves, CommitMoves DEF SessionMoves, rows
    <2>3. /\ tx[w].plan = "create" /\ tx[w].step = "commit" /\ tx[w].player = p
          /\ tx'[w] = NoTx
      BY <1>1, <2>2 DEF Starts, CommitCreate, Commit, Finish, IInv, TypeOK
    <2>4. w # v
      BY <2>3 DEF NoTx
    <2>5. HoldsPlayer(w, p) /\ HoldsPlayer(v, p)
      BY <2>3 DEF HoldsPlayer
    <2> QED
      BY <1>1, <2>4, <2>5 DEF LockInv, Exclusive
  <1>3. q \in Of(p, g) /\ sessions'[q].created = sessions[q].created /\ (Active(q)' => Active(q))
    BY <1>1, <1>2, BindingKept DEF Of
  <1> QED
    BY <1>3 DEF Cleared

\* The transactions after one step, when all but one stay as they are.
LEMMA OthersKept ==
  ASSUME IInv, LockInv, SpacingInv, [Next]_vars, NEW w \in Workers, now' = now,
         \A v \in Workers \ {w} : tx'[v] = tx[v],
         Timely(w)', Cleared(w)'
  PROVE  \A v \in Workers : Timely(v)' /\ Cleared(v)'
  BY ClearedKept DEF SpacingInv, Timely, Idle

LEMMA TransactionsSpaced ==
  ASSUME LongCooldown, IInv, LockInv, SpacingInv, [Next]_vars
  PROVE  \A v \in Workers : Timely(v)' /\ Cleared(v)'
  <1>0. /\ tx \in [Workers -> Transaction] /\ now \in Int /\ TxLimit \in Nat
        /\ \A w \in Workers : tx[w].start \in Int
    BY TimeAssumption DEF IInv, TypeOK, Transaction
  <1>1. ASSUME NEW w \in Workers, Finish(w), now' = now
        PROVE  \A v \in Workers : Timely(v)' /\ Cleared(v)'
    <2>1. tx'[w] = NoTx /\ \A v \in Workers \ {w} : tx'[v] = tx[v]
      BY <1>0, <1>1 DEF Finish
    <2>2. Timely(w)' /\ Cleared(w)'
      BY <2>1 DEF Timely, Cleared, Idle, NoTx
    <2> QED
      BY <1>1, <2>1, <2>2, OthersKept
  <1>2. ASSUME NEW w \in Workers, Call(w)
        PROVE  \A v \in Workers : Timely(v)' /\ Cleared(v)'
    <2>1. /\ now' = now /\ \A v \in Workers \ {w} : tx'[v] = tx[v]
          /\ \/ tx'[w] = tx[w]
             \/ tx'[w].start = now /\ (tx'[w].plan # "create" \/ tx'[w].step # "commit")
      <3>1. ASSUME NEW r \in Requests, NEW plan \in SessionPlan, NEW i, Decide(w, r, plan, i)
            PROVE  /\ now' = now /\ \A v \in Workers \ {w} : tx'[v] = tx[v]
                   /\ tx'[w].start = now /\ tx'[w].plan # "create"
        BY <1>0, <3>1 DEF Decide, SessionPlan, NoTx
      <3>2. ASSUME NEW r \in Requests, DecideClaim(w, r)
            PROVE  /\ now' = now /\ \A v \in Workers \ {w} : tx'[v] = tx[v]
                   /\ tx'[w].start = now /\ tx'[w].plan # "create"
        BY <1>0, <3>2 DEF DecideClaim, NoTx
      <3>3. ASSUME NEW p \in Players, NEW g \in Games, RecoverState(w, p, g)
            PROVE  /\ now' = now /\ \A v \in Workers \ {w} : tx'[v] = tx[v]
                   /\ tx'[w].start = now /\ tx'[w].plan # "create"
        BY <1>0, <3>3 DEF RecoverState, NoTx
      <3>4. ASSUME NEW p \in Players, NEW g \in Games, NEW r \in Requests, BeginCreate(w, p, g, r)
            PROVE  /\ now' = now /\ \A v \in Workers \ {w} : tx'[v] = tx[v]
                   /\ tx'[w].start = now /\ tx'[w].step # "commit"
        BY <1>0, <3>4 DEF BeginCreate, NoTx
      <3>5. ASSUME NEW r \in Requests, NEW i \in Intents, ReplayOutcome(w, r, i)
            PROVE  now' = now /\ tx' = tx
        BY <3>5 DEF ReplayOutcome
      <3> QED
        BY <1>2, <3>1, <3>2, <3>3, <3>4, <3>5 DEF Call, DecideExpire, DecideCancel, DecidePlay,
           DecideCommitment, DecideReveal, SessionPlan
    <2>2. CASE tx'[w] = tx[w]
      <3>1. Timely(w)' /\ Cleared(w)'
        BY <2>1, <2>2, ClearedKept DEF SpacingInv, Timely, Idle
      <3> QED
        BY <2>1, <3>1, OthersKept
    <2>3. CASE tx'[w].start = now /\ (tx'[w].plan # "create" \/ tx'[w].step # "commit")
      <3>1. Timely(w)' /\ Cleared(w)'
        BY <1>0, <2>1, <2>3 DEF Timely, Cleared
      <3> QED
        BY <2>1, <3>1, OthersKept
    <2> QED
      BY <2>1, <2>2, <2>3
  <1>3. ASSUME NEW w \in Workers, LockRequest(w) \/ LockPlayer(w), ~Finish(w)
        PROVE  \A v \in Workers : Timely(v)' /\ Cleared(v)'
    <2>1. /\ now' = now /\ \A v \in Workers \ {w} : tx'[v] = tx[v]
          /\ tx'[w].start = tx[w].start /\ tx'[w].step # "commit" /\ ~Idle(w)
      BY <1>0, <1>3 DEF LockRequest, LockPlayer, Transaction, Idle
    <2>2. Timely(w)' /\ Cleared(w)'
      BY <2>1 DEF SpacingInv, Timely, Cleared
    <2> QED
      BY <2>1, <2>2, OthersKept
  <1>4. ASSUME NEW w \in Workers, LockElapsed(w), ~Finish(w)
        PROVE  \A v \in Workers : Timely(v)' /\ Cleared(v)'
    <2>1. /\ now' = now /\ \A v \in Workers \ {w} : tx'[v] = tx[v]
          /\ tx'[w].start = tx[w].start /\ ~Idle(w)
      <3>1. PICK S \in SUBSET Requests : tx' = [tx EXCEPT ![w].step = "commit", ![w].due = S]
        BY <1>4 DEF LockElapsed, Due, Of
      <3> QED
        BY <1>0, <1>4, <3>1 DEF LockElapsed, Transaction, Idle
    <2>2. Timely(w)' /\ Cleared(w)'
      BY <1>4, <2>1, ElapsedClears DEF SpacingInv, Timely
    <2> QED
      BY <2>1, <2>2, OthersKept
  <1>5. CASE Tick
    <2>1. now' = now + 1 /\ UNCHANGED <<rows, tx>>
      BY <1>5 DEF Tick
    <2>2. \A w \in Workers : Timely(w)'
      BY <1>0, <1>5, <2>1 DEF Tick, Timely, Idle
    <2>3. \A w \in Workers : Cleared(w)'
      BY <2>1 DEF SpacingInv, Cleared, Of, Active, rows
    <2> QED
      BY <2>2, <2>3
  <1>6. CASE UNCHANGED vars
    BY <1>6 DEF SpacingInv, Timely, Idle, Cleared, Of, Active, vars, rows
  <1>7. ASSUME NEW w \in Workers, Progress(w) \/ Rollback(w),
               ~LockRequest(w), ~LockPlayer(w), ~LockElapsed(w)
        PROVE  Finish(w) /\ now' = now
    BY <1>7 DEF Progress, Rollback, UniqueViolation, CommitCreate, CommitRecover, CommitExpire,
                CommitCancel, CommitPlay, CommitCommitment, CommitReveal, CommitClaim, Commit
  <1>8. ASSUME NEW w \in Workers, LockRequest(w) \/ LockPlayer(w) \/ LockElapsed(w)
        PROVE  now' = now
    BY <1>8 DEF LockRequest, LockPlayer, LockElapsed
  <1> QED
    BY <1>1, <1>2, <1>3, <1>4, <1>5, <1>6, <1>7, <1>8 DEF Next, Progress

\* A creation commits a session that is later than all others of its player and
\* game.
LEMMA CreationIsLatest ==
  ASSUME LongCooldown, IInv, LockInv, SpacingInv, NEW w \in Workers, NEW r \in Requests,
         Starts(w, r)
  PROVE  /\ BeganAt(r)' = tx[w].at /\ sessions'[r].created = tx[w].start
         /\ tx[w].start <= tx[w].at /\ tx[w].at - tx[w].start <= TxLimit
         /\ \A q \in Of(tx[w].player, tx[w].game) :
              /\ sessions[q].created + Cooldown <= tx[w].at
              /\ sessions[q].created < tx[w].start
              /\ q # r /\ ~Active(q)'
  <1>1. Commit(w, "create") /\ "create" \in Plan
    BY DEF Starts, CommitCreate, Plan
  <1>2. /\ tx[w].at \in Int /\ tx[w].start \in Int /\ tx[w].plan = "create"
        /\ tx[w].step = "commit" /\ tx[w].due \subseteq Requests /\ tx[w].player \in Players
    BY <1>1, CommitFacts DEF WellFormed
  <1>3. Cooldown \in Int /\ TxLimit \in Int /\ Duration \in Int /\ now \in Int
    BY TimeAssumption DEF IInv, TypeOK
  <1>4. tx[w].start <= tx[w].at /\ tx[w].at <= now /\ now - tx[w].start <= TxLimit
    BY <1>2 DEF IInv, ClocksOK, SpacingInv, Timely, Idle
  <1>5. BeganAt(r)' = tx[w].at /\ sessions'[r].created = tx[w].start
    BY <1>2, <1>3 DEF Starts, BeganAt
  <1>6. ASSUME NEW q \in Of(tx[w].player, tx[w].game)
        PROVE  /\ sessions[q].created + Cooldown <= tx[w].at
               /\ sessions[q].created < tx[w].start
               /\ q # r /\ ~Active(q)'
    <2>1. q \in Requests /\ sessions[q].created \in Int
      BY RowTimes DEF Of
    <2>2. sessions[q].created + Cooldown <= tx[w].at /\ (Active(q) => q \in tx[w].due)
      BY <1>2 DEF SpacingInv, Cleared
    <2>3. sessions[q].created < tx[w].start
      BY <1>2, <1>3, <1>4, <2>1, <2>2 DEF LongCooldown
    <2>4. q # r
      BY <1>2, NoneAssumption DEF Starts, Of, NoSession
    <2>5. ~Active(q)'
      <3>1. CASE q \in tx[w].due
        <4>1. sessions'[q] = End(q, "expired", tx[w].at)
          <5>1. Active(q)
            BY <1>1, <3>1, CommitFacts
          <5> QED
            BY <2>1, <2>4, <3>1, <5>1 DEF Starts, CommitCreate, Expire, Active
        <4>2. End(q, "expired", tx[w].at).status = "expired"
          BY <2>1 DEF End, IInv, TypeOK, Session
        <4> QED
          BY <4>1, <4>2 DEF Active
      <3>2. CASE q \notin tx[w].due
        <4>1. sessions'[q] = sessions[q] /\ ~Active(q)
          BY <2>1, <2>2, <2>4, <3>2 DEF Starts, CommitCreate, Expire
        <4> QED
          BY <4>1 DEF Active
      <3> QED
        BY <3>1, <3>2
    <2> QED
      BY <2>2, <2>3, <2>4, <2>5
  <1> QED
    BY <1>2, <1>3, <1>4, <1>5, <1>6

LEMMA RowsSpaced ==
  ASSUME LongCooldown, IInv, LockInv, SpacingInv, [Next]_vars
  PROVE  CreationTimes' /\ ActiveIsLatest' /\ CooldownRespected'
  <1>0. Cooldown \in Int /\ TxLimit \in Int /\ now \in Int
    BY TimeAssumption DEF IInv, TypeOK
  \* A session of a player and game after the step was one before, or is new.
  <1>1. ASSUME NEW p \in Players, NEW g \in Games, NEW r \in Of(p, g)'
        PROVE  /\ r \in Requests
               /\ \/ /\ r \in Of(p, g) /\ sessions'[r].created = sessions[r].created
                     /\ BeganAt(r)' = BeganAt(r) /\ (Active(r)' => Active(r))
                  \/ \E w \in Workers : Starts(w, r) /\ tx[w].player = p /\ tx[w].game = g
    <2>1. r \in Requests /\ sessions'[r].player = p /\ sessions'[r].game = g
      BY DEF Of
    <2>2. CASE sessions[r] = NoSession
      <3>1. sessions'[r] # sessions[r] /\ ~Ends(r)
        BY <2>1, <2>2, NoneAssumption DEF NoSession, Ends, Active
      <3>2. PICK w \in Workers : Starts(w, r)
        BY <2>1, <3>1, StepMoves, CommitMoves DEF SessionMoves, rows
      <3>3. sessions'[r].player = tx[w].player /\ sessions'[r].game = tx[w].game
        BY <3>2 DEF Starts
      <3> QED
        BY <2>1, <3>2, <3>3
    <2>3. CASE sessions[r] # NoSession
      BY <2>1, <2>3, BindingKept DEF Of, BeganAt
    <2> QED
      BY <2>1, <2>2, <2>3
  <1>2. CreationTimes'
    <2> SUFFICES ASSUME NEW r \in Requests, sessions'[r] # NoSession
                 PROVE  /\ sessions'[r].created <= BeganAt(r)'
                        /\ BeganAt(r)' - sessions'[r].created <= TxLimit
      BY DEF CreationTimes
    <2>1. CASE sessions[r] # NoSession
      BY <2>1, BindingKept DEF SpacingInv, CreationTimes, BeganAt
    <2>2. CASE sessions[r] = NoSession
      <3>1. ~Ends(r) /\ sessions'[r] # sessions[r]
        BY <2>2 DEF NoSession, Ends, Active
      <3>2. PICK w \in Workers : Starts(w, r)
        BY <3>1, StepMoves, CommitMoves DEF SessionMoves, rows
      <3> QED
        BY <3>2, CreationIsLatest
    <2> QED
      BY <2>1, <2>2
  \* A new session beside an older one of its player and game.
  <1>3. ASSUME NEW p \in Players, NEW g \in Games, NEW r \in Of(p, g)', NEW q \in Of(p, g)', r # q,
               NEW w \in Workers, Starts(w, r), tx[w].player = p, tx[w].game = g
        PROVE  /\ BeganAt(r)' >= sessions'[q].created + Cooldown
               /\ sessions'[q].created < sessions'[r].created
               /\ ~Active(q)'
    <2>1. r \in Requests /\ q \in Requests
      BY <1>1
    <2>2. q \in Of(p, g) /\ sessions'[q].created = sessions[q].created
      <3>1. \A v \in Workers : ~Starts(v, q)
        <4> SUFFICES ASSUME NEW v \in Workers, Starts(v, q) PROVE FALSE
          OBVIOUS
        <4>1. tx'[w] = NoTx /\ tx'[v] = NoTx /\ tx[w].step = "commit" /\ tx[v].step = "commit"
              /\ \A x \in Workers \ {w} : tx'[x] = tx[x]
          BY <1>3 DEF Starts, CommitCreate, Commit, Finish, IInv, TypeOK
        <4>2. v = w
          BY <4>1 DEF NoTx
        <4> QED
          BY <1>3, <4>2 DEF Starts
      <3> QED
        BY <1>1, <3>1
    <2>3. /\ BeganAt(r)' = tx[w].at /\ sessions'[r].created = tx[w].start
          /\ sessions[q].created + Cooldown <= tx[w].at
          /\ sessions[q].created < tx[w].start /\ ~Active(q)'
      BY <1>3, <2>1, <2>2, CreationIsLatest
    <2>4. sessions[q].created \in Int /\ tx[w].at \in Int
      BY <2>1, RowTimes DEF IInv, TypeOK, Transaction
    <2> QED
      BY <1>0, <2>2, <2>3, <2>4
  <1>4. ActiveIsLatest'
    <2> SUFFICES ASSUME NEW p \in Players, NEW g \in Games, NEW r \in Of(p, g)', NEW q \in Of(p, g)',
                        Active(r)', r # q
                 PROVE  sessions'[q].created < sessions'[r].created
      BY DEF ActiveIsLatest
    <2>1. CASE r \in Of(p, g) /\ sessions'[r].created = sessions[r].created /\ (Active(r)' => Active(r))
      <3>1. CASE q \in Of(p, g) /\ sessions'[q].created = sessions[q].created
        BY <2>1, <3>1 DEF SpacingInv, ActiveIsLatest
      <3>2. CASE \E w \in Workers : Starts(w, q) /\ tx[w].player = p /\ tx[w].game = g
        BY <1>3, <3>2
      <3> QED
        BY <1>1, <3>1, <3>2
    <2>2. CASE \E w \in Workers : Starts(w, r) /\ tx[w].player = p /\ tx[w].game = g
      BY <1>3, <2>2
    <2> QED
      BY <1>1, <2>1, <2>2
  <1>5. CooldownRespected'
    <2> SUFFICES ASSUME NEW p \in Players, NEW g \in Games, NEW r \in Of(p, g)', NEW q \in Of(p, g)',
                        r # q
                 PROVE  \/ BeganAt(r)' >= sessions'[q].created + Cooldown
                        \/ BeganAt(q)' >= sessions'[r].created + Cooldown
      BY DEF CooldownRespected
    <2>1. CASE \E w \in Workers : Starts(w, r) /\ tx[w].player = p /\ tx[w].game = g
      BY <1>3, <2>1
    <2>2. CASE \E w \in Workers : Starts(w, q) /\ tx[w].player = p /\ tx[w].game = g
      BY <1>3, <2>2
    <2>3. CASE /\ r \in Of(p, g) /\ sessions'[r].created = sessions[r].created /\ BeganAt(r)' = BeganAt(r)
               /\ q \in Of(p, g) /\ sessions'[q].created = sessions[q].created /\ BeganAt(q)' = BeganAt(q)
      BY <2>3 DEF SpacingInv, CooldownRespected
    <2> QED
      BY <1>1, <2>1, <2>2, <2>3
  <1> QED
    BY <1>2, <1>4, <1>5

\* No handler that may commit runs into a unique constraint.
LEMMA NoConflict ==
  ASSUME IInv, LockInv, SpacingInv, NEW w \in Workers, tx[w].step = "commit"
  PROVE  ~UniqueConflict(w)
  <1> DEFINE r == tx[w].req
  <1>1. /\ StillHolds(w) /\ WellFormed(tx[w]) /\ Decided(w) /\ Cleared(w)
        /\ \A q \in Requests : RowOK(q)
    BY DEF IInv, TypeOK, DecisionsHold, LockInv, SpacingInv
  <1>2. CASE tx[w].plan = "create"
    BY <1>1, <1>2 DEF UniqueConflict, Decided, Cleared
  <1>3. CASE tx[w].plan \in {"play", "commitment", "reveal"}
    <2>1. r \in Requests /\ Active(r)
      BY <1>1, <1>3 DEF StillHolds, WellFormed, SessionPlan
    <2>2. outcomes[r] = None
      BY <2>1, ActiveIsOpen
    <2>3. tx[w].plan = "reveal" => Len(chain[r]) = 1
      <3>1. tx[w].plan = "reveal" => chain[r] = <<"committed">>
        BY <1>1, <2>1 DEF StillHolds, RowOK, ProofAgrees
      <3> QED
        BY <3>1
    <2> QED
      BY <1>1, <1>3, <2>2, <2>3 DEF UniqueConflict, StillHolds
  <1>4. CASE tx[w].plan = "claim"
    <2>1. r \in Requests /\ rewards[r] = "issued"
      BY <1>1, <1>4 DEF Decided, WellFormed
    <2> QED
      BY <1>1, <1>4, <2>1 DEF UniqueConflict, RowOK, PlayAgrees
  <1>5. CASE tx[w].plan \notin {"create", "play", "commitment", "reveal", "claim"}
    BY <1>5 DEF UniqueConflict
  <1> QED
    BY <1>2, <1>3, <1>4, <1>5

(***************************************************************************)
(* SpacingInv is invariant when the cooldown is long.                      *)
(***************************************************************************)
THEOREM SpacingInvariance ==
  ASSUME LongCooldown
  PROVE  Spec => []SpacingInv
  <1>1. Init => SpacingInv
    <2> SUFFICES ASSUME Init PROVE SpacingInv
      OBVIOUS
    <2>1. \A w \in Workers : tx[w].plan = "none" /\ tx[w].step = "idle"
      BY DEF Init, NoTx
    <2>2. \A p \in Players, g \in Games : Of(p, g) = {}
      BY NoneAssumption DEF Init, Of, NoSession
    <2> QED
      BY <2>1, <2>2 DEF SpacingInv, Timely, Cleared, Idle, CreationTimes, ActiveIsLatest,
                        CooldownRespected, NoUniqueViolation, Init
  <1>2. IInv /\ LockInv /\ SpacingInv /\ [Next]_vars => SpacingInv'
    <2> SUFFICES ASSUME IInv, LockInv, SpacingInv, [Next]_vars PROVE SpacingInv'
      OBVIOUS
    <2>1. NoUniqueViolation'
      <3>1. \A w \in Workers : ~UniqueViolation(w)
        BY NoConflict DEF UniqueViolation
      <3>2. broken' = broken
        <4>1. CASE Tick
          BY <4>1 DEF Tick, history
        <4>2. ASSUME NEW w \in Workers, Call(w)
              PROVE  broken' = broken
          BY <4>2 DEF Call, RecoverState, BeginCreate, DecideExpire, DecideCancel, DecidePlay,
                      DecideCommitment, DecideReveal, DecideClaim, Decide, ReplayOutcome, history
        <4>3. ASSUME NEW w \in Workers, Progress(w)
              PROVE  broken' = broken
          BY <3>1, <4>3 DEF Progress, LockRequest, LockPlayer, LockElapsed, CommitCreate,
             CommitRecover, CommitExpire, CommitCancel, CommitPlay, CommitCommitment, CommitReveal,
             CommitClaim, Commit, history
        <4>4. ASSUME NEW w \in Workers, Rollback(w)
              PROVE  broken' = broken
          BY <4>4 DEF Rollback, history
        <4>5. CASE UNCHANGED vars
          BY <4>5 DEF vars, history
        <4> QED
          BY <4>1, <4>2, <4>3, <4>4, <4>5 DEF Next
      <3> QED
        BY <3>2 DEF SpacingInv, NoUniqueViolation
    <2> QED
      BY <2>1, TransactionsSpaced, RowsSpaced DEF SpacingInv
  <1> QED
    BY <1>1, <1>2, Invariance, LockInvariance, PTL DEF Spec

(***************************************************************************)
(* No call dies on a unique constraint: with a cooldown that is longer     *)
(* than a transaction can stay open, the locks are enough.                 *)
(***************************************************************************)
THEOREM ConstraintsNeverReached ==
  ASSUME LongCooldown
  PROVE  Spec => []NoUniqueViolation
  <1>1. SpacingInv => NoUniqueViolation
    BY DEF SpacingInv
  <1> QED
    BY <1>1, SpacingInvariance, PTL

(***************************************************************************)
(* Of two sessions of one player and game, one began a full cooldown after *)
(* the other was created.                                                  *)
(***************************************************************************)
THEOREM CooldownKept ==
  ASSUME LongCooldown
  PROVE  Spec => []CooldownRespected
  <1>1. SpacingInv => CooldownRespected
    BY DEF SpacingInv
  <1> QED
    BY <1>1, SpacingInvariance, PTL

(***************************************************************************)
(* retrieve_player_game_state finds the active session: it is the latest.  *)
(***************************************************************************)
THEOREM ActiveIsRecovered ==
  ASSUME LongCooldown
  PROVE  Spec => []RecoveryFindsActive
  <1>1. IInv /\ SpacingInv => RecoveryFindsActive
    <2> SUFFICES ASSUME IInv, SpacingInv, NEW p \in Players, NEW g \in Games,
                        NEW r \in Of(p, g), NEW q \in Of(p, g), Active(r)
                 PROVE  sessions[q].created <= sessions[r].created
      BY DEF RecoveryFindsActive
    <2>1. sessions[q].created \in Int /\ sessions[r].created \in Int
      BY RowTimes DEF Of
    <2>2. r = q \/ sessions[q].created < sessions[r].created
      BY DEF SpacingInv, ActiveIsLatest
    <2> QED
      BY <2>1, <2>2
  <1> QED
    BY <1>1, Invariance, SpacingInvariance, PTL

==============================================================================
