------------------------- MODULE GameSessions_proofs ------------------------
(* Machine-checked properties of GameSessions, for all values of its constants. *)
EXTENDS GameSessions, SequenceTheorems, TLAPS

\* Appending to the event chains that occur.
LEMMA AppendFirst ==
  ASSUME NEW S, NEW a \in S
  PROVE  Append(<<>>, a) = <<a>>
  <1> DEFINE s == Append(<<>>, a)
             t == <<a>>
  <1>1. s \in Seq(S) /\ Len(s) = 1 /\ s[1] = a
    <2>1. <<>> \in Seq(S) /\ Len(<<>>) = 0
      BY EmptySeq
    <2> QED
      BY <2>1, AppendProperties, SMT
  <1>2. t \in Seq(S) /\ Len(t) = 1 /\ t[1] = a
    OBVIOUS
  <1> HIDE DEF s, t
  <1>3. s = t
    BY <1>1, <1>2, SeqEqual
  <1> QED
    BY <1>3 DEF s, t

LEMMA AppendSecond ==
  ASSUME NEW S, NEW a \in S, NEW b \in S
  PROVE  Append(<<a>>, b) = <<a, b>>
  <1> DEFINE s == Append(<<a>>, b)
             t == <<a, b>>
  <1>1. s \in Seq(S) /\ Len(s) = 2 /\ s[1] = a /\ s[2] = b
    <2>1. <<a>> \in Seq(S) /\ Len(<<a>>) = 1 /\ <<a>>[1] = a
      OBVIOUS
    <2> QED
      BY <2>1, AppendProperties, SMT
  <1>2. t \in Seq(S) /\ Len(t) = 2 /\ t[1] = a /\ t[2] = b
    OBVIOUS
  <1> HIDE DEF s, t
  <1>3. s = t
    BY <1>1, <1>2, SeqEqual
  <1> QED
    BY <1>3 DEF s, t

------------------------------------------------------------------------------
(***************************************************************************)
(* Type correctness.                                                       *)
(***************************************************************************)
LEMMA NoTxType == NoTx \in Transaction /\ WellFormed(NoTx)
  BY DEF NoTx, Transaction, WellFormed, Step, Plan, SessionPlan, Unset

LEMMA NoSessionType == NoSession \in Session
  BY DEF NoSession, Session, SessionStatus, Unset

TxType == tx \in [Workers -> Transaction] /\ \A w \in Workers : WellFormed(tx[w])

\* A step that replaces one transaction by a typed one keeps them all typed.
LEMMA TxUpdate ==
  ASSUME TypeOK, NEW w \in Workers, NEW t \in Transaction, WellFormed(t),
         tx' = [tx EXCEPT ![w] = t]
  PROVE  TxType'
  BY DEF TypeOK, TxType

LEMMA FinishType ==
  ASSUME TypeOK, NEW w \in Workers, Finish(w)
  PROVE  TxType'
  BY NoTxType, TxUpdate DEF Finish

\* What every commit leaves typed, and the types of what it writes.
LEMMA CommitType ==
  ASSUME TypeOK, NEW w \in Workers, NEW plan \in Plan, Commit(w, plan)
  PROVE  /\ now' = now /\ broken' = broken
         /\ TxType'
         /\ tx[w].plan = plan /\ tx[w].step = "commit"
         /\ WellFormed(tx[w])
         /\ tx[w].at \in Int /\ tx[w].start \in Int
         /\ tx[w].due \subseteq Requests
  BY FinishType DEF Commit, TypeOK, Transaction

LEMMA EndType ==
  ASSUME TypeOK, NEW r \in Requests, NEW st \in SessionStatus, NEW t \in Int
  PROVE  End(r, st, t) \in Session
  BY DEF End, TypeOK, Session

LEMMA ExpireType ==
  ASSUME TypeOK, NEW S, NEW t \in Int
  PROVE  Expire(S, t) \in [Requests -> Session]
  <1>1. "expired" \in SessionStatus  BY DEF SessionStatus
  <1>2. \A r \in Requests : End(r, "expired", t) \in Session  BY <1>1, EndType
  <1>3. \A r \in Requests : sessions[r] \in Session  BY DEF TypeOK
  <1> QED  BY <1>2, <1>3 DEF Expire

LEMMA EndProofsType ==
  ASSUME TypeOK, NEW S, NEW st \in ProofStatus, EndProofs(S, st)
  PROVE  /\ proofs' \in [Requests -> ProofStatus]
         /\ custody' \subseteq Requests
         /\ chain' \in [Requests -> Seq(ProofStatus)]
  <1>1. \A r \in Requests : Append(chain[r], st) \in Seq(ProofStatus)
    BY DEF TypeOK
  <1> QED  BY <1>1 DEF EndProofs, TypeOK

\* A handler that has locked its session opens a typed transaction.
LEMMA DecideType ==
  ASSUME TypeOK, NEW w \in Workers, NEW r \in Requests, NEW plan \in SessionPlan \cup {"claim"},
         NEW i \in Intents \cup {None}, plan \in {"play", "reveal"} => i \in Intents,
         tx' = [tx EXCEPT ![w] = [NoTx EXCEPT !.step = "commit", !.plan = plan, !.req = r,
                                  !.intent = i, !.start = now, !.at = now]]
  PROVE  TxType'
  <1> DEFINE new == [NoTx EXCEPT !.step = "commit", !.plan = plan, !.req = r,
                                 !.intent = i, !.start = now, !.at = now]
  <1>1. now \in Int
    BY TimeAssumption DEF TypeOK
  <1>2. new \in Transaction
    BY <1>1, NoTxType DEF Transaction, NoTx, Step, Plan, SessionPlan
  <1>3. WellFormed(new)
    BY DEF NoTx, WellFormed, SessionPlan
  <1> QED
    BY <1>2, <1>3, TxUpdate

\* The steps that open a transaction or wait for a lock leave every row alone.
LEMMA CallType ==
  ASSUME TypeOK, NEW w \in Workers, Call(w)
  PROVE  TypeOK'
  <1>1. now \in Int
    BY TimeAssumption DEF TypeOK
  <1>2. ASSUME NEW p \in Players, NEW g \in Games, RecoverState(w, p, g)
        PROVE  TypeOK'
    <2> DEFINE new == [NoTx EXCEPT !.step = "elapsed", !.plan = "recover", !.player = p,
                                   !.game = g, !.start = now, !.at = now]
    <2>1. new \in Transaction /\ WellFormed(new)
      BY <1>1 DEF Transaction, WellFormed, NoTx, Step, Plan, SessionPlan
    <2>2. TxType'
      BY <1>2, <2>1, TxUpdate DEF RecoverState
    <2> QED
      BY <1>2, <2>2 DEF TypeOK, TxType, RecoverState, rows, history
  <1>3. ASSUME NEW p \in Players, NEW g \in Games, NEW r \in Requests, BeginCreate(w, p, g, r)
        PROVE  TypeOK'
    <2> DEFINE new == [NoTx EXCEPT !.step = "request", !.plan = "create", !.player = p,
                                   !.game = g, !.req = r, !.start = now]
    <2>1. new \in Transaction /\ WellFormed(new)
      <3>1. new \in Transaction
        BY <1>1, NoTxType DEF Transaction, NoTx, Step, Plan
      <3>2. WellFormed(new)
        BY DEF WellFormed, NoTx, SessionPlan
      <3> QED
        BY <3>1, <3>2
    <2>2. TxType'
      BY <1>3, <2>1, TxUpdate DEF BeginCreate
    <2> QED
      BY <1>3, <2>2 DEF TypeOK, TxType, BeginCreate, rows, history
  <1>4. ASSUME NEW r \in Requests, NEW plan \in SessionPlan, NEW i \in Intents \cup {None},
               plan \in {"play", "reveal"} => i \in Intents, Decide(w, r, plan, i)
        PROVE  TypeOK'
    <2>1. TxType'
      BY <1>4, DecideType DEF Decide
    <2> QED
      BY <1>4, <2>1 DEF TypeOK, TxType, Decide, rows, history
  <1>5. ASSUME NEW r \in Requests, DecideClaim(w, r)
        PROVE  TypeOK'
    <2> DEFINE new == [NoTx EXCEPT !.step = "commit", !.plan = "claim", !.req = r,
                                   !.start = now, !.at = now]
    <2>1. new \in Transaction /\ WellFormed(new)
      BY <1>1 DEF Transaction, WellFormed, NoTx, Step, Plan, SessionPlan, Unset
    <2>2. TxType'
      BY <1>5, <2>1, TxUpdate DEF DecideClaim
    <2> QED
      BY <1>5, <2>2 DEF TypeOK, TxType, DecideClaim, rows, history
  <1>6. ASSUME NEW r \in Requests, NEW i \in Intents, ReplayOutcome(w, r, i)
        PROVE  TypeOK'
    BY <1>6 DEF TypeOK, ReplayOutcome, rows
  <1> QED
    BY <1>2, <1>3, <1>4, <1>5, <1>6 DEF Call, DecideExpire, DecideCancel, DecidePlay,
       DecideCommitment, DecideReveal, SessionPlan

LEMMA WaitType ==
  ASSUME TypeOK, NEW w \in Workers, LockRequest(w) \/ LockPlayer(w) \/ LockElapsed(w)
  PROVE  TypeOK'
  <1>1. /\ tx[w] \in Transaction /\ WellFormed(tx[w])
        /\ now \in Int /\ tx \in [Workers -> Transaction]
    BY TimeAssumption DEF TypeOK
  <1>2. CASE LockRequest(w)
    <2> DEFINE new == [tx[w] EXCEPT !.step = "player"]
    <2>1. tx' = [tx EXCEPT ![w] = new]
      BY <1>1, <1>2 DEF LockRequest
    <2>2. new \in Transaction /\ WellFormed(new)
      BY <1>1, <1>2 DEF LockRequest, Transaction, WellFormed, Step
    <2>3. TxType'
      BY <2>1, <2>2, TxUpdate
    <2> QED
      BY <1>2, <2>3 DEF TypeOK, TxType, LockRequest, rows, history
  <1>3. CASE LockPlayer(w)
    <2> DEFINE new == [tx[w] EXCEPT !.step = "elapsed", !.at = now]
    <2>1. new \in Transaction /\ WellFormed(new)
      BY <1>1, <1>3 DEF LockPlayer, Transaction, WellFormed, Step
    <2>2. ASSUME tx' = [tx EXCEPT ![w] = new]
          PROVE  TxType'
      BY <2>1, <2>2, TxUpdate
    <2>3. tx' = [tx EXCEPT ![w] = new] \/ Finish(w)
      BY <1>1, <1>3 DEF LockPlayer
    <2>4. TxType'
      BY <2>2, <2>3, FinishType
    <2>5. created' \subseteq Requests \X Players \X Games
      <3>1. tx[w].req \in Requests /\ tx[w].player \in Players /\ tx[w].game \in Games
        BY <1>1, <1>3 DEF LockPlayer, WellFormed
      <3> QED
        BY <1>3, <3>1 DEF LockPlayer, TypeOK
    <2> QED
      BY <1>3, <2>4, <2>5 DEF TypeOK, TxType, LockPlayer, rows
  <1>4. CASE LockElapsed(w)
    <2> DEFINE due == {r \in Of(tx[w].player, tx[w].game) : Elapsed(r, tx[w].at)}
               new == [tx[w] EXCEPT !.step = "commit", !.due = due]
    <2>1. due \in SUBSET Requests
      BY DEF Of
    <2>2. tx' = [tx EXCEPT ![w] = new] \/ Finish(w)
      BY <1>1, <1>4 DEF LockElapsed, Due
    <2> HIDE DEF due
    <2>3. new \in Transaction /\ WellFormed(new)
      BY <1>1, <1>4, <2>1 DEF LockElapsed, Transaction, WellFormed, Step
    <2>4. TxType'
      BY <2>2, <2>3, TxUpdate, FinishType
    <2> QED
      BY <1>4, <2>4 DEF TypeOK, TxType, LockElapsed, rows, history
  <1> QED
    BY <1>2, <1>3, <1>4

\* Every commit leaves typed rows.
LEMMA CommitsType ==
  ASSUME TypeOK, NEW w \in Workers,
         \/ CommitCreate(w) \/ CommitRecover(w) \/ CommitExpire(w) \/ CommitCancel(w)
         \/ CommitPlay(w) \/ CommitCommitment(w) \/ CommitReveal(w) \/ CommitClaim(w)
  PROVE  TypeOK'
  <1> DEFINE r == tx[w].req
  <1>0. /\ \A st \in {"committed", "revealed", "expired", "cancelled"} : st \in ProofStatus
        /\ \A st \in {"active", "completed", "expired", "cancelled"} : st \in SessionStatus
        /\ \A st \in {"issued", "claimed"} : st \in RewardStatus
    BY DEF ProofStatus, SessionStatus, RewardStatus
  <1>1. ASSUME NEW st \in SessionStatus, NEW t \in Int, NEW q \in Requests
        PROVE  [sessions EXCEPT ![q] = End(q, st, t)] \in [Requests -> Session]
    BY <1>1, EndType DEF TypeOK
  <1>2. ASSUME NEW q \in Requests, NEW st \in ProofStatus
        PROVE  [chain EXCEPT ![q] = Append(@, st)] \in [Requests -> Seq(ProofStatus)]
    BY <1>2 DEF TypeOK
  <1> DEFINE Typed(plan) == /\ now' = now /\ broken' = broken /\ TxType'
                            /\ WellFormed(tx[w]) /\ tx[w].plan = plan
                            /\ tx[w].at \in Int /\ tx[w].start \in Int
                            /\ tx[w].due \subseteq Requests
  <1>3. \A plan \in Plan : Commit(w, plan) => Typed(plan)
    BY CommitType
  <1> HIDE DEF Typed
  <1>4. CASE CommitCreate(w)
    <2>1. Typed("create")
      BY <1>3, <1>4 DEF CommitCreate, Plan
    <2>2. r \in Requests /\ tx[w].player \in Players /\ tx[w].game \in Games
      BY <2>1 DEF Typed, WellFormed
    <2>3. sessions' \in [Requests -> Session]
      <3> DEFINE new == [status |-> "active", player |-> tx[w].player, game |-> tx[w].game,
                         created |-> tx[w].start, expires |-> tx[w].at + Duration, ended |-> Unset]
      <3>1. new \in Session
        BY <2>1, <2>2, TimeAssumption DEF Typed, Session, SessionStatus, Unset
      <3>2. Expire(tx[w].due, tx[w].at) \in [Requests -> Session]
        BY <2>1, ExpireType DEF Typed
      <3>3. sessions' = [Expire(tx[w].due, tx[w].at) EXCEPT ![r] = new]
        BY <1>4 DEF CommitCreate
      <3> QED
        BY <3>1, <3>2, <3>3
    <2>4. EndProofs(tx[w].due, "expired")
      BY <1>4 DEF CommitCreate
    <2>5. evidence' \subseteq EventType \X Requests
      BY <1>4, <2>2 DEF CommitCreate, TypeOK, EventType
    <2>6. created' \subseteq Requests \X Players \X Games
      BY <1>4, <2>2 DEF CommitCreate, TypeOK
    <2> QED
      BY <1>0, <1>4, <2>1, <2>3, <2>4, <2>5, <2>6, EndProofsType
         DEF CommitCreate, TypeOK, Typed, TxType
  <1>5. CASE CommitRecover(w)
    <2>1. Typed("recover")
      BY <1>3, <1>5 DEF CommitRecover, Plan
    <2>2. sessions' \in [Requests -> Session]
      BY <1>5, <2>1, ExpireType DEF CommitRecover, Typed
    <2>3. EndProofs(tx[w].due, "expired")
      BY <1>5 DEF CommitRecover
    <2> QED
      BY <1>0, <1>5, <2>1, <2>2, <2>3, EndProofsType DEF CommitRecover, TypeOK, Typed, TxType
  <1>6. CASE CommitExpire(w)
    <2>1. Typed("expire")
      BY <1>3, <1>6 DEF CommitExpire, Plan
    <2>2. sessions' \in [Requests -> Session]
      BY <1>6, <2>1, ExpireType DEF CommitExpire, Typed
    <2>3. EndProofs({r}, "expired")
      BY <1>6 DEF CommitExpire
    <2> QED
      BY <1>0, <1>6, <2>1, <2>2, <2>3, EndProofsType DEF CommitExpire, TypeOK, Typed, TxType
  <1>7. CASE CommitCancel(w)
    <2>1. Typed("cancel")
      BY <1>3, <1>7 DEF CommitCancel, Plan
    <2>2. r \in Requests
      BY <2>1 DEF Typed, WellFormed, SessionPlan
    <2>3. sessions' \in [Requests -> Session]
      BY <1>0, <1>1, <1>7, <2>1, <2>2 DEF CommitCancel, Typed
    <2>4. EndProofs({r}, "cancelled")
      BY <1>7 DEF CommitCancel
    <2> QED
      BY <1>0, <1>7, <2>1, <2>3, <2>4, EndProofsType DEF CommitCancel, TypeOK, Typed, TxType
  <1>8. ASSUME NEW plan \in {"play", "reveal"}, Typed(plan), Complete(w)
        PROVE  /\ sessions' \in [Requests -> Session]
               /\ outcomes' \in [Requests -> Intents \cup {None}]
               /\ rewards' \in [Requests -> RewardStatus]
               /\ evidence' \subseteq EventType \X Requests
               /\ answers' \subseteq Requests \X Intents
               /\ created' = created
               /\ r \in Requests
    <2>1. r \in Requests /\ tx[w].intent \in Intents
      BY <1>8 DEF Typed, WellFormed, SessionPlan
    <2>2. sessions' \in [Requests -> Session]
      BY <1>0, <1>1, <1>8, <2>1 DEF Complete, Typed
    <2>3. evidence' \subseteq EventType \X Requests
      BY <1>8, <2>1 DEF Complete, TypeOK, EventType
    <2> QED
      BY <1>0, <1>8, <2>1, <2>2, <2>3 DEF Complete, TypeOK
  <1>9. CASE CommitPlay(w)
    <2>1. Typed("play") /\ Complete(w)
      BY <1>3, <1>9 DEF CommitPlay, Plan
    <2> QED
      BY <1>8, <1>9, <2>1 DEF CommitPlay, TypeOK, Typed, TxType
  <1>10. CASE CommitReveal(w)
    <2>1. Typed("reveal") /\ Complete(w)
      BY <1>3, <1>10 DEF CommitReveal, Plan
    <2>2. r \in Requests
      BY <1>8, <2>1
    <2>3. proofs' \in [Requests -> ProofStatus] /\ chain' \in [Requests -> Seq(ProofStatus)]
      BY <1>0, <1>2, <1>10, <2>2 DEF CommitReveal, TypeOK
    <2> QED
      BY <1>8, <1>10, <2>1, <2>3 DEF CommitReveal, TypeOK, Typed, TxType
  <1>11. CASE CommitCommitment(w)
    <2>1. Typed("commitment")
      BY <1>3, <1>11 DEF CommitCommitment, Plan
    <2>2. r \in Requests
      BY <2>1 DEF Typed, WellFormed, SessionPlan
    <2>3. proofs' \in [Requests -> ProofStatus] /\ chain' \in [Requests -> Seq(ProofStatus)]
      BY <1>0, <1>2, <1>11, <2>2 DEF CommitCommitment, TypeOK
    <2> QED
      BY <1>11, <2>1, <2>2, <2>3 DEF CommitCommitment, TypeOK, Typed, TxType
  <1>12. CASE CommitClaim(w)
    <2>1. Typed("claim")
      BY <1>3, <1>12 DEF CommitClaim, Plan
    <2>2. r \in Requests
      BY <2>1 DEF Typed, WellFormed
    <2>3. evidence' \subseteq EventType \X Requests
      BY <1>12, <2>2 DEF CommitClaim, TypeOK, EventType
    <2> QED
      BY <1>0, <1>12, <2>1, <2>2, <2>3 DEF CommitClaim, TypeOK, Typed, TxType
  <1> QED
    BY <1>4, <1>5, <1>6, <1>7, <1>9, <1>10, <1>11, <1>12

(***************************************************************************)
(* Every reachable state of GameSessions is well typed: TypeOK.            *)
(***************************************************************************)
THEOREM TypeCorrect == Spec => []TypeOK
  <1>1. Init => TypeOK
    BY NoTxType, NoSessionType, TimeAssumption DEF Init, TypeOK, ProofStatus, RewardStatus
  <1>2. TypeOK /\ [Next]_vars => TypeOK'
    <2> SUFFICES ASSUME TypeOK, [Next]_vars PROVE TypeOK'
      OBVIOUS
    <2>1. CASE Tick
      <3>1. now' \in 0..MaxTime
        BY <2>1, TimeAssumption DEF TypeOK, Tick
      <3> QED
        BY <2>1, <3>1 DEF TypeOK, Tick, rows, history
    <2>2. ASSUME NEW w \in Workers, Call(w)
          PROVE  TypeOK'
      BY <2>2, CallType
    <2>3. ASSUME NEW w \in Workers, Progress(w), ~UniqueViolation(w)
          PROVE  TypeOK'
      BY <2>3, WaitType, CommitsType DEF Progress
    <2>4. ASSUME NEW w \in Workers, UniqueViolation(w)
          PROVE  TypeOK'
      <3>1. TxType'
        BY <2>4, FinishType DEF UniqueViolation
      <3>2. tx[w].plan \in Plan
        BY DEF TypeOK, Transaction
      <3> QED
        BY <2>4, <3>1, <3>2 DEF UniqueViolation, TypeOK, TxType, rows
    <2>5. ASSUME NEW w \in Workers, Rollback(w)
          PROVE  TypeOK'
      <3>1. TxType'
        BY <2>5, FinishType DEF Rollback
      <3> QED
        BY <2>5, <3>1 DEF Rollback, TypeOK, TxType, rows, history
    <2>6. CASE UNCHANGED vars
      BY <2>6 DEF TypeOK, vars, rows, history
    <2> QED
      BY <2>1, <2>2, <2>3, <2>4, <2>5, <2>6 DEF Next
  <1> QED
    BY <1>1, <1>2, PTL DEF Spec

------------------------------------------------------------------------------
(***************************************************************************)
(* Agreement of the rows.  The inductive invariant adds to the properties  *)
(* of the rows that decisions still hold when they are committed, which is *)
(* what the row locks are for, and a few facts about shapes and clocks.    *)
(***************************************************************************)
Shaped(r) ==
  /\ sessions[r].status = "absent" <=> sessions[r] = NoSession
  /\ sessions[r].status # "absent" => sessions[r].player \in Players /\ sessions[r].game \in Games
  /\ sessions[r].created <= now

RowOK(r) == PlayAgrees(r) /\ ProofAgrees(r) /\ EndsInTime(r) /\ Shaped(r)

ClocksOK(w) ==
  /\ tx[w].start <= now /\ tx[w].at <= now
  /\ tx[w].step \in {"elapsed", "commit"} => tx[w].start <= tx[w].at
  /\ tx[w].plan \notin {"create", "recover"} => tx[w].due = {}

IInv ==
  /\ TypeOK
  /\ \A r \in Requests : RowOK(r)
  /\ \A w \in Workers : ClocksOK(w)
  /\ DecisionsHold

\* A row none of whose columns changes keeps its agreement as the clock advances.
LEMMA RowKept ==
  ASSUME NEW r \in Requests, TypeOK, TypeOK', RowOK(r), now <= now',
         sessions'[r] = sessions[r], proofs'[r] = proofs[r], r \in custody' <=> r \in custody,
         chain'[r] = chain[r], outcomes'[r] = outcomes[r], rewards'[r] = rewards[r],
         \A e \in EventType : <<e, r>> \in evidence' <=> <<e, r>> \in evidence
  PROVE  RowOK(r)'
  <1>1. PlayAgrees(r)'
    BY DEF RowOK, PlayAgrees, Fair, EventType
  <1>2. ProofAgrees(r)'
    BY DEF RowOK, ProofAgrees, Fair, Active
  <1>3. EndsInTime(r)'
    BY DEF RowOK, EndsInTime
  <1>4. Shaped(r)'
    <2>1. sessions[r].created \in Int /\ now \in Int /\ now' \in Int
      BY TimeAssumption DEF TypeOK, Session
    <2> QED
      BY <2>1 DEF RowOK, Shaped
  <1> QED
    BY <1>1, <1>2, <1>3, <1>4 DEF RowOK

\* What EndProofs does to one proof.
LEMMA EndProofsAt ==
  ASSUME TypeOK, NEW S, NEW st, EndProofs(S, st), NEW r \in Requests
  PROVE  /\ r \in S /\ proofs[r] = "committed" =>
              proofs'[r] = st /\ r \notin custody' /\ chain'[r] = Append(chain[r], st)
         /\ ~(r \in S /\ proofs[r] = "committed") =>
              proofs'[r] = proofs[r] /\ (r \in custody' <=> r \in custody) /\ chain'[r] = chain[r]
  BY DEF EndProofs, TypeOK

\* An active session that stops, with its proof, keeps its row in agreement.
LEMMA RowStopped ==
  ASSUME NEW r \in Requests, NEW st \in {"expired", "cancelled"}, NEW t \in Int, NEW S,
         TypeOK, TypeOK', RowOK(r), now' = now, Active(r), r \in S, EndProofs(S, st),
         sessions'[r] = End(r, st, t),
         st = "expired" => sessions[r].expires <= t,
         st = "cancelled" => t < sessions[r].expires /\ sessions[r].created <= t,
         outcomes'[r] = outcomes[r], rewards'[r] = rewards[r],
         \A e \in EventType : <<e, r>> \in evidence' <=> <<e, r>> \in evidence
  PROVE  RowOK(r)'
  <1>1. sessions[r] \in Session /\ sessions'[r] \in Session
    BY DEF TypeOK
  <1>2. /\ sessions'[r].status = st /\ sessions'[r].ended = t
        /\ sessions'[r].player = sessions[r].player /\ sessions'[r].game = sessions[r].game
        /\ sessions'[r].created = sessions[r].created /\ sessions'[r].expires = sessions[r].expires
    BY <1>1 DEF End, Session
  <1>3. /\ proofs[r] = "committed" =>
              proofs'[r] = st /\ r \notin custody' /\ chain'[r] = Append(chain[r], st)
        /\ proofs[r] # "committed" =>
              proofs'[r] = proofs[r] /\ (r \in custody' <=> r \in custody) /\ chain'[r] = chain[r]
    BY EndProofsAt
  <1>4. sessions[r] # NoSession /\ sessions'[r] # NoSession
    BY <1>2 DEF Active, NoSession
  <1>5. PlayAgrees(r)'
    BY <1>2, <1>3, <1>4 DEF RowOK, PlayAgrees, Fair, EventType, Active
  <1>6. ProofAgrees(r)'
    <2>1. proofs[r] = "committed" => chain[r] = <<"committed">> /\ r \in custody
      BY DEF RowOK, ProofAgrees
    <2>2. Append(<<"committed">>, st) = <<"committed", st>>
      <3>1. "committed" \in ProofStatus /\ st \in ProofStatus
        BY DEF ProofStatus
      <3> QED
        BY <3>1, AppendSecond
    <2>3. proofs[r] \in {"absent", "committed"}
      BY DEF TypeOK, ProofStatus, RowOK, ProofAgrees, PlayAgrees, Active
    <2>4. CASE proofs[r] = "committed"
      <3>1. proofs'[r] = st /\ r \notin custody' /\ chain'[r] = <<"committed", st>>
        BY <1>3, <2>1, <2>2, <2>4
      <3>2. sessions'[r].status = st
        BY <1>2
      <3> QED
        BY <3>1, <3>2 DEF ProofAgrees
    <2>5. CASE proofs[r] = "absent"
      BY <1>2, <1>3, <2>5 DEF RowOK, ProofAgrees
    <2> QED
      BY <2>3, <2>4, <2>5
  <1>7. EndsInTime(r)'
    BY <1>1, <1>2 DEF EndsInTime, Session
  <1>8. Shaped(r)'
    BY <1>1, <1>2, <1>4 DEF RowOK, Shaped, Active
  <1> QED
    BY <1>5, <1>6, <1>7, <1>8 DEF RowOK

\* An active session that is played out, with its proof if its game has one.
LEMMA RowCompleted ==
  ASSUME NEW w \in Workers, NEW r \in Requests, TypeOK, TypeOK', RowOK(r), now' = now,
         r = tx[w].req, tx[w].intent \in Intents, StillHolds(w), Complete(w),
         \/ tx[w].plan = "play" /\ UNCHANGED <<proofs, custody, chain>>
         \/ /\ tx[w].plan = "reveal" /\ UNCHANGED custody
            /\ proofs' = [proofs EXCEPT ![r] = "revealed"]
            /\ chain' = [chain EXCEPT ![r] = Append(@, "revealed")]
  PROVE  RowOK(r)'
  <1>1. sessions[r] \in Session /\ sessions'[r] \in Session /\ tx[w].at \in Int
    BY DEF TypeOK, Transaction
  <1>2. /\ Active(r) /\ sessions[r].created <= tx[w].at /\ tx[w].at < sessions[r].expires
        /\ tx[w].plan = "play" => ~Fair(r)
        /\ tx[w].plan = "reveal" => proofs[r] = "committed"
    BY DEF StillHolds, SessionPlan
  <1>3. sessions'[r] = End(r, "completed", tx[w].at)
    BY DEF Complete, TypeOK
  <1>4. /\ sessions'[r].status = "completed" /\ sessions'[r].ended = tx[w].at
        /\ sessions'[r].player = sessions[r].player /\ sessions'[r].game = sessions[r].game
        /\ sessions'[r].created = sessions[r].created /\ sessions'[r].expires = sessions[r].expires
    BY <1>1, <1>3 DEF End, Session
  <1>5. sessions[r] # NoSession /\ sessions'[r] # NoSession
    BY <1>2, <1>4 DEF Active, NoSession
  <1>6. /\ outcomes'[r] = tx[w].intent /\ outcomes'[r] # None
        /\ rewards'[r] = "issued"
        /\ evidence' = evidence \cup {<<"game_played", r>>, <<"reward_issued", r>>}
    BY NoneAssumption DEF Complete, TypeOK
  <1>7. proofs[r] # "revealed" /\ <<"reward_claimed", r>> \notin evidence
        /\ <<"session_started", r>> \in evidence
    BY <1>2, <1>5 DEF RowOK, PlayAgrees, Active
  <1>8. Fair(r)' <=> Fair(r)
    BY <1>4 DEF Fair
  <1>9. /\ tx[w].plan = "play" => proofs'[r] = "absent"
        /\ tx[w].plan = "reveal" => proofs'[r] = "revealed" /\ Fair(r)
    BY <1>2, <1>7 DEF TypeOK, ProofStatus, RowOK, ProofAgrees, Active
  <1>10. PlayAgrees(r)'
    <2>1. proofs'[r] = "revealed" <=> Fair(r)'
      BY <1>2, <1>8, <1>9
    <2>2. <<"reward_claimed", r>> \notin evidence' /\ <<"session_started", r>> \in evidence'
      BY <1>6, <1>7
    <2>3. {<<"game_played", r>>, <<"reward_issued", r>>} \subseteq evidence'
      BY <1>6
    <2> QED
      BY <1>4, <1>5, <1>6, <2>1, <2>2, <2>3 DEF PlayAgrees
  <1>11. ProofAgrees(r)'
    <2>1. CASE tx[w].plan = "play"
      <3>1. proofs[r] = "absent" /\ r \notin custody' /\ chain'[r] = <<>>
        BY <1>9, <2>1 DEF RowOK, ProofAgrees
      <3> QED
        BY <1>9, <2>1, <3>1 DEF ProofAgrees
    <2>2. CASE tx[w].plan = "reveal"
      <3>1. chain[r] = <<"committed">> /\ r \in custody'
        BY <1>2, <2>2 DEF RowOK, ProofAgrees
      <3>2. "committed" \in ProofStatus /\ "revealed" \in ProofStatus
        BY DEF ProofStatus
      <3>3. Append(<<"committed">>, "revealed") = <<"committed", "revealed">>
        BY <3>2, AppendSecond
      <3>4. chain'[r] = <<"committed", "revealed">>
        BY <2>2, <3>1, <3>3 DEF TypeOK
      <3> QED
        BY <1>9, <2>2, <3>1, <3>4 DEF ProofAgrees
    <2> QED
      BY <2>1, <2>2
  <1>12. EndsInTime(r)'
    BY <1>1, <1>2, <1>4 DEF EndsInTime
  <1>13. Shaped(r)'
    BY <1>4, <1>5, <1>2 DEF RowOK, Shaped, Active
  <1> QED
    BY <1>10, <1>11, <1>12, <1>13 DEF RowOK

\* A request that has no session yet has no other row either.
LEMMA Unborn ==
  ASSUME NEW r \in Requests, TypeOK, RowOK(r), sessions[r] = NoSession
  PROVE  /\ outcomes[r] = None /\ rewards[r] = "absent" /\ proofs[r] = "absent"
         /\ r \notin custody /\ chain[r] = <<>> /\ ~Active(r)
         /\ <<"reward_claimed", r>> \notin evidence
         /\ ~ {<<"game_played", r>>, <<"reward_issued", r>>} \subseteq evidence
  <1>1. sessions[r].status = "absent" /\ ~Active(r)
    BY DEF NoSession, Active
  <1>2. outcomes[r] = None /\ rewards[r] = "absent" /\ proofs[r] # "revealed"
    BY <1>1 DEF RowOK, PlayAgrees
  <1>3. proofs[r] = "absent"
    BY <1>1, <1>2 DEF RowOK, ProofAgrees, TypeOK, ProofStatus
  <1> QED
    BY <1>1, <1>2, <1>3 DEF RowOK, ProofAgrees, PlayAgrees

------------------------------------------------------------------------------
(***************************************************************************)
(* The commits preserve the agreement of the rows, and touch no row that   *)
(* another handler's decision is about.                                    *)
(***************************************************************************)
Frame(w) ==
  \A q \in Requests :
    /\ ~HoldsSession(w, q) /\ sessions[q] # NoSession
         => sessions'[q] = sessions[q] /\ proofs'[q] = proofs[q]
    /\ rewards[q] # "absent" => rewards'[q] # "absent"

\* What a handler that commits knows.
LEMMA CommitFacts ==
  ASSUME IInv, NEW w \in Workers, NEW plan \in Plan, Commit(w, plan)
  PROVE  /\ TypeOK /\ now' = now /\ tx[w].plan = plan /\ tx[w].step = "commit"
         /\ WellFormed(tx[w]) /\ StillHolds(w) /\ ~UniqueConflict(w)
         /\ tx[w].at \in Int /\ tx[w].start \in Int /\ tx[w].start <= now
         /\ tx[w].due \subseteq Requests
         /\ plan \notin {"create", "recover"} => tx[w].due = {}
         /\ \A q \in tx[w].due : Active(q) /\ sessions[q].expires <= tx[w].at /\ HoldsSession(w, q)
         /\ plan \in SessionPlan => HoldsSession(w, tx[w].req)
  <1>1. TypeOK /\ now' = now /\ tx[w].plan = plan /\ tx[w].step = "commit" /\ WellFormed(tx[w])
        /\ tx[w].at \in Int /\ tx[w].start \in Int /\ tx[w].due \subseteq Requests
    BY CommitType DEF IInv
  <1>2. StillHolds(w)
    BY <1>1 DEF IInv, DecisionsHold
  <1>3. ~UniqueConflict(w)
    BY DEF Commit
  <1>4. ClocksOK(w)
    BY DEF IInv
  <1> QED
    BY <1>1, <1>2, <1>3, <1>4 DEF ClocksOK, StillHolds, HoldsSession

\* The sessions a transaction finalizes, at creation, recovery or on the way of
\* another call.
LEMMA RowsExpired ==
  ASSUME TypeOK, TypeOK', NEW S \in SUBSET Requests, NEW t \in Int, now' = now,
         \A q \in Requests : RowOK(q),
         \A q \in S : Active(q) /\ sessions[q].expires <= t,
         EndProofs(S, "expired"),
         UNCHANGED <<outcomes, rewards>>,
         NEW q \in Requests,
         sessions'[q] = Expire(S, t)[q],
         \A e \in EventType : <<e, q>> \in evidence' <=> <<e, q>> \in evidence
  PROVE  RowOK(q)' /\ (q \notin S => sessions'[q] = sessions[q] /\ proofs'[q] = proofs[q])
  <1>1. CASE q \in S
    <2>1. sessions'[q] = End(q, "expired", t)
      BY <1>1 DEF Expire, Active
    <2> QED
      BY <1>1, <2>1, RowStopped
  <1>2. CASE q \notin S
    <2>1. sessions'[q] = sessions[q]
      BY <1>2 DEF Expire
    <2>2. proofs'[q] = proofs[q] /\ (q \in custody' <=> q \in custody) /\ chain'[q] = chain[q]
      BY <1>2, EndProofsAt
    <2>3. now <= now'
      BY TimeAssumption DEF TypeOK
    <2> QED
      BY <1>2, <2>1, <2>2, <2>3, RowKept
  <1> QED
    BY <1>1, <1>2

LEMMA CommitCreateRows ==
  ASSUME IInv, TypeOK', NEW w \in Workers, CommitCreate(w),
         NEW r, r = tx[w].req, NEW S, S = tx[w].due, NEW t, t = tx[w].at
  PROVE  (\A q \in Requests : RowOK(q)') /\ Frame(w)
  <1>1. Commit(w, "create") /\ "create" \in Plan
    BY DEF CommitCreate, Plan
  <1>2. /\ TypeOK /\ now' = now /\ tx[w].plan = "create" /\ tx[w].step = "commit"
        /\ ~UniqueConflict(w) /\ t \in Int /\ S \in SUBSET Requests
        /\ tx[w].start \in Int /\ tx[w].start <= now
        /\ \A q \in S : Active(q) /\ sessions[q].expires <= t /\ HoldsSession(w, q)
        /\ r \in Requests /\ tx[w].player \in Players /\ tx[w].game \in Games
    BY <1>1, CommitFacts DEF WellFormed
  <1>3. sessions[r] = NoSession
    BY <1>2 DEF UniqueConflict
  <1>4. RowOK(r) /\ \A q \in Requests : RowOK(q)
    BY <1>2 DEF IInv
  <1>5. /\ outcomes[r] = None /\ rewards[r] = "absent" /\ proofs[r] = "absent"
        /\ r \notin custody /\ chain[r] = <<>> /\ ~Active(r)
        /\ <<"reward_claimed", r>> \notin evidence
        /\ ~ {<<"game_played", r>>, <<"reward_issued", r>>} \subseteq evidence
    BY <1>2, <1>3, <1>4, Unborn
  <1>6. r \notin S
    BY <1>2, <1>5
  <1>7. EndProofs(S, "expired") /\ UNCHANGED <<outcomes, rewards>>
    BY DEF CommitCreate
  <1>8. ASSUME NEW q \in Requests, q # r
        PROVE  RowOK(q)' /\ (q \notin S => sessions'[q] = sessions[q] /\ proofs'[q] = proofs[q])
    <2>1. sessions'[q] = Expire(S, t)[q]
      BY <1>8 DEF CommitCreate, Expire
    <2>2. \A e \in EventType : <<e, q>> \in evidence' <=> <<e, q>> \in evidence
      BY <1>8 DEF CommitCreate
    <2> QED
      BY <1>2, <1>4, <1>7, <2>1, <2>2, RowsExpired
  <1>9. RowOK(r)'
    <2>1. sessions'[r] = [status |-> "active", player |-> tx[w].player, game |-> tx[w].game,
                          created |-> tx[w].start, expires |-> t + Duration, ended |-> Unset]
      BY <1>2 DEF CommitCreate, Expire
    <2>2. proofs'[r] = "absent" /\ r \notin custody' /\ chain'[r] = <<>>
      BY <1>2, <1>5, <1>6, <1>7, EndProofsAt
    <2>3. outcomes'[r] = None /\ rewards'[r] = "absent"
      BY <1>5, <1>7
    <2>4. evidence' = evidence \cup {<<"session_started", r>>}
      BY DEF CommitCreate
    <2>5. sessions'[r] # NoSession
      BY <2>1 DEF NoSession
    <2>6. PlayAgrees(r)'
      BY <1>5, <2>1, <2>2, <2>3, <2>4, <2>5 DEF PlayAgrees
    <2>7. ProofAgrees(r)'
      BY <2>2 DEF ProofAgrees
    <2>8. EndsInTime(r)'
      BY <2>1 DEF EndsInTime
    <2>9. Shaped(r)'
      BY <1>2, <2>1, <2>5 DEF Shaped
    <2> QED
      BY <2>6, <2>7, <2>8, <2>9 DEF RowOK
  <1> QED
    BY <1>2, <1>3, <1>7, <1>8, <1>9 DEF Frame

LEMMA CommitRecoverRows ==
  ASSUME IInv, TypeOK', NEW w \in Workers, CommitRecover(w) \/ CommitExpire(w)
  PROVE  (\A q \in Requests : RowOK(q)') /\ Frame(w)
  <1> DEFINE S == IF CommitRecover(w) THEN tx[w].due ELSE {tx[w].req}
             t == tx[w].at
  <1>1. /\ TypeOK /\ now' = now /\ t \in Int /\ S \in SUBSET Requests
        /\ \A q \in S : Active(q) /\ sessions[q].expires <= t /\ HoldsSession(w, q)
        /\ sessions' = Expire(S, t) /\ EndProofs(S, "expired")
        /\ UNCHANGED <<outcomes, rewards, evidence>>
    <2>1. CASE CommitRecover(w)
      <3>1. Commit(w, "recover") /\ "recover" \in Plan
        BY <2>1 DEF CommitRecover, Plan
      <3> QED
        BY <2>1, <3>1, CommitFacts DEF CommitRecover
    <2>2. CASE CommitExpire(w) /\ ~CommitRecover(w)
      <3>1. Commit(w, "expire") /\ "expire" \in Plan /\ "expire" \in SessionPlan
        BY <2>2 DEF CommitExpire, Plan, SessionPlan
      <3>2. tx[w].req \in Requests /\ Active(tx[w].req) /\ sessions[tx[w].req].expires <= t
        BY <3>1, CommitFacts DEF StillHolds, WellFormed
      <3> QED
        BY <2>2, <3>1, <3>2, CommitFacts DEF CommitExpire
    <2> QED
      BY <2>1, <2>2
  <1>2. \A q \in Requests : RowOK(q)
    BY DEF IInv
  <1> HIDE DEF S
  <1>3. ASSUME NEW q \in Requests
        PROVE  RowOK(q)' /\ (q \notin S => sessions'[q] = sessions[q] /\ proofs'[q] = proofs[q])
    BY <1>1, <1>2, RowsExpired
  <1> QED
    BY <1>1, <1>3 DEF Frame

LEMMA CommitCancelRows ==
  ASSUME IInv, TypeOK', NEW w \in Workers, CommitCancel(w),
         NEW r, r = tx[w].req, NEW t, t = tx[w].at
  PROVE  (\A q \in Requests : RowOK(q)') /\ Frame(w)
  <1>1. Commit(w, "cancel") /\ "cancel" \in Plan /\ "cancel" \in SessionPlan
    BY DEF CommitCancel, Plan, SessionPlan
  <1>2. /\ TypeOK /\ now' = now /\ t \in Int /\ r \in Requests /\ HoldsSession(w, r)
        /\ Active(r) /\ t < sessions[r].expires /\ sessions[r].created <= t
    BY <1>1, CommitFacts DEF StillHolds, WellFormed
  <1>3. /\ EndProofs({r}, "cancelled") /\ UNCHANGED <<outcomes, rewards, evidence>>
        /\ sessions' = [sessions EXCEPT ![r] = End(r, "cancelled", t)]
    BY DEF CommitCancel
  <1>4. \A q \in Requests : RowOK(q)
    BY DEF IInv
  <1>5. RowOK(r)'
    <2>1. sessions'[r] = End(r, "cancelled", t)
      BY <1>2, <1>3 DEF TypeOK
    <2> QED
      BY <1>2, <1>3, <1>4, <2>1, RowStopped
  <1>6. ASSUME NEW q \in Requests, q # r
        PROVE  RowOK(q)' /\ sessions'[q] = sessions[q] /\ proofs'[q] = proofs[q]
    <2>1. sessions'[q] = sessions[q]
      BY <1>2, <1>3, <1>6 DEF TypeOK
    <2>2. proofs'[q] = proofs[q] /\ (q \in custody' <=> q \in custody) /\ chain'[q] = chain[q]
      BY <1>2, <1>3, <1>6, EndProofsAt
    <2>3. now <= now'
      BY <1>2, TimeAssumption DEF TypeOK
    <2> QED
      BY <1>2, <1>3, <1>4, <2>1, <2>2, <2>3, RowKept
  <1> QED
    BY <1>2, <1>3, <1>5, <1>6 DEF Frame

LEMMA CommitCompleteRows ==
  ASSUME IInv, TypeOK', NEW w \in Workers, CommitPlay(w) \/ CommitReveal(w),
         NEW r, r = tx[w].req
  PROVE  (\A q \in Requests : RowOK(q)') /\ Frame(w)
  <1>1. /\ Complete(w)
        /\ \/ Commit(w, "play") /\ UNCHANGED <<proofs, custody, chain>>
           \/ /\ Commit(w, "reveal") /\ UNCHANGED custody
              /\ proofs' = [proofs EXCEPT ![r] = "revealed"]
              /\ chain' = [chain EXCEPT ![r] = Append(@, "revealed")]
    BY DEF CommitPlay, CommitReveal
  <1>2. \A plan \in {"play", "reveal"} : plan \in Plan /\ plan \in SessionPlan
    BY DEF Plan, SessionPlan
  <1>3. /\ TypeOK /\ now' = now /\ r \in Requests /\ tx[w].intent \in Intents
        /\ StillHolds(w) /\ HoldsSession(w, r)
        /\ tx[w].plan \in {"play", "reveal"}
        /\ Commit(w, tx[w].plan)
    BY <1>1, <1>2, CommitFacts DEF WellFormed
  <1>4. \A q \in Requests : RowOK(q)
    BY DEF IInv
  <1>5. \/ tx[w].plan = "play" /\ UNCHANGED <<proofs, custody, chain>>
        \/ /\ tx[w].plan = "reveal" /\ UNCHANGED custody
           /\ proofs' = [proofs EXCEPT ![r] = "revealed"]
           /\ chain' = [chain EXCEPT ![r] = Append(@, "revealed")]
    BY <1>1 DEF Commit
  <1>6. RowOK(r)'
    BY <1>1, <1>3, <1>4, <1>5, RowCompleted
  <1>7. ASSUME NEW q \in Requests, q # r
        PROVE  RowOK(q)' /\ sessions'[q] = sessions[q] /\ proofs'[q] = proofs[q]
                         /\ rewards'[q] = rewards[q]
    <2>1. /\ sessions'[q] = sessions[q] /\ outcomes'[q] = outcomes[q] /\ rewards'[q] = rewards[q]
          /\ \A e \in EventType : <<e, q>> \in evidence' <=> <<e, q>> \in evidence
      BY <1>1, <1>3, <1>7 DEF Complete, TypeOK
    <2>2. proofs'[q] = proofs[q] /\ (q \in custody' <=> q \in custody) /\ chain'[q] = chain[q]
      BY <1>3, <1>5, <1>7 DEF TypeOK
    <2>3. now <= now'
      BY <1>3, TimeAssumption DEF TypeOK
    <2> QED
      BY <1>3, <1>4, <2>1, <2>2, <2>3, RowKept
  <1>8. rewards'[r] # "absent"
    BY <1>1, <1>3 DEF Complete, TypeOK
  <1> QED
    BY <1>3, <1>6, <1>7, <1>8 DEF Frame

LEMMA CommitCommitmentRows ==
  ASSUME IInv, TypeOK', NEW w \in Workers, CommitCommitment(w), NEW r, r = tx[w].req
  PROVE  (\A q \in Requests : RowOK(q)') /\ Frame(w)
  <1>1. Commit(w, "commitment") /\ "commitment" \in Plan /\ "commitment" \in SessionPlan
    BY DEF CommitCommitment, Plan, SessionPlan
  <1>2. /\ TypeOK /\ now' = now /\ r \in Requests /\ HoldsSession(w, r)
        /\ Active(r) /\ Fair(r) /\ proofs[r] = "absent"
    BY <1>1, CommitFacts DEF StillHolds, WellFormed
  <1>3. UNCHANGED <<sessions, outcomes, rewards, evidence>>
    BY DEF CommitCommitment
  <1>4. \A q \in Requests : RowOK(q)
    BY DEF IInv
  <1>5. now <= now'
    BY <1>2, TimeAssumption DEF TypeOK
  <1>6. RowOK(r)'
    <2>1. proofs'[r] = "committed" /\ r \in custody' /\ chain'[r] = Append(chain[r], "committed")
      BY <1>2 DEF CommitCommitment, TypeOK
    <2>2. chain[r] = <<>>
      BY <1>2, <1>4 DEF RowOK, ProofAgrees
    <2>3. chain'[r] = <<"committed">>
      <3>1. "committed" \in ProofStatus
        BY DEF ProofStatus
      <3> QED
        BY <2>1, <2>2, <3>1, AppendFirst
    <2>4. ProofAgrees(r)'
      BY <1>2, <1>3, <2>1, <2>3 DEF ProofAgrees, Active, Fair
    <2>5. PlayAgrees(r)'
      <3>1. proofs[r] # "revealed" /\ proofs'[r] # "revealed"
        BY <1>2, <2>1
      <3> QED
        BY <1>2, <1>3, <1>4, <3>1 DEF RowOK, PlayAgrees, Fair
    <2>6. EndsInTime(r)' /\ Shaped(r)'
      BY <1>2, <1>3, <1>4 DEF RowOK, EndsInTime, Shaped
    <2> QED
      BY <2>4, <2>5, <2>6 DEF RowOK
  <1>7. ASSUME NEW q \in Requests, q # r
        PROVE  RowOK(q)' /\ proofs'[q] = proofs[q]
    <2>1. proofs'[q] = proofs[q] /\ (q \in custody' <=> q \in custody) /\ chain'[q] = chain[q]
      BY <1>2, <1>7 DEF CommitCommitment, TypeOK
    <2> QED
      BY <1>2, <1>3, <1>4, <1>5, <2>1, RowKept
  <1> QED
    BY <1>2, <1>3, <1>6, <1>7 DEF Frame

LEMMA CommitClaimRows ==
  ASSUME IInv, TypeOK', NEW w \in Workers, CommitClaim(w), NEW r, r = tx[w].req
  PROVE  (\A q \in Requests : RowOK(q)') /\ Frame(w)
  <1>1. Commit(w, "claim") /\ "claim" \in Plan
    BY DEF CommitClaim, Plan
  <1>2. TypeOK /\ now' = now /\ r \in Requests /\ rewards[r] # "absent"
    BY <1>1, CommitFacts DEF StillHolds, WellFormed
  <1>3. /\ UNCHANGED <<sessions, proofs, custody, chain, outcomes>>
        /\ rewards' = [rewards EXCEPT ![r] = "claimed"]
        /\ evidence' = evidence \cup {<<"reward_claimed", r>>}
    BY DEF CommitClaim
  <1>4. \A q \in Requests : RowOK(q)
    BY DEF IInv
  <1>5. now <= now'
    BY <1>2, TimeAssumption DEF TypeOK
  <1>6. RowOK(r)'
    <2>1. rewards'[r] = "claimed"
      BY <1>2, <1>3 DEF TypeOK
    <2>2. PlayAgrees(r)'
      BY <1>2, <1>3, <1>4, <2>1 DEF RowOK, PlayAgrees, Fair
    <2>3. ProofAgrees(r)' /\ EndsInTime(r)' /\ Shaped(r)'
      BY <1>2, <1>3, <1>4 DEF RowOK, ProofAgrees, EndsInTime, Shaped, Active, Fair
    <2> QED
      BY <2>2, <2>3 DEF RowOK
  <1>7. ASSUME NEW q \in Requests, q # r
        PROVE  RowOK(q)' /\ rewards'[q] = rewards[q]
    <2>1. /\ rewards'[q] = rewards[q]
          /\ \A e \in EventType : <<e, q>> \in evidence' <=> <<e, q>> \in evidence
      BY <1>2, <1>3, <1>7 DEF TypeOK
    <2> QED
      BY <1>2, <1>3, <1>4, <1>5, <2>1, RowKept
  <1>8. rewards'[r] # "absent"
    BY <1>2, <1>3 DEF TypeOK
  <1> QED
    BY <1>2, <1>3, <1>6, <1>7, <1>8 DEF Frame

Commits(w) ==
  \/ CommitCreate(w) \/ CommitRecover(w) \/ CommitExpire(w) \/ CommitCancel(w)
  \/ CommitPlay(w) \/ CommitCommitment(w) \/ CommitReveal(w) \/ CommitClaim(w)

LEMMA CommitsRows ==
  ASSUME IInv, TypeOK', NEW w \in Workers, Commits(w)
  PROVE  (\A q \in Requests : RowOK(q)') /\ Frame(w)
  BY CommitCreateRows, CommitRecoverRows, CommitCancelRows, CommitCompleteRows,
     CommitCommitmentRows, CommitClaimRows DEF Commits

------------------------------------------------------------------------------
(***************************************************************************)
(* What the handlers have decided stays true: the transaction that ends,   *)
(* the transactions that go on, and the one that takes a decision.         *)
(***************************************************************************)
\* A transaction ends, by a commit that respects the locks of the others or by a
\* rollback.
LEMMA DecisionsKept ==
  ASSUME IInv, NEW w \in Workers, Finish(w), now' = now, Frame(w)
  PROVE  (\A v \in Workers : ClocksOK(v)') /\ DecisionsHold'
  <1>1. tx \in [Workers -> Transaction] /\ tx' = [tx EXCEPT ![w] = NoTx]
    BY DEF IInv, TypeOK, Finish
  <1>2. \A v \in Workers \ {w} : tx'[v] = tx[v]
    BY <1>1
  <1>3. tx'[w] = NoTx
    BY <1>1
  <1>4. ASSUME NEW v \in Workers
        PROVE  ClocksOK(v)'
    <2>1. CASE v = w
      <3>1. now' \in Int /\ -1 <= now'
        BY TimeAssumption DEF IInv, TypeOK
      <3>2. /\ tx'[v].start = -1 /\ tx'[v].at = -1 /\ tx'[v].due = {}
            /\ tx'[v].step = "idle"
        BY <1>3, <2>1 DEF NoTx, Unset
      <3> QED
        BY <3>1, <3>2 DEF ClocksOK
    <2>2. CASE v # w
      BY <1>2, <2>2 DEF IInv, ClocksOK
    <2> QED
      BY <2>1, <2>2
  <1>5. ASSUME NEW v \in Workers, tx'[v].step = "commit"
        PROVE  StillHolds(v)' /\ v # w
    <2>1. v # w
      BY <1>3, <1>5 DEF NoTx
    <2>2. tx'[v] = tx[v] /\ tx[v].step = "commit"
      BY <1>2, <1>5, <2>1
    <2>3. StillHolds(v) /\ WellFormed(tx[v]) /\ tx[v].due \subseteq Requests
      BY <2>2 DEF IInv, DecisionsHold, TypeOK, Transaction
    <2>4. \A q \in Requests : HoldsSession(v, q) => ~HoldsSession(w, q)
      BY <2>1 DEF IInv, DecisionsHold
    <2>5. \A q \in Requests : Active(q) => sessions[q] # NoSession
      BY DEF Active, NoSession
    <2>6. \A q \in Requests : HoldsSession(v, q) => Active(q)
      BY <2>3 DEF HoldsSession, StillHolds
    <2>7. \A q \in Requests : HoldsSession(v, q) =>
            sessions'[q] = sessions[q] /\ proofs'[q] = proofs[q]
      BY <2>4, <2>5, <2>6 DEF Frame
    <2>8. /\ tx[v].plan \in SessionPlan =>
                /\ sessions'[tx[v].req] = sessions[tx[v].req]
                /\ proofs'[tx[v].req] = proofs[tx[v].req]
          /\ \A q \in tx[v].due : sessions'[q] = sessions[q]
      BY <2>2, <2>3, <2>7 DEF HoldsSession, WellFormed
    <2>9. tx[v].plan = "claim" => rewards'[tx[v].req] # "absent"
      BY <2>3 DEF Frame, StillHolds, WellFormed
    <2>10. tx[v].plan \in SessionPlan <=>
             tx[v].plan \in {"expire", "cancel", "play", "commitment", "reveal"}
      BY DEF SessionPlan
    <2>11. StillHolds(v)'
      BY <2>2, <2>3, <2>8, <2>9, <2>10 DEF StillHolds, Active, Fair, SessionPlan
    <2> QED
      BY <2>1, <2>11
  <1>6. ASSUME NEW u \in Workers, NEW v \in Workers, NEW q \in Requests, u # v
        PROVE  ~(HoldsSession(u, q)' /\ HoldsSession(v, q)')
    <2>1. CASE u = w \/ v = w
      BY <1>3, <2>1 DEF HoldsSession, NoTx
    <2>2. CASE u # w /\ v # w
      BY <1>2, <1>6, <2>2 DEF HoldsSession, IInv, DecisionsHold
    <2> QED
      BY <2>1, <2>2
  <1> QED
    BY <1>4, <1>5, <1>6 DEF DecisionsHold

\* A handler opens a transaction or moves on without writing: the decisions of the
\* others stand, its own is new.
LEMMA DecisionTaken ==
  ASSUME IInv, TypeOK', NEW w \in Workers, UNCHANGED <<now, rows>>,
         \A v \in Workers \ {w} : tx'[v] = tx[v],
         ClocksOK(w)',
         tx'[w].step = "commit" => StillHolds(w)',
         \A v \in Workers \ {w}, q \in Requests : HoldsSession(w, q)' => ~HoldsSession(v, q)
  PROVE  IInv'
  <1>1. ASSUME NEW q \in Requests
        PROVE  RowOK(q)'
    <2>1. TypeOK /\ RowOK(q) /\ now <= now'
      BY TimeAssumption DEF IInv, TypeOK
    <2> QED
      BY <2>1, RowKept DEF rows
  <1>2. ASSUME NEW v \in Workers
        PROVE  ClocksOK(v)' /\ (tx'[v].step = "commit" => StillHolds(v)')
    <2>1. CASE v # w
      <3>1. ClocksOK(v) /\ (tx[v].step = "commit" => StillHolds(v))
        BY DEF IInv, DecisionsHold
      <3>2. tx'[v] = tx[v]
        BY <2>1
      <3> QED
        BY <3>1, <3>2 DEF ClocksOK, StillHolds, Active, Fair, rows
    <2> QED
      BY <2>1
  <1>3. ASSUME NEW u \in Workers, NEW v \in Workers, NEW q \in Requests, u # v
        PROVE  ~(HoldsSession(u, q)' /\ HoldsSession(v, q)')
    <2>1. ASSUME NEW x \in Workers \ {w}
          PROVE  HoldsSession(x, q)' <=> HoldsSession(x, q)
      BY DEF HoldsSession
    <2>2. CASE u # w /\ v # w
      BY <1>3, <2>1, <2>2 DEF IInv, DecisionsHold
    <2>3. CASE u = w
      BY <1>3, <2>1, <2>3
    <2>4. CASE v = w
      BY <1>3, <2>1, <2>4
    <2> QED
      BY <2>2, <2>3, <2>4
  <1> QED
    BY <1>1, <1>2, <1>3 DEF IInv, DecisionsHold

\* The decision of a handler that has locked its session.
LEMMA SessionDecision ==
  ASSUME IInv, TypeOK', NEW w \in Workers, NEW r \in Requests, NEW plan \in SessionPlan,
         NEW i \in Intents \cup {None}, Decide(w, r, plan, i),
         Active(r),
         plan # "expire" => now < sessions[r].expires,
         plan = "expire" => sessions[r].expires <= now,
         plan \in {"play", "commitment"} => (plan = "commitment" <=> Fair(r)),
         plan = "commitment" => proofs[r] = "absent",
         plan = "reveal" => proofs[r] = "committed"
  PROVE  IInv'
  <1>1. tx \in [Workers -> Transaction]
    BY DEF IInv, TypeOK
  <1>2. /\ UNCHANGED <<now, rows>>
        /\ \A v \in Workers \ {w} : tx'[v] = tx[v]
        /\ tx'[w] = [NoTx EXCEPT !.step = "commit", !.plan = plan, !.req = r,
                                 !.intent = i, !.start = now, !.at = now]
    BY <1>1 DEF Decide
  <1>3. /\ tx'[w].step = "commit" /\ tx'[w].plan = plan /\ tx'[w].req = r
        /\ tx'[w].start = now /\ tx'[w].at = now /\ tx'[w].due = {}
    BY <1>2 DEF NoTx
  <1>4. plan \notin {"create", "recover", "claim"}
    BY DEF SessionPlan
  <1>5. now \in Int /\ now <= now /\ sessions[r].created <= now
    BY TimeAssumption DEF IInv, TypeOK, RowOK, Shaped
  <1>6. ClocksOK(w)'
    BY <1>2, <1>3, <1>5 DEF ClocksOK
  <1>7. StillHolds(w)'
    BY <1>2, <1>3, <1>4, <1>5 DEF StillHolds, Active, Fair, rows
  <1>8. \A v \in Workers \ {w}, q \in Requests : HoldsSession(w, q)' => ~HoldsSession(v, q)
    BY <1>3 DEF Decide, SessionFree, HoldsSession
  <1> QED
    BY <1>2, <1>6, <1>7, <1>8, DecisionTaken

LEMMA CallKeeps ==
  ASSUME IInv, TypeOK', NEW w \in Workers, Call(w)
  PROVE  IInv'
  <1>0. /\ tx \in [Workers -> Transaction] /\ now \in Int /\ now <= now
        /\ \A r \in Requests : RowOK(r)
        /\ \A r \in Requests : sessions[r].expires \in Int
    BY TimeAssumption DEF IInv, TypeOK, Session
  <1>1. ASSUME NEW p \in Players, NEW g \in Games, RecoverState(w, p, g)
        PROVE  IInv'
    <2>1. /\ UNCHANGED <<now, rows>> /\ \A v \in Workers \ {w} : tx'[v] = tx[v]
          /\ tx'[w] = [NoTx EXCEPT !.step = "elapsed", !.plan = "recover",
                                   !.player = p, !.game = g, !.start = now, !.at = now]
      BY <1>0, <1>1 DEF RecoverState
    <2>2. /\ tx'[w].step = "elapsed" /\ tx'[w].plan = "recover"
          /\ tx'[w].start = now /\ tx'[w].at = now
      BY <2>1 DEF NoTx
    <2>3. ClocksOK(w)' /\ \A q \in Requests : ~HoldsSession(w, q)'
      BY <1>0, <2>1, <2>2 DEF ClocksOK, HoldsSession
    <2> QED
      BY <2>1, <2>2, <2>3, DecisionTaken
  <1>2. ASSUME NEW p \in Players, NEW g \in Games, NEW r \in Requests, BeginCreate(w, p, g, r)
        PROVE  IInv'
    <2>1. /\ UNCHANGED <<now, rows>> /\ \A v \in Workers \ {w} : tx'[v] = tx[v]
          /\ tx'[w] = [NoTx EXCEPT !.step = "request", !.plan = "create",
                                   !.player = p, !.game = g, !.req = r, !.start = now]
      BY <1>0, <1>2 DEF BeginCreate
    <2>2. /\ tx'[w].step = "request" /\ tx'[w].plan = "create"
          /\ tx'[w].start = now /\ tx'[w].at = -1
      BY <2>1 DEF NoTx, Unset
    <2>3. -1 <= now
      BY TimeAssumption DEF IInv, TypeOK
    <2>4. ClocksOK(w)' /\ \A q \in Requests : ~HoldsSession(w, q)'
      BY <1>0, <2>1, <2>2, <2>3 DEF ClocksOK, HoldsSession
    <2> QED
      BY <2>1, <2>2, <2>4, DecisionTaken
  <1>3. ASSUME NEW r \in Requests, DecideExpire(w, r)
        PROVE  IInv'
    <2>1. Active(r) /\ sessions[r].expires <= now
      BY <1>0, <1>3 DEF DecideExpire, Elapsed, RowOK, ProofAgrees, Active
    <2>2. "expire" \in SessionPlan /\ Decide(w, r, "expire", None)
      BY <1>3 DEF SessionPlan, DecideExpire
    <2> QED
      BY <2>1, <2>2, SessionDecision
  <1>4. ASSUME NEW r \in Requests, DecideCancel(w, r)
        PROVE  IInv'
    <2>1. Active(r) /\ now < sessions[r].expires
      BY <1>0, <1>4 DEF DecideCancel, Elapsed
    <2>2. "cancel" \in SessionPlan /\ Decide(w, r, "cancel", None)
      BY <1>4 DEF SessionPlan, DecideCancel
    <2> QED
      BY <2>1, <2>2, SessionDecision
  <1>5. ASSUME NEW r \in Requests, DecideCommitment(w, r)
        PROVE  IInv'
    <2>1. Active(r) /\ now < sessions[r].expires /\ proofs[r] = "absent" /\ Fair(r)
      <3>1. sessions[r].game # None
        BY <1>0, <1>5, NoneAssumption DEF DecideCommitment, RowOK, Shaped, Active
      <3> QED
        BY <1>0, <1>5, <3>1 DEF DecideCommitment, Elapsed, Fair
    <2>2. "commitment" \in SessionPlan /\ Decide(w, r, "commitment", None)
      BY <1>5 DEF SessionPlan, DecideCommitment
    <2> QED
      BY <2>1, <2>2, SessionDecision
  <1>6. ASSUME NEW r \in Requests, NEW i \in Intents, DecidePlay(w, r, i)
        PROVE  IInv'
    <2>1. Active(r) /\ now < sessions[r].expires /\ ~Fair(r)
      BY <1>0, <1>6 DEF DecidePlay, Elapsed, Fair
    <2>2. "play" \in SessionPlan /\ Decide(w, r, "play", i)
      BY <1>6 DEF SessionPlan, DecidePlay
    <2> QED
      BY <2>1, <2>2, SessionDecision
  <1>7. ASSUME NEW r \in Requests, NEW i \in Intents, DecideReveal(w, r, i)
        PROVE  IInv'
    <2>1. Active(r) /\ now < sessions[r].expires /\ proofs[r] = "committed"
      BY <1>0, <1>7 DEF DecideReveal, Elapsed
    <2>2. "reveal" \in SessionPlan /\ Decide(w, r, "reveal", i)
      BY <1>7 DEF SessionPlan, DecideReveal
    <2> QED
      BY <2>1, <2>2, SessionDecision
  <1>8. ASSUME NEW r \in Requests, DecideClaim(w, r)
        PROVE  IInv'
    <2>1. /\ UNCHANGED <<now, rows>> /\ \A v \in Workers \ {w} : tx'[v] = tx[v]
          /\ tx'[w] = [NoTx EXCEPT !.step = "commit", !.plan = "claim", !.req = r,
                                   !.start = now, !.at = now]
      BY <1>0, <1>8 DEF DecideClaim
    <2>2. /\ tx'[w].step = "commit" /\ tx'[w].plan = "claim" /\ tx'[w].req = r
          /\ tx'[w].start = now /\ tx'[w].at = now /\ tx'[w].due = {}
      BY <2>1 DEF NoTx
    <2>3. ClocksOK(w)' /\ \A q \in Requests : ~HoldsSession(w, q)'
      BY <1>0, <2>1, <2>2 DEF ClocksOK, HoldsSession, SessionPlan
    <2>4. rewards'[r] # "absent"
      BY <1>8, <2>1 DEF DecideClaim, rows
    <2>5. StillHolds(w)'
      BY <2>2, <2>4 DEF StillHolds, SessionPlan
    <2> QED
      BY <2>1, <2>2, <2>3, <2>5, DecisionTaken
  <1>9. ASSUME NEW r \in Requests, NEW i \in Intents, ReplayOutcome(w, r, i)
        PROVE  IInv'
    <2>1. UNCHANGED <<now, rows>> /\ tx' = tx
      BY <1>9 DEF ReplayOutcome
    <2>2. tx[w].step = "idle"
      BY <1>9 DEF ReplayOutcome, Idle
    <2>3. ClocksOK(w)' /\ \A q \in Requests : ~HoldsSession(w, q)'
      BY <2>1, <2>2 DEF ClocksOK, HoldsSession, IInv
    <2> QED
      BY <2>1, <2>2, <2>3, DecisionTaken
  <1> QED
    BY <1>1, <1>2, <1>3, <1>4, <1>5, <1>6, <1>7, <1>8, <1>9 DEF Call

\* An open transaction gives up or ends without having written.
LEMMA EndKeeps ==
  ASSUME IInv, TypeOK', NEW w \in Workers, Finish(w), UNCHANGED <<now, rows>>
  PROVE  IInv'
  <1>1. Frame(w)
    BY DEF Frame, rows
  <1>2. ASSUME NEW q \in Requests
        PROVE  RowOK(q)'
    <2>1. TypeOK /\ RowOK(q) /\ now <= now'
      BY TimeAssumption DEF IInv, TypeOK
    <2> QED
      BY <2>1, RowKept DEF rows
  <1> QED
    BY <1>1, <1>2, DecisionsKept DEF IInv

LEMMA WaitKeeps ==
  ASSUME IInv, TypeOK', NEW w \in Workers, LockRequest(w) \/ LockPlayer(w) \/ LockElapsed(w)
  PROVE  IInv'
  <1>0. /\ tx \in [Workers -> Transaction] /\ tx[w] \in Transaction
        /\ tx[w].start \in Int /\ tx[w].at \in Int /\ now \in Int /\ now <= now
        /\ ClocksOK(w) /\ WellFormed(tx[w])
    BY TimeAssumption DEF IInv, TypeOK, Transaction
  <1>1. CASE LockRequest(w)
    <2>1. /\ UNCHANGED <<now, rows>> /\ \A v \in Workers \ {w} : tx'[v] = tx[v]
          /\ tx'[w] = [tx[w] EXCEPT !.step = "player"]
      BY <1>0, <1>1 DEF LockRequest
    <2>2. /\ tx'[w].step = "player" /\ tx'[w].plan = tx[w].plan
          /\ tx'[w].start = tx[w].start /\ tx'[w].at = tx[w].at /\ tx'[w].due = tx[w].due
      BY <1>0, <2>1 DEF Transaction
    <2>3. ClocksOK(w)' /\ \A q \in Requests : ~HoldsSession(w, q)'
      BY <1>0, <2>1, <2>2 DEF ClocksOK, HoldsSession
    <2> QED
      BY <2>1, <2>2, <2>3, DecisionTaken
  <1>2. CASE LockPlayer(w) /\ Finish(w)
    BY <1>2, EndKeeps DEF LockPlayer
  <1>3. CASE LockPlayer(w) /\ ~Finish(w)
    <2>1. /\ UNCHANGED <<now, rows>> /\ \A v \in Workers \ {w} : tx'[v] = tx[v]
          /\ tx'[w] = [tx[w] EXCEPT !.step = "elapsed", !.at = now]
      BY <1>0, <1>3 DEF LockPlayer
    <2>2. /\ tx'[w].step = "elapsed" /\ tx'[w].plan = tx[w].plan
          /\ tx'[w].start = tx[w].start /\ tx'[w].at = now /\ tx'[w].due = tx[w].due
      BY <1>0, <2>1 DEF Transaction
    <2>3. ClocksOK(w)' /\ \A q \in Requests : ~HoldsSession(w, q)'
      BY <1>0, <2>1, <2>2 DEF ClocksOK, HoldsSession
    <2> QED
      BY <2>1, <2>2, <2>3, DecisionTaken
  <1>4. CASE LockElapsed(w) /\ Finish(w)
    BY <1>4, EndKeeps DEF LockElapsed
  <1>5. CASE LockElapsed(w) /\ ~Finish(w)
    <2>1. PICK S \in SUBSET Requests :
            /\ \A q \in S : Elapsed(q, tx[w].at) /\ SessionFree(w, q)
            /\ tx' = [tx EXCEPT ![w].step = "commit", ![w].due = S]
      <3> DEFINE due == {q \in Of(tx[w].player, tx[w].game) : Elapsed(q, tx[w].at)}
      <3>1. due \in SUBSET Requests
        BY DEF Of
      <3>2. \A q \in due : Elapsed(q, tx[w].at) /\ SessionFree(w, q)
        BY <1>5 DEF LockElapsed, Due
      <3>3. tx' = [tx EXCEPT ![w].step = "commit", ![w].due = due]
        BY <1>5 DEF LockElapsed, Due
      <3> QED
        BY <3>1, <3>2, <3>3
    <2>2. /\ UNCHANGED <<now, rows>> /\ \A v \in Workers \ {w} : tx'[v] = tx[v]
          /\ tx'[w] = [tx[w] EXCEPT !.step = "commit", !.due = S]
          /\ tx[w].step = "elapsed"
      BY <1>0, <1>5, <2>1 DEF LockElapsed
    <2>3. /\ tx'[w].step = "commit" /\ tx'[w].plan = tx[w].plan
          /\ tx'[w].start = tx[w].start /\ tx'[w].at = tx[w].at /\ tx'[w].due = S
      BY <1>0, <2>2 DEF Transaction
    <2>4. tx[w].plan \in {"create", "recover"} /\ tx[w].plan \notin SessionPlan
      BY <1>0, <2>2 DEF WellFormed, SessionPlan
    <2>5. ClocksOK(w)'
      BY <1>0, <2>2, <2>3, <2>4 DEF ClocksOK
    <2>6. StillHolds(w)'
      <3>1. \A q \in S : Active(q)' /\ sessions'[q].expires <= tx'[w].at
        BY <2>1, <2>2, <2>3 DEF Elapsed, Active, rows
      <3> QED
        BY <2>3, <2>4, <3>1 DEF StillHolds, SessionPlan
    <2>7. \A v \in Workers \ {w}, q \in Requests : HoldsSession(w, q)' => ~HoldsSession(v, q)
      BY <2>1, <2>3, <2>4 DEF SessionFree, HoldsSession
    <2> QED
      BY <2>2, <2>5, <2>6, <2>7, DecisionTaken
  <1> QED
    BY <1>1, <1>2, <1>3, <1>4, <1>5

LEMMA TickKeeps ==
  ASSUME IInv, TypeOK', Tick
  PROVE  IInv'
  <1>1. now \in Int /\ now' = now + 1 /\ now <= now' /\ UNCHANGED <<rows, tx>>
    BY TimeAssumption DEF IInv, TypeOK, Tick
  <1>2. \A q \in Requests : RowOK(q)'
    BY <1>1, RowKept DEF IInv, rows
  <1>3. ASSUME NEW w \in Workers
        PROVE  ClocksOK(w)'
    <2>1. tx[w].start \in Int /\ tx[w].at \in Int
      BY DEF IInv, TypeOK, Transaction
    <2> QED
      BY <1>1, <2>1 DEF IInv, ClocksOK
  <1>4. DecisionsHold'
    BY <1>1 DEF IInv, DecisionsHold, StillHolds, HoldsSession, Active, Fair, rows
  <1> QED
    BY <1>2, <1>3, <1>4 DEF IInv

(***************************************************************************)
(* IInv is an inductive invariant.                                         *)
(***************************************************************************)
THEOREM Invariance == Spec => []IInv
  <1>1. Init => IInv
    <2> SUFFICES ASSUME Init PROVE IInv
      OBVIOUS
    <2>1. TypeOK
      BY NoTxType, NoSessionType, TimeAssumption DEF Init, TypeOK, ProofStatus, RewardStatus
    <2>2. ASSUME NEW r \in Requests
          PROVE  RowOK(r)
      <3>1. sessions[r] = NoSession /\ NoSession.status = "absent" /\ NoSession.created = -1
        BY DEF Init, NoSession, Unset
      <3>2. PlayAgrees(r)
        BY <3>1 DEF Init, PlayAgrees
      <3>3. ProofAgrees(r)
        BY DEF Init, ProofAgrees
      <3>4. EndsInTime(r)
        BY <3>1 DEF EndsInTime
      <3>5. Shaped(r)
        BY <3>1 DEF Init, Shaped
      <3> QED
        BY <3>2, <3>3, <3>4, <3>5 DEF RowOK
    <2>3. ASSUME NEW w \in Workers
          PROVE  ClocksOK(w) /\ tx[w].step = "idle"
      BY DEF Init, NoTx, ClocksOK, Unset
    <2>4. DecisionsHold
      BY <2>3 DEF DecisionsHold, HoldsSession
    <2> QED
      BY <2>1, <2>2, <2>3, <2>4 DEF IInv
  <1>2. TypeOK' /\ IInv /\ [Next]_vars => IInv'
    <2> SUFFICES ASSUME TypeOK', IInv, [Next]_vars PROVE IInv'
      OBVIOUS
    <2>1. CASE Tick
      BY <2>1, TickKeeps
    <2>2. ASSUME NEW w \in Workers, Call(w)
          PROVE  IInv'
      BY <2>2, CallKeeps
    <2>3. ASSUME NEW w \in Workers, LockRequest(w) \/ LockPlayer(w) \/ LockElapsed(w)
          PROVE  IInv'
      BY <2>3, WaitKeeps
    <2>4. ASSUME NEW w \in Workers, Commits(w)
          PROVE  IInv'
      <3>1. Finish(w) /\ now' = now
        BY <2>4 DEF Commits, CommitCreate, CommitRecover, CommitExpire, CommitCancel, CommitPlay,
                    CommitCommitment, CommitReveal, CommitClaim, Commit
      <3>2. (\A q \in Requests : RowOK(q)') /\ Frame(w)
        BY <2>4, CommitsRows
      <3> QED
        BY <3>1, <3>2, DecisionsKept DEF IInv
    <2>5. ASSUME NEW w \in Workers, UniqueViolation(w) \/ Rollback(w)
          PROVE  IInv'
      <3>1. Finish(w) /\ UNCHANGED <<now, rows>>
        BY <2>5 DEF UniqueViolation, Rollback
      <3> QED
        BY <3>1, EndKeeps
    <2>6. CASE UNCHANGED vars
      BY <2>6, SMTT(30) DEF IInv, RowOK, PlayAgrees, ProofAgrees, EndsInTime, Shaped, ClocksOK, DecisionsHold,
                  StillHolds, HoldsSession, Active, Fair, vars, rows, history
    <2> QED
      BY <2>1, <2>2, <2>3, <2>4, <2>5, <2>6 DEF Next, Progress, Commits
  <1> QED
    BY <1>1, <1>2, TypeCorrect, PTL DEF Spec

------------------------------------------------------------------------------
(***************************************************************************)
(* Outcome, reward, revealed proof, completed session and evidence of a    *)
(* play exist together or not at all, in every reachable state.            *)
(***************************************************************************)
THEOREM OutcomesAgree == Spec => []OutcomeAgreement
  <1>1. IInv => OutcomeAgreement
    BY DEF IInv, RowOK, OutcomeAgreement
  <1> QED
    BY <1>1, Invariance, PTL

(***************************************************************************)
(* A proof ends with its session, its unrevealed seed does not outlive it, *)
(* and its event chain tells its whole story once.                         *)
(***************************************************************************)
THEOREM ProofsAgree == Spec => []ProofAgreement
  <1>1. IInv => ProofAgreement
    BY DEF IInv, RowOK, ProofAgreement
  <1> QED
    BY <1>1, Invariance, PTL

(***************************************************************************)
(* Sessions are played and cancelled strictly before expires_at and        *)
(* expired from expires_at on.                                             *)
(***************************************************************************)
THEOREM SessionsEndInTime == Spec => []EndedInTime
  <1>1. IInv => EndedInTime
    BY DEF IInv, RowOK, EndedInTime
  <1> QED
    BY <1>1, Invariance, PTL

(***************************************************************************)
(* What a handler decided under its locks still holds when it commits, and *)
(* no two handlers hold one session.                                       *)
(***************************************************************************)
THEOREM NoStaleDecision == Spec => []DecisionsHold
  <1>1. IInv => DecisionsHold
    BY DEF IInv
  <1> QED
    BY <1>1, Invariance, PTL

------------------------------------------------------------------------------
(***************************************************************************)
(* Deadlocks.  A wait for a request id leads to a handler that has passed  *)
(* it, a wait for a player row to one that has passed lock_player, and of  *)
(* those only one that waits for an elapsed session waits itself.          *)
(***************************************************************************)
\* The holder of a player row that waits stands at lock_expired_active_sessions.
LEMMA PlayerHolderWaits ==
  ASSUME TypeOK, NEW v \in Workers, NEW p, HoldsPlayer(v, p), NEW u, WaitsFor(v, u)
  PROVE  tx[v].step = "elapsed"
  BY DEF HoldsPlayer, WaitsFor, InsertsEvent, EvidencePlan

\* Among handlers that wait for one another one waits for an elapsed session.
LEMMA SomeoneWaitsForSession ==
  ASSUME TypeOK, NEW S \in SUBSET Workers, Deadlocked(S)
  PROVE  \E e \in S : tx[e].step = "elapsed"
<1>1. PICK w \in S : TRUE
  BY DEF Deadlocked
<1>2. PICK v \in S : WaitsFor(w, v)
  BY DEF Deadlocked
<1>3. PICK u \in S : WaitsFor(v, u)
  BY DEF Deadlocked
<1>4. PICK t \in S : WaitsFor(u, t)
  BY DEF Deadlocked
<1>5. CASE tx[w].step = "request"
  <2>1. tx[v].plan = "create" /\ tx[v].step \in {"player", "elapsed", "commit"}
    BY <1>2, <1>5 DEF WaitsFor, HoldsRequest
  <2>2. CASE tx[v].step = "player"
    <3>1. HoldsPlayer(u, tx[v].player)
      BY <1>3, <2>2 DEF WaitsFor
    <3> QED
      BY <1>4, <3>1, PlayerHolderWaits
  <2>3. tx[v].step # "commit"
    BY <1>3, <2>1 DEF WaitsFor, InsertsEvent, EvidencePlan
  <2> QED
    BY <2>1, <2>2, <2>3
<1>6. CASE tx[w].step = "elapsed"
  BY <1>6
<1>7. CASE tx[w].step \notin {"request", "elapsed"}
  <2>1. \E p : HoldsPlayer(v, p)
    BY <1>2, <1>7 DEF WaitsFor
  <2> QED
    BY <1>3, <2>1, PlayerHolderWaits
<1> QED
  BY <1>5, <1>6, <1>7

\* Whatever the number of handlers, players and games: handlers that wait for one
\* another always hold a play or an evaluation decided before expires_at and a creation
\* or recovery that found its session elapsed.
THEOREM OnlyOneKindOfDeadlock == Spec => []DeadlocksOnlyAtExpiry
<1>1. IInv => DeadlocksOnlyAtExpiry
  <2> SUFFICES ASSUME IInv, NEW S \in SUBSET Workers, Deadlocked(S)
               PROVE  \E v, w \in S : MeetAtExpiry(v, w)
    BY DEF DeadlocksOnlyAtExpiry
  <2>0. TypeOK /\ DecisionsHold
    BY DEF IInv
  <2>1. PICK w \in S : tx[w].step = "elapsed"
    BY <2>0, SomeoneWaitsForSession
  <2>2. PICK v \in S : WaitsFor(w, v)
    BY DEF Deadlocked
  <2>3. PICK r \in Due(w) : HoldsSession(v, r)
    BY <2>1, <2>2 DEF WaitsFor
  <2>4. PICK u \in S : WaitsFor(v, u)
    BY DEF Deadlocked
  <2>5. tx[v].step = "commit" /\ InsertsEvent(v)
    BY <2>3, <2>4 DEF WaitsFor, HoldsSession
  <2>6. tx[v].plan \in {"play", "reveal"} /\ tx[v].req = r
    <3>1. WellFormed(tx[v]) /\ (tx[v].due # {} => tx[v].plan \in {"create", "recover"})
      BY <2>0 DEF IInv, TypeOK, ClocksOK
    <3> QED
      BY <2>3, <2>5, <3>1 DEF HoldsSession, InsertsEvent, EvidencePlan, SessionPlan
  <2>7. StillHolds(v)
    BY <2>0, <2>5 DEF DecisionsHold
  <2>8. tx[v].at < sessions[r].expires
    BY <2>6, <2>7 DEF StillHolds, SessionPlan
  <2>9. r \in Due(w) /\ sessions[r].expires <= tx[w].at
    BY <2>3 DEF Due, Elapsed
  <2> QED
    BY <2>1, <2>5, <2>6, <2>8, <2>9 DEF MeetAtExpiry
<1> QED
  BY <1>1, Invariance, PTL

==============================================================================
