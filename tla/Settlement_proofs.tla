-------------------------- MODULE Settlement_proofs -------------------------
(* Machine-checked properties of Settlement, for all values of its constants. *)
EXTENDS Settlement, FiniteSetTheorems, SequenceTheorems, WellFoundedInduction, TLAPS

------------------------------------------------------------------------------
(***************************************************************************)
(* The strengthening.  What an open submission knows of its score and its  *)
(* revision row, and an open settlement of the clock and its scores, stays *)
(* true until it commits; the locks are what keeps it true.                *)
(***************************************************************************)
SubmissionHolds(w) == tx[w].plan = "score" =>
  /\ recorded[tx[w].score] = None
  /\ tx[w].period = Period(ended[tx[w].score])
  /\ tx[w].step \in {"insert", "commit"}
  /\ tx[w].step = "commit" => tx[w].revision = revision[tx[w].period] + 1
  /\ \A v \in Workers \ {w} : tx[v].plan = "score" =>
       /\ tx[v].score # tx[w].score
       /\ tx[v].step = "commit" /\ tx[w].step = "commit" => tx[v].period # tx[w].period

SettlementHolds(w) == tx[w].plan = "settle" =>
  /\ runs[tx[w].period] = None
  /\ now >= PeriodEnd(tx[w].period)
  /\ tx[w].step \in {"scores", "commit"}
  /\ tx[w].step = "commit" =>
       Timely(tx[w].period) \subseteq tx[w].counted /\ tx[w].counted \subseteq Recorded(tx[w].period)
  /\ \A v \in Workers \ {w} : tx[v].plan # "settle"

RunsHold == \A p \in Periods : runs[p] # None =>
  /\ now >= PeriodEnd(p)
  /\ Timely(p) \subseteq runs[p].counted
  /\ runs[p].counted \subseteq Recorded(p)

RecordedEnded == \A s \in Sessions : recorded[s] # None => Completed(s)

SettledHold == \A a \in settled : \E p \in Periods : runs[p] # None /\ a = <<p, runs[p].winners>>

IInv ==
  /\ TypeOK
  /\ \A w \in Workers : SubmissionHolds(w)
  /\ \A w \in Workers : SettlementHolds(w)
  /\ RunsHold
  /\ RecordedEnded
  /\ RevisionCounts
  /\ SettledOnce
  /\ SettledHold

------------------------------------------------------------------------------
\* A nonempty set of naturals has a least element, and so does what is below a
\* bound have a greatest: Min and Max are what they are meant to be.
LEMMA MinNat ==
  ASSUME NEW S, S \subseteq Nat, S # {}
  PROVE  Min(S) \in S /\ \A x \in S : Min(S) <= x
  <1>1. PICK m \in S : \A y \in S : ~ (<<y, m>> \in OpToRel(<, Nat))
    BY NatLessThanWellFounded, WFMin, Zenon
  <1>2. ASSUME NEW y \in S PROVE m <= y
    <2>1. y \in Nat /\ m \in Nat
      OBVIOUS
    <2>2. ~ (<<y, m>> \in {ss \in Nat \X Nat : ss[1] < ss[2]})
      BY <1>1 DEF OpToRel
    <2> QED
      BY <2>1, <2>2
  <1> QED
    BY <1>2 DEF Min

LEMMA MaxNat ==
  ASSUME NEW S, S \subseteq Nat, S # {}, NEW n \in Nat, \A x \in S : x <= n
  PROVE  Max(S) \in S /\ \A x \in S : x <= Max(S)
  <1> DEFINE T == {n - x : x \in S}
  <1>1. T \subseteq Nat /\ T # {}
    <2>1. \A x \in S : n - x \in Nat
      OBVIOUS
    <2> QED
      BY <2>1
  <1>2. Min(T) \in T /\ \A y \in T : Min(T) <= y
    BY <1>1, MinNat
  <1>3. PICK m \in S : Min(T) = n - m
    BY <1>2
  <1>4. ASSUME NEW x \in S PROVE x <= m
    <2>1. n - x \in T /\ x \in Nat /\ m \in Nat
      OBVIOUS
    <2>2. n - m <= n - x
      BY <1>2, <1>3, <2>1
    <2> QED
      BY <2>1, <2>2
  <1> QED
    BY <1>4 DEF Max

------------------------------------------------------------------------------
(***************************************************************************)
(* Type correctness.                                                       *)
(***************************************************************************)
LEMMA PeriodType == \A t \in 0 .. MaxTime : Period(t) \in Periods
  BY ClockAssumption DEF Period, Periods

LEMMA PeriodEndType == \A p \in Periods : PeriodEnd(p) \in Int
  BY ClockAssumption DEF PeriodEnd, Periods

LEMMA NoneIsNot ==
  None \notin 0 .. MaxTime /\ None \notin Periods /\ None \notin Sessions /\ None \notin Nat
  <1>1. MaxTime \div Week \in Nat
    BY ClockAssumption
  <1>2. Periods \subseteq Nat /\ 0 .. MaxTime \subseteq Nat
    BY <1>1, ClockAssumption DEF Periods
  <1> QED
    BY <1>2, NullAssumption, SessionAssumption

\* A completed session has a period, and its end is a time.
LEMMA EndedType ==
  ASSUME TypeOK, NEW s \in Sessions, Completed(s)
  PROVE  ended[s] \in 0 .. MaxTime /\ Period(ended[s]) \in Periods
  BY PeriodType, NoneIsNot DEF TypeOK, Completed

LEMMA FiniteSessions ==
  ASSUME NEW S, S \subseteq Sessions
  PROVE  IsFiniteSet(S) /\ Cardinality(S) \in Nat
  BY SessionAssumption, FS_Subset, FS_CardinalityType

\* A position is a rank.
LEMMA PositionType ==
  ASSUME NEW T, T \subseteq Sessions, NEW s
  PROVE  Position(s, T) \in Nat /\ Position(s, T) >= 1
  <1>1. Cardinality({q \in T : Before(q, s)}) \in Nat
    BY FiniteSessions
  <1> QED
    BY <1>1 DEF Position

Tiers == Seq([min : Nat, max : Nat, reward : Nat])

LEMMA TierConfigType ==
  ASSUME NEW p, TierConfig(p) # {}
  PROVE  TierConfigs[Max(TierConfig(p))].tiers \in Tiers
  <1>1. TierConfig(p) \subseteq 1 .. Len(TierConfigs) /\ Len(TierConfigs) \in Nat
    BY TierAssumption DEF TierConfig
  <1>2. Max(TierConfig(p)) \in TierConfig(p)
    <2>1. TierConfig(p) \subseteq Nat /\ \A x \in TierConfig(p) : x <= Len(TierConfigs)
      BY <1>1
    <2> QED
      BY <1>1, <2>1, MaxNat
  <1>3. Max(TierConfig(p)) \in 1 .. Len(TierConfigs)
    BY <1>1, <1>2
  <1> DEFINE v == Max(TierConfig(p))
  <1>4. TierConfigs[v] \in [published : Nat, tiers : Tiers]
    <2>1. TierConfigs \in Seq([published : Nat, tiers : Tiers])
      BY TierAssumption DEF Tiers
    <2> QED
      BY <1>3, <2>1, ElementOfSeq
  <1> QED
    BY <1>4

\* The loop of settle_leaderboard pays scores of S only, each an amount of a tier.
LEMMA WinnersType ==
  ASSUME NEW S, S \subseteq Sessions, NEW tiers \in Tiers
  PROVE  Winners(S, tiers) \subseteq Winner
  <1>1. BestOf(S) \subseteq Sessions
    BY DEF BestOf
  <1>2. ASSUME NEW s \in BestOf(S), Matching(tiers, Position(s, BestOf(S))) # {}
        PROVE  [score |-> s, rank |-> Position(s, BestOf(S)),
                reward |-> tiers[Min(Matching(tiers, Position(s, BestOf(S))))].reward] \in Winner
    <2> DEFINE m == Matching(tiers, Position(s, BestOf(S)))
    <2>1. m \subseteq 1 .. Len(tiers) /\ Len(tiers) \in Nat
      BY DEF Matching, Tiers
    <2>2. m \subseteq Nat /\ m # {}
      BY <2>1, <1>2
    <2>3. Min(m) \in m
      BY <2>2, MinNat
    <2>4. Min(m) \in 1 .. Len(tiers)
      BY <2>1, <2>3
    <2>5. tiers[Min(m)] \in [min : Nat, max : Nat, reward : Nat]
      <3>1. tiers \in Seq([min : Nat, max : Nat, reward : Nat])
        BY DEF Tiers
      <3> QED
        BY <2>4, <3>1, ElementOfSeq
    <2> QED
      BY <1>1, <2>5, PositionType DEF Winner
  <1> QED
    BY <1>2 DEF Winners

LEMMA NoTxType == NoTx \in Transaction /\ WellFormed(NoTx)
  BY DEF NoTx, Transaction, WellFormed, Step, Plan

LEMMA TypeInit == Init => TypeOK
  <1> SUFFICES ASSUME Init PROVE TypeOK
    OBVIOUS
  <1>1. \A w \in Workers : tx[w] = NoTx /\ tx[w].plan # "score"
    BY DEF Init, NoTx
  <1> QED
    BY <1>1, ClockAssumption, NoTxType DEF Init, TypeOK

\* A step that replaces one transaction by a typed one keeps them all typed.
LEMMA TxUpdate ==
  ASSUME TypeOK, NEW w \in Workers, NEW t \in Transaction, WellFormed(t),
         t.plan = "score" => Completed(t.score),
         tx' = [tx EXCEPT ![w] = t], ended' = ended
  PROVE  /\ tx' \in [Workers -> Transaction]
         /\ \A v \in Workers :
              WellFormed(tx'[v]) /\ (tx'[v].plan = "score" => ended'[tx'[v].score] # None)
  <1>1. ASSUME NEW v \in Workers
        PROVE  WellFormed(tx'[v]) /\ (tx'[v].plan = "score" => ended'[tx'[v].score] # None)
    <2>1. tx'[v] = IF v = w THEN t ELSE tx[v]
      BY DEF TypeOK
    <2> QED
      BY <2>1 DEF TypeOK, Completed
  <1> QED
    BY <1>1 DEF TypeOK

LEMMA FinishType ==
  ASSUME TypeOK, NEW w \in Workers, Finish(w), ended' = ended
  PROVE  /\ tx' \in [Workers -> Transaction]
         /\ \A v \in Workers :
              WellFormed(tx'[v]) /\ (tx'[v].plan = "score" => ended'[tx'[v].score] # None)
  <1>1. NoTx.plan # "score"
    BY DEF NoTx
  <1> QED
    BY <1>1, NoTxType, TxUpdate DEF Finish

LEMMA TypeStep == TypeOK /\ [Next]_vars => TypeOK'
  <1> SUFFICES ASSUME TypeOK, [Next]_vars PROVE TypeOK'
    OBVIOUS
  <1>1. CASE Tick
    BY <1>1, ClockAssumption DEF Tick, rows, TypeOK, Completed
  <1>2. ASSUME NEW s \in Sessions, NEW v \in Values, CompleteSession(s, v) PROVE TypeOK'
    BY <1>2, NoneIsNot DEF CompleteSession, TypeOK, Completed
  <1>3. ASSUME NEW w \in Workers, NEW s \in Sessions, LockSession(w, s) PROVE TypeOK'
    <2> DEFINE new == [NoTx EXCEPT !.step = "insert", !.plan = "score", !.score = s,
                                   !.period = Period(ended[s])]
    <2>1. Period(ended[s]) \in Periods
      BY <1>3, EndedType DEF LockSession
    <2>2. new \in Transaction /\ WellFormed(new)
      BY <2>1, NoneIsNot, NoTxType DEF NoTx, Transaction, WellFormed, Step, Plan
    <2>3. new.score = s /\ Completed(s) /\ tx' = [tx EXCEPT ![w] = new] /\ UNCHANGED <<now, rows>>
      BY <1>3 DEF LockSession, NoTx
    <2> QED
      BY <2>2, <2>3, TxUpdate DEF TypeOK, rows, Completed
  <1>4. ASSUME NEW w \in Workers, InsertScore(w) PROVE TypeOK'
    <2> DEFINE new == [tx[w] EXCEPT !.step = "commit", !.revision = revision[tx[w].period] + 1]
    <2>1. tx[w] \in Transaction /\ WellFormed(tx[w]) /\ Completed(tx[w].score)
          /\ tx[w].plan = "score" /\ tx[w].period \in Periods
      BY <1>4 DEF InsertScore, TypeOK, WellFormed, Transaction
    <2>2. revision[tx[w].period] + 1 \in Nat
      BY <2>1 DEF TypeOK
    <2>3. new \in Transaction /\ WellFormed(new) /\ Completed(new.score)
      BY <2>1, <2>2, NoneIsNot DEF Transaction, WellFormed, Step
    <2>4. tx' = [tx EXCEPT ![w] = new] /\ UNCHANGED <<now, rows>>
      BY <1>4 DEF InsertScore, TypeOK
    <2> QED
      BY <2>3, <2>4, TxUpdate DEF TypeOK, rows, Completed
  <1>5. ASSUME NEW w \in Workers, CommitScore(w) PROVE TypeOK'
    <2>1. Finish(w) /\ UNCHANGED <<now, ended, points, runs>>
      BY <1>5 DEF CommitScore
    <2>2. recorded' \in [Sessions -> (0 .. MaxTime) \cup {None}]
      BY <1>5 DEF CommitScore, TypeOK
    <2>3. revision' \in [Periods -> Nat]
      <3>1. CASE recorded[tx[w].score] # None
        BY <1>5, <3>1 DEF CommitScore, TypeOK
      <3>2. CASE recorded[tx[w].score] = None
        <4>1. tx[w].revision \in Nat
          BY <1>5 DEF CommitScore, TypeOK, WellFormed, Transaction
        <4> QED
          BY <1>5, <3>2, <4>1 DEF CommitScore, TypeOK
      <3> QED
        BY <3>1, <3>2
    <2> QED
      BY <2>1, <2>2, <2>3, FinishType DEF TypeOK, Completed
  <1>6. ASSUME NEW w \in Workers, NEW p \in Periods, LockGame(w, p) PROVE TypeOK'
    <2> DEFINE new == [NoTx EXCEPT !.step = "scores", !.plan = "settle", !.period = p]
    <2>1. new \in Transaction /\ WellFormed(new) /\ new.plan # "score"
      BY <1>6, NoneIsNot, NoTxType DEF LockGame, NoTx, Transaction, WellFormed, Step, Plan
    <2>2. tx' = [tx EXCEPT ![w] = new] /\ UNCHANGED <<now, rows>>
      BY <1>6 DEF LockGame
    <2> QED
      BY <2>1, <2>2, TxUpdate DEF TypeOK, rows, Completed
  <1>7. ASSUME NEW w \in Workers, NEW p \in Periods, ReplayRun(w, p) PROVE TypeOK'
    BY <1>7 DEF ReplayRun, rows, TypeOK, Completed
  <1>8. ASSUME NEW w \in Workers, ReadScores(w) PROVE TypeOK'
    <2> DEFINE p == tx[w].period
               paid == Winners(Recorded(p), TierConfigs[Max(TierConfig(p))].tiers)
               new == [tx[w] EXCEPT !.step = "commit", !.counted = Recorded(p), !.winners = paid]
    <2>1. tx[w] \in Transaction /\ WellFormed(tx[w]) /\ tx[w].plan = "settle" /\ TierConfig(p) # {}
      BY <1>8 DEF ReadScores, TypeOK, WellFormed
    <2>2. Recorded(p) \subseteq Sessions
      BY DEF Recorded
    <2>3. paid \subseteq Winner
      BY <2>1, <2>2, TierConfigType, WinnersType
    <2>4. new \in Transaction /\ WellFormed(new) /\ new.plan # "score"
      <3> HIDE DEF paid
      <3> QED
        BY <2>1, <2>2, <2>3 DEF Transaction, WellFormed, Step
    <2>5. tx' = [tx EXCEPT ![w] = new] /\ UNCHANGED <<now, rows>>
      BY <1>8 DEF ReadScores, TypeOK
    <2> QED
      BY <2>4, <2>5, TxUpdate DEF TypeOK, rows, Completed
  <1>9. ASSUME NEW w \in Workers, CommitRun(w) PROVE TypeOK'
    <2>1. Finish(w) /\ UNCHANGED <<now, ended, points, recorded, revision>>
      BY <1>9 DEF CommitRun
    <2>2. runs' \in [Periods -> Run \cup {None}]
      <3>1. [counted |-> tx[w].counted, winners |-> tx[w].winners] \in Run
        BY DEF TypeOK, Transaction, Run
      <3> QED
        BY <1>9, <3>1 DEF CommitRun, TypeOK
    <2> QED
      BY <2>1, <2>2, FinishType DEF TypeOK, Completed
  <1>10. ASSUME NEW w \in Workers, Rollback(w) PROVE TypeOK'
    BY <1>10, FinishType DEF Rollback, rows, TypeOK, Completed
  <1>11. CASE UNCHANGED vars
    BY <1>11 DEF vars, rows, TypeOK, Completed
  <1> QED
    BY <1>1, <1>2, <1>3, <1>4, <1>5, <1>6, <1>7, <1>8, <1>9, <1>10, <1>11 DEF Next

------------------------------------------------------------------------------
(***************************************************************************)
(* The invariant.                                                          *)
(***************************************************************************)
LEMMA InvInit == Init => IInv
  <1> SUFFICES ASSUME Init PROVE IInv
    OBVIOUS
  <1>1. \A w \in Workers : tx[w].plan = "none"
    BY DEF Init, NoTx
  <1>2. (\A w \in Workers : SubmissionHolds(w)) /\ (\A w \in Workers : SettlementHolds(w))
    BY <1>1 DEF SubmissionHolds, SettlementHolds
  <1>3. RunsHold /\ RecordedEnded /\ SettledOnce /\ SettledHold
    BY DEF Init, RunsHold, RecordedEnded, SettledOnce, SettledHold
  <1>4. RevisionCounts
    <2>1. \A p \in Periods : Recorded(p) = {}
      BY DEF Init, Recorded
    <2> QED
      BY <2>1, FS_EmptySet DEF Init, RevisionCounts
  <1> QED
    BY <1>2, <1>3, <1>4, TypeInit DEF IInv

\* Parts of the invariant that read the score rows, the runs or the clock only.
RowsHold == RunsHold /\ RecordedEnded /\ RevisionCounts /\ SettledOnce /\ SettledHold

LEMMA RecordedSame ==
  ASSUME recorded' = recorded, \A s \in Sessions : recorded[s] # None => ended'[s] = ended[s]
  PROVE  \A p : Recorded(p)' = Recorded(p) /\ Timely(p)' = Timely(p)
  BY DEF Recorded, Timely, Period, PeriodEnd

\* Steps that only open, advance or drop a transaction keep the rows' agreement.
LEMMA RowsSame ==
  ASSUME RowsHold, UNCHANGED <<now, rows, settled, broken>>
  PROVE  RowsHold'
  <1>1. \A p : Recorded(p)' = Recorded(p) /\ Timely(p)' = Timely(p)
    BY RecordedSame DEF rows
  <1> QED
    BY <1>1 DEF RowsHold, RunsHold, RecordedEnded, RevisionCounts, SettledOnce, SettledHold,
                rows, Completed

\* A transaction that no step touches keeps what it holds while the rows it reads
\* stay as they are.
LEMMA FinishHolds ==
  ASSUME IInv, NEW w \in Workers, Finish(w), UNCHANGED <<now, rows>>
  PROVE  \A v \in Workers : SubmissionHolds(v)' /\ SettlementHolds(v)'
  <1>1. \A p : Recorded(p)' = Recorded(p) /\ Timely(p)' = Timely(p)
    BY RecordedSame DEF rows
  <1>2. \A v \in Workers : tx'[v] = IF v = w THEN NoTx ELSE tx[v]
    BY DEF IInv, TypeOK, Finish
  <1>3. NoTx.plan = "none"
    BY DEF NoTx
  <1> QED
    BY <1>1, <1>2, <1>3 DEF IInv, SubmissionHolds, SettlementHolds, rows, Period

LEMMA TickInv == IInv /\ Tick => IInv'
  <1> SUFFICES ASSUME IInv, Tick PROVE IInv'
    OBVIOUS
  <1>1. TypeOK'
    BY TypeStep DEF IInv, Next
  <1>2. \A p : Recorded(p)' = Recorded(p) /\ Timely(p)' = Timely(p)
    BY RecordedSame DEF Tick, rows
  <1>3. now \in Int /\ now' = now + 1
    BY DEF IInv, TypeOK, Tick
  <1>4. UNCHANGED <<tx, rows, settled, broken>>
    BY DEF Tick
  <1>5. \A p \in Periods : now >= PeriodEnd(p) => (now >= PeriodEnd(p))'
    BY <1>3, PeriodEndType DEF PeriodEnd
  <1>6. \A w \in Workers : SubmissionHolds(w)'
    BY <1>4 DEF IInv, SubmissionHolds, rows, Period
  <1>7. \A w \in Workers : SettlementHolds(w)'
    <2>1. \A w \in Workers : tx[w].plan = "settle" => tx[w].period \in Periods
      BY DEF IInv, TypeOK, WellFormed, Transaction
    <2> QED
      BY <1>2, <1>4, <1>5, <2>1 DEF IInv, SettlementHolds, rows
  <1>8. RunsHold' /\ RecordedEnded' /\ RevisionCounts' /\ SettledOnce' /\ SettledHold'
    BY <1>2, <1>4, <1>5 DEF IInv, RunsHold, RecordedEnded, RevisionCounts, SettledOnce, SettledHold,
                            rows, Completed
  <1> QED
    BY <1>1, <1>6, <1>7, <1>8 DEF IInv

LEMMA CompleteInv ==
  ASSUME IInv, NEW s \in Sessions, NEW v \in Values, CompleteSession(s, v)
  PROVE  IInv'
  <1>1. TypeOK'
    BY TypeStep DEF IInv, Next
  <1>2. recorded[s] = None
    BY DEF IInv, RecordedEnded, CompleteSession
  <1>3. \A q \in Sessions : Completed(q) => ended'[q] = ended[q]
    BY DEF IInv, TypeOK, CompleteSession, Completed
  <1>4. \A p : Recorded(p)' = Recorded(p) /\ Timely(p)' = Timely(p)
    BY <1>2, <1>3, RecordedSame DEF IInv, CompleteSession, RecordedEnded
  <1>5. UNCHANGED <<now, recorded, revision, runs, tx, settled, broken>>
    BY DEF CompleteSession
  <1>6. \A w \in Workers : SubmissionHolds(w)'
    <2>1. \A w \in Workers : tx[w].plan = "score" =>
             tx[w].score \in Sessions /\ ended'[tx[w].score] = ended[tx[w].score]
      BY <1>3 DEF IInv, TypeOK, WellFormed, Transaction
    <2> QED
      BY <1>5, <2>1 DEF IInv, SubmissionHolds, Period
  <1>7. \A w \in Workers : SettlementHolds(w)'
    BY <1>4, <1>5 DEF IInv, SettlementHolds, PeriodEnd
  <1>8. RunsHold' /\ RecordedEnded' /\ RevisionCounts' /\ SettledOnce' /\ SettledHold'
    <2>1. RecordedEnded'
      BY <1>3, <1>5 DEF IInv, RecordedEnded, Completed
    <2> QED
      BY <1>4, <1>5, <2>1 DEF IInv, RunsHold, RevisionCounts, SettledOnce, SettledHold, PeriodEnd
  <1> QED
    BY <1>1, <1>6, <1>7, <1>8 DEF IInv

LEMMA LockSessionInv ==
  ASSUME IInv, NEW w \in Workers, NEW s \in Sessions, LockSession(w, s)
  PROVE  IInv'
  <1>1. TypeOK'
    BY TypeStep DEF IInv, Next
  <1>2. RowsHold'
    BY RowsSame DEF IInv, RowsHold, LockSession
  <1>3. \A p : Recorded(p)' = Recorded(p) /\ Timely(p)' = Timely(p)
    BY RecordedSame DEF LockSession, rows
  <1>4. UNCHANGED <<now, ended, recorded, revision, runs>>
    BY DEF LockSession, rows
  <1>5. \A v \in Workers \ {w} : tx'[v] = tx[v]
    BY DEF IInv, TypeOK, LockSession
  <1>6. /\ tx'[w].plan = "score" /\ tx'[w].step = "insert" /\ tx'[w].score = s
        /\ tx'[w].period = Period(ended[s]) /\ recorded[s] = None /\ tx[w].plan = "none"
    BY DEF IInv, TypeOK, WellFormed, LockSession, NoTx, Idle
  <1>7. \A v \in Workers \ {w} : tx[v].plan = "score" => tx[v].score # s
    BY DEF LockSession, SessionFree
  <1>8. \A v \in Workers : SubmissionHolds(v)'
    BY <1>4, <1>5, <1>6, <1>7 DEF IInv, SubmissionHolds, Period
  <1>9. \A v \in Workers : SettlementHolds(v)'
    BY <1>3, <1>4, <1>5, <1>6 DEF IInv, SettlementHolds, PeriodEnd
  <1> QED
    BY <1>1, <1>2, <1>8, <1>9 DEF IInv, RowsHold

LEMMA InsertInv ==
  ASSUME IInv, NEW w \in Workers, InsertScore(w)
  PROVE  IInv'
  <1>1. TypeOK'
    BY TypeStep DEF IInv, Next
  <1>2. RowsHold'
    BY RowsSame DEF IInv, RowsHold, InsertScore
  <1>3. \A p : Recorded(p)' = Recorded(p) /\ Timely(p)' = Timely(p)
    BY RecordedSame DEF InsertScore, rows
  <1>4. UNCHANGED <<now, ended, recorded, revision, runs>>
    BY DEF InsertScore, rows
  <1>5. \A v \in Workers \ {w} : tx'[v] = tx[v]
    BY DEF IInv, TypeOK, InsertScore
  <1>6. /\ tx[w].plan = "score" /\ tx'[w].plan = "score" /\ tx'[w].step = "commit"
        /\ tx'[w].score = tx[w].score /\ tx'[w].period = tx[w].period
        /\ tx'[w].revision = revision[tx[w].period] + 1
    BY DEF IInv, TypeOK, WellFormed, Transaction, InsertScore
  <1>7. \A v \in Workers \ {w} :
           tx[v].plan = "score" /\ tx[v].step = "commit" => tx[v].period # tx[w].period
    BY DEF InsertScore, RevisionFree
  <1>8. \A v \in Workers : SubmissionHolds(v)'
    BY <1>4, <1>5, <1>6, <1>7 DEF IInv, SubmissionHolds, Period
  <1>9. \A v \in Workers : SettlementHolds(v)'
    BY <1>3, <1>4, <1>5, <1>6 DEF IInv, SettlementHolds, PeriodEnd
  <1> QED
    BY <1>1, <1>2, <1>8, <1>9 DEF IInv, RowsHold

\* The commit of a score adds it to its period; if the period is over by then, the
\* score is not a timely one.
LEMMA CommitScoreInv ==
  ASSUME IInv, NEW w \in Workers, CommitScore(w)
  PROVE  IInv'
  <1>1. TypeOK'
    BY TypeStep DEF IInv, Next
  <1>a. tx[w].score \in Sessions /\ tx[w].period \in Periods
    BY DEF IInv, TypeOK, WellFormed, Transaction, CommitScore
  <1>b. PICK s \in Sessions, p \in Periods : s = tx[w].score /\ p = tx[w].period
    BY <1>a
  <1>2. /\ Completed(s) /\ recorded[s] = None
        /\ p = Period(ended[s]) /\ tx[w].revision = revision[p] + 1
    BY <1>b DEF IInv, TypeOK, CommitScore, SubmissionHolds
  <1>3. /\ recorded' = [recorded EXCEPT ![s] = now]
        /\ revision' = [revision EXCEPT ![p] = revision[p] + 1]
        /\ UNCHANGED <<now, ended, points, runs, settled, broken>>
    BY <1>b, <1>2 DEF CommitScore
  <1>4. now # None /\ now \in Int
    BY NoneIsNot DEF IInv, TypeOK
  <1>5. Recorded(p)' = Recorded(p) \cup {s} /\ s \notin Recorded(p)
    BY <1>2, <1>3, <1>4 DEF Recorded, IInv, TypeOK, Period
  <1>6. \A q \in Periods : q # p => Recorded(q)' = Recorded(q)
    BY <1>2, <1>3, <1>4 DEF Recorded, IInv, TypeOK, Period
  <1>7. \A q \in Periods : Recorded(q) \subseteq Recorded(q)'
    BY <1>5, <1>6
  <1>8. ASSUME NEW q \in Periods, now >= PeriodEnd(q)
        PROVE  Timely(q)' \subseteq Timely(q)
    <2>1. ASSUME NEW r \in Recorded(q)', recorded'[r] < PeriodEnd(q) PROVE r \in Timely(q)
      <3>1. r # s
        BY <1>2, <1>3, <1>4, <1>8, <2>1, PeriodEndType DEF IInv, TypeOK
      <3>2. r \in Recorded(q) /\ recorded'[r] = recorded[r]
        BY <1>2, <1>3, <1>5, <1>6, <2>1, <3>1 DEF IInv, TypeOK
      <3> QED
        BY <2>1, <3>2 DEF Timely
    <2> QED
      BY <2>1 DEF Timely, PeriodEnd
  <1>9. \A v \in Workers : tx'[v] = IF v = w THEN NoTx ELSE tx[v]
    BY DEF IInv, TypeOK, CommitScore, Finish
  <1>10. NoTx.plan = "none" /\ tx[w].plan = "score" /\ tx[w].step = "commit"
    BY DEF NoTx, CommitScore
  <1>11. ASSUME NEW v \in Workers PROVE SubmissionHolds(v)'
    <2>1. CASE v = w \/ tx[v].plan # "score"
      BY <1>9, <1>10, <2>1 DEF SubmissionHolds
    <2>2. CASE v # w /\ tx[v].plan = "score"
      <3>1. tx[v].score # s /\ (tx[v].step = "commit" => tx[v].period # p)
        BY <1>b, <1>10, <2>2 DEF IInv, SubmissionHolds
      <3>2. tx[v].score \in Sessions /\ tx[v].period \in Periods
        BY <2>2 DEF IInv, TypeOK, WellFormed, Transaction
      <3>3. recorded'[tx[v].score] = recorded[tx[v].score]
            /\ (tx[v].step = "commit" => revision'[tx[v].period] = revision[tx[v].period])
        BY <1>3, <3>1, <3>2 DEF IInv, TypeOK
      <3> QED
        BY <1>3, <1>9, <1>10, <2>2, <3>3 DEF IInv, SubmissionHolds, Period
    <2> QED
      BY <2>1, <2>2
  <1>12. ASSUME NEW v \in Workers PROVE SettlementHolds(v)'
    <2>1. CASE v = w \/ tx[v].plan # "settle"
      BY <1>9, <1>10, <2>1 DEF SettlementHolds
    <2>2. CASE v # w /\ tx[v].plan = "settle"
      <3>1. tx[v].period \in Periods /\ now >= PeriodEnd(tx[v].period)
        BY <2>2 DEF IInv, TypeOK, WellFormed, Transaction, SettlementHolds
      <3>2. PICK q \in Periods : q = tx[v].period
        BY <3>1
      <3>3. Timely(q)' \subseteq Timely(q) /\ Recorded(q) \subseteq Recorded(q)'
        BY <1>7, <1>8, <3>1, <3>2
      <3>4. tx'[v] = tx[v] /\ (\A u \in Workers : tx'[u].plan = "settle" => tx[u].plan = "settle")
        BY <1>9, <1>10, <2>2
      <3> QED
        BY <1>3, <2>2, <3>1, <3>2, <3>3, <3>4 DEF IInv, SettlementHolds, PeriodEnd
    <2> QED
      BY <2>1, <2>2
  <1>13. RunsHold'
    BY <1>3, <1>7, <1>8 DEF IInv, RunsHold, PeriodEnd
  <1>14. RecordedEnded'
    BY <1>2, <1>3 DEF IInv, TypeOK, RecordedEnded, Completed
  <1>15. RevisionCounts'
    <2>1. \A q \in Periods : IsFiniteSet(Recorded(q)) /\ Cardinality(Recorded(q)) \in Nat
      BY FiniteSessions DEF Recorded
    <2>2. Cardinality(Recorded(p)') = Cardinality(Recorded(p)) + 1
      BY <1>2, <1>5, <2>1, FS_AddElement
    <2>3. ASSUME NEW q \in Periods PROVE revision'[q] = Cardinality(Recorded(q)')
      BY <1>2, <1>3, <1>6, <2>2 DEF IInv, TypeOK, RevisionCounts
    <2> QED
      BY <2>3 DEF RevisionCounts
  <1>16. SettledOnce' /\ SettledHold'
    BY <1>3 DEF IInv, SettledOnce, SettledHold
  <1> QED
    BY <1>1, <1>11, <1>12, <1>13, <1>14, <1>15, <1>16 DEF IInv

LEMMA LockGameInv ==
  ASSUME IInv, NEW w \in Workers, NEW p \in Periods, LockGame(w, p)
  PROVE  IInv'
  <1>1. TypeOK'
    BY TypeStep DEF IInv, Next
  <1>2. RowsHold'
    BY RowsSame DEF IInv, RowsHold, LockGame
  <1>3. \A q : Recorded(q)' = Recorded(q) /\ Timely(q)' = Timely(q)
    BY RecordedSame DEF LockGame, rows
  <1>4. UNCHANGED <<now, ended, recorded, revision, runs>>
    BY DEF LockGame, rows
  <1>5. \A v \in Workers \ {w} : tx'[v] = tx[v]
    BY DEF IInv, TypeOK, LockGame
  <1>6. /\ tx'[w].plan = "settle" /\ tx'[w].step = "scores" /\ tx'[w].period = p
        /\ runs[p] = None /\ now >= PeriodEnd(p)
    BY DEF IInv, TypeOK, LockGame, NoTx, PeriodOver
  <1>7. \A v \in Workers \ {w} : tx[v].plan # "settle"
    BY DEF LockGame, GameFree, GameLocked
  <1>8. \A v \in Workers : SubmissionHolds(v)'
    BY <1>4, <1>5, <1>6 DEF IInv, SubmissionHolds, Period
  <1>9. \A v \in Workers : SettlementHolds(v)'
    BY <1>4, <1>5, <1>6, <1>7 DEF SettlementHolds, PeriodEnd
  <1> QED
    BY <1>1, <1>2, <1>8, <1>9 DEF IInv, RowsHold

LEMMA ReplayInv ==
  ASSUME IInv, NEW w \in Workers, NEW p \in Periods, ReplayRun(w, p)
  PROVE  IInv'
  <1>1. TypeOK'
    BY TypeStep DEF IInv, Next
  <1>2. UNCHANGED <<now, rows, tx, broken>>
    BY DEF ReplayRun
  <1>3. \A q : Recorded(q)' = Recorded(q) /\ Timely(q)' = Timely(q)
    BY <1>2, RecordedSame DEF rows
  <1>4. SettledHold'
    BY <1>2 DEF IInv, SettledHold, ReplayRun, rows
  <1>5. \A v \in Workers : SubmissionHolds(v)' /\ SettlementHolds(v)'
    BY <1>2, <1>3 DEF IInv, SubmissionHolds, SettlementHolds, rows, Period, PeriodEnd
  <1>6. RunsHold' /\ RecordedEnded' /\ RevisionCounts' /\ SettledOnce'
    BY <1>2, <1>3 DEF IInv, RunsHold, RecordedEnded, RevisionCounts, SettledOnce, rows,
                      Completed, PeriodEnd
  <1> QED
    BY <1>1, <1>4, <1>5, <1>6 DEF IInv

LEMMA ReadScoresInv ==
  ASSUME IInv, NEW w \in Workers, ReadScores(w)
  PROVE  IInv'
  <1>1. TypeOK'
    BY TypeStep DEF IInv, Next
  <1>2. RowsHold'
    BY RowsSame DEF IInv, RowsHold, ReadScores
  <1>3. \A q : Recorded(q)' = Recorded(q) /\ Timely(q)' = Timely(q)
    BY RecordedSame DEF ReadScores, rows
  <1>4. UNCHANGED <<now, ended, recorded, revision, runs>>
    BY DEF ReadScores, rows
  <1>5. \A v \in Workers \ {w} : tx'[v] = tx[v]
    BY DEF IInv, TypeOK, ReadScores
  <1>6. PICK p \in Periods : p = tx[w].period
    BY DEF IInv, TypeOK, WellFormed, Transaction, ReadScores
  <1>7. /\ tx[w].plan = "settle" /\ tx'[w].plan = "settle" /\ tx'[w].step = "commit"
        /\ tx'[w].period = p /\ tx'[w].counted = Recorded(p)
    BY <1>6 DEF IInv, TypeOK, WellFormed, Transaction, ReadScores
  <1>8. Timely(p) \subseteq Recorded(p)
    BY DEF Timely
  <1>9. \A v \in Workers : SubmissionHolds(v)'
    BY <1>4, <1>5, <1>7 DEF IInv, SubmissionHolds, Period
  <1>10. \A v \in Workers : SettlementHolds(v)'
    BY <1>3, <1>4, <1>5, <1>6, <1>7, <1>8 DEF IInv, SettlementHolds, PeriodEnd
  <1> QED
    BY <1>1, <1>2, <1>9, <1>10 DEF IInv, RowsHold

\* No other settlement is open while the game is locked, so the run that commits is
\* the first of its period.
LEMMA CommitRunInv ==
  ASSUME IInv, NEW w \in Workers, CommitRun(w)
  PROVE  IInv'
  <1>1. TypeOK'
    BY TypeStep DEF IInv, Next
  <1>2. UNCHANGED <<now, ended, points, recorded, revision>>
    BY DEF CommitRun
  <1>3. \A q : Recorded(q)' = Recorded(q) /\ Timely(q)' = Timely(q)
    BY <1>2, RecordedSame
  <1>4. PICK p \in Periods : p = tx[w].period
    BY DEF IInv, TypeOK, WellFormed, Transaction, CommitRun
  <1>5. PICK S, W : S = tx[w].counted /\ W = tx[w].winners
    OBVIOUS
  <1>6. /\ runs[p] = None /\ now >= PeriodEnd(p)
        /\ Timely(p) \subseteq S /\ S \subseteq Recorded(p)
        /\ \A v \in Workers \ {w} : tx[v].plan # "settle"
    BY <1>4, <1>5 DEF IInv, CommitRun, SettlementHolds
  <1>7. /\ runs' = [runs EXCEPT ![p] = [counted |-> S, winners |-> W]]
        /\ settled' = settled \cup {<<p, W>>}
        /\ broken' = broken
    BY <1>4, <1>5, <1>6 DEF CommitRun
  <1>8. \A v \in Workers : tx'[v] = IF v = w THEN NoTx ELSE tx[v]
    BY DEF IInv, TypeOK, CommitRun, Finish
  <1>9. NoTx.plan = "none"
    BY DEF NoTx
  <1>10. \A v \in Workers : SubmissionHolds(v)'
    BY <1>2, <1>8, <1>9 DEF IInv, SubmissionHolds, Period
  <1>11. \A v \in Workers : SettlementHolds(v)'
    BY <1>6, <1>8, <1>9 DEF SettlementHolds
  <1>12. [counted |-> S, winners |-> W] # None
    <2>1. [counted |-> S, winners |-> W] \in Run
      BY <1>5 DEF IInv, TypeOK, Transaction, Run
    <2> QED
      BY <2>1, RunAssumption
  <1>13. \A q \in Periods : runs'[q] = IF q = p THEN [counted |-> S, winners |-> W] ELSE runs[q]
    BY <1>7 DEF IInv, TypeOK
  <1>14. RunsHold'
    BY <1>2, <1>3, <1>6, <1>13 DEF IInv, RunsHold, PeriodEnd
  <1>15. SettledHold'
    BY <1>6, <1>7, <1>12, <1>13 DEF IInv, SettledHold
  <1>16. RecordedEnded' /\ RevisionCounts' /\ SettledOnce'
    BY <1>2, <1>3, <1>7 DEF IInv, RecordedEnded, RevisionCounts, SettledOnce, Completed
  <1> QED
    BY <1>1, <1>10, <1>11, <1>14, <1>15, <1>16 DEF IInv

LEMMA RollbackInv ==
  ASSUME IInv, NEW w \in Workers, Rollback(w)
  PROVE  IInv'
  <1>1. TypeOK'
    BY TypeStep DEF IInv, Next
  <1>2. RowsHold'
    BY RowsSame DEF IInv, RowsHold, Rollback
  <1>3. \A v \in Workers : SubmissionHolds(v)' /\ SettlementHolds(v)'
    BY FinishHolds DEF Rollback
  <1> QED
    BY <1>1, <1>2, <1>3 DEF IInv, RowsHold

LEMMA StutterInv == IInv /\ UNCHANGED vars => IInv'
  <1> SUFFICES ASSUME IInv, UNCHANGED vars PROVE IInv'
    OBVIOUS
  <1>1. TypeOK'
    BY TypeStep DEF IInv
  <1>2. UNCHANGED <<now, rows, tx, settled, broken>>
    BY DEF vars
  <1>3. RowsHold'
    BY <1>2, RowsSame DEF IInv, RowsHold
  <1>4. \A q : Recorded(q)' = Recorded(q) /\ Timely(q)' = Timely(q)
    BY <1>2, RecordedSame DEF rows
  <1>5. \A v \in Workers : SubmissionHolds(v)' /\ SettlementHolds(v)'
    BY <1>2, <1>4 DEF IInv, SubmissionHolds, SettlementHolds, rows, Period, PeriodEnd
  <1> QED
    BY <1>1, <1>3, <1>5 DEF IInv, RowsHold

LEMMA InvStep == IInv /\ [Next]_vars => IInv'
  BY TickInv, CompleteInv, LockSessionInv, InsertInv, CommitScoreInv, LockGameInv, ReplayInv,
     ReadScoresInv, CommitRunInv, RollbackInv, StutterInv DEF Next

------------------------------------------------------------------------------
(***************************************************************************)
(* Theorems.                                                               *)
(***************************************************************************)
\* IInv is an invariant: the rows agree, and what an open submission or settlement
\* has read stays true until it commits.
THEOREM Invariance == Spec => []IInv
  BY InvInit, InvStep, PTL DEF Spec

\* Every variable has its type.
THEOREM TypeCorrect == Spec => []TypeOK
  <1>1. IInv => TypeOK
    BY DEF IInv
  <1> QED
    BY <1>1, Invariance, PTL

\* For any number of handlers, sessions and periods, a settlement counts every score
\* that was committed before its period ended, and committed scores only.
THEOREM NoTimelyScoreIsLost == Spec => []TimelyScoresCount
  <1>1. IInv => TimelyScoresCount
    BY DEF IInv, RunsHold, TimelyScoresCount
  <1> QED
    BY <1>1, Invariance, PTL

\* The revision of a period, which readers of the projection trust, is the number of
\* its committed scores.
THEOREM RevisionIsCount == Spec => []RevisionCounts
  <1>1. IInv => RevisionCounts
    BY DEF IInv
  <1> QED
    BY <1>1, Invariance, PTL

\* No submission and no settlement ever meets a unique constraint.
THEOREM OncePerSessionAndPeriod == Spec => []SettledOnce
  <1>1. IInv => SettledOnce
    BY DEF IInv
  <1> QED
    BY <1>1, Invariance, PTL

\* All answers to the settlement of one period are the same recipients.
THEOREM AnswersNeverChange == Spec => []SameRecipients
  <1>1. IInv => SameRecipients
    BY DEF IInv, SettledHold, SameRecipients
  <1> QED
    BY <1>1, Invariance, PTL

------------------------------------------------------------------------------
(***************************************************************************)
(* Settlement implements SettlementContract: the commits are the steps of  *)
(* the contract, and everything before a commit is a stutter.              *)
(***************************************************************************)
LEMMA RefinesInit == Init => Contract!Init
  <1> SUFFICES ASSUME Init PROVE Contract!Init
    OBVIOUS
  <1>1. TimelyScores = {} /\ LateScores = {}
    BY DEF Init, TimelyScores, LateScores
  <1>2. PeriodOf = [s \in Sessions |-> None]
    BY DEF Init, PeriodOf, Completed
  <1>3. CountedIn = [p \in Periods |-> None]
    BY DEF Init, CountedIn
  <1> QED
    BY <1>1, <1>2, <1>3 DEF Contract!Init

\* Rows that stay as they are.
LEMMA RefinesStutter ==
  ASSUME UNCHANGED rows
  PROVE  UNCHANGED Contract!vars
  BY DEF rows, Contract!vars, TimelyScores, LateScores, PeriodOf, CountedIn, InTime, Completed,
         Period, PeriodEnd

LEMMA RefinesComplete ==
  ASSUME IInv, NEW s \in Sessions, NEW v \in Values, CompleteSession(s, v)
  PROVE  \E p \in Periods : Contract!Complete(s, p)
  <1>1. now \in 0 .. MaxTime /\ now # None
    BY NoneIsNot DEF IInv, TypeOK
  <1>2. PICK p \in Periods : p = Period(now)
    BY <1>1, PeriodType
  <1>3. recorded[s] = None /\ ended[s] = None
    BY DEF IInv, RecordedEnded, CompleteSession, Completed
  <1>4. ended' = [ended EXCEPT ![s] = now] /\ recorded' = recorded /\ runs' = runs
    BY DEF CompleteSession
  <1>5. \A q \in Sessions : ended'[q] = IF q = s THEN now ELSE ended[q]
    BY <1>4 DEF IInv, TypeOK
  <1>6. PeriodOf' = [PeriodOf EXCEPT ![s] = p] /\ PeriodOf[s] = None
    BY <1>1, <1>2, <1>3, <1>5 DEF PeriodOf, Completed, Period
  <1>7. UNCHANGED <<TimelyScores, LateScores, CountedIn>>
    BY <1>3, <1>4, <1>5 DEF TimelyScores, LateScores, CountedIn, InTime, Period, PeriodEnd
  <1> QED
    BY <1>6, <1>7 DEF Contract!Complete

LEMMA RefinesCommitScore ==
  ASSUME IInv, NEW w \in Workers, CommitScore(w)
  PROVE  \E s \in Sessions : Contract!Record(s)
  <1>1. tx[w].score \in Sessions /\ tx[w].period \in Periods
    BY DEF IInv, TypeOK, WellFormed, Transaction, CommitScore
  <1>2. PICK s \in Sessions, p \in Periods : s = tx[w].score /\ p = tx[w].period
    BY <1>1
  <1>3. Completed(s) /\ recorded[s] = None /\ p = Period(ended[s])
    BY <1>2 DEF IInv, TypeOK, CommitScore, SubmissionHolds
  <1>4. recorded' = [recorded EXCEPT ![s] = now] /\ ended' = ended /\ runs' = runs
    BY <1>2, <1>3 DEF CommitScore
  <1>5. now # None /\ now \in Int
    BY NoneIsNot DEF IInv, TypeOK
  <1>6. \A q \in Sessions : recorded'[q] = IF q = s THEN now ELSE recorded[q]
    BY <1>4 DEF IInv, TypeOK
  <1>7. UNCHANGED <<PeriodOf, CountedIn>> /\ PeriodOf[s] = p /\ p # None
    BY <1>3, <1>4, NoneIsNot DEF PeriodOf, CountedIn, Completed, Period
  <1>8. s \notin TimelyScores \cup LateScores
    BY <1>3 DEF TimelyScores, LateScores
  <1>9. CASE now < PeriodEnd(p)
    <2>1. CountedIn[p] = None
      BY <1>5, <1>9, PeriodEndType DEF IInv, RunsHold, CountedIn
    <2>2. TimelyScores' = TimelyScores \cup {s} /\ LateScores' = LateScores
      BY <1>3, <1>4, <1>5, <1>6, <1>9 DEF TimelyScores, LateScores, InTime, Period, PeriodEnd
    <2> QED
      BY <1>7, <1>8, <2>1, <2>2 DEF Contract!Record
  <1>10. CASE ~(now < PeriodEnd(p))
    <2>1. LateScores' = LateScores \cup {s} /\ TimelyScores' = TimelyScores
      BY <1>3, <1>4, <1>5, <1>6, <1>10 DEF TimelyScores, LateScores, InTime, Period, PeriodEnd
    <2> QED
      BY <1>7, <1>8, <2>1 DEF Contract!Record
  <1> QED
    BY <1>9, <1>10

LEMMA RefinesCommitRun ==
  ASSUME IInv, NEW w \in Workers, CommitRun(w)
  PROVE  \E p \in Periods : Contract!Settle(p)
  <1>1. PICK p \in Periods : p = tx[w].period
    BY DEF IInv, TypeOK, WellFormed, Transaction, CommitRun
  <1>2. PICK S, W : S = tx[w].counted /\ W = tx[w].winners
    OBVIOUS
  <1>3. runs[p] = None /\ Timely(p) \subseteq S /\ S \subseteq Recorded(p)
    BY <1>1, <1>2 DEF IInv, CommitRun, SettlementHolds
  <1>4. runs' = [runs EXCEPT ![p] = [counted |-> S, winners |-> W]]
        /\ UNCHANGED <<ended, recorded>>
    BY <1>1, <1>2, <1>3 DEF CommitRun
  <1>5. [counted |-> S, winners |-> W] # None
    <2>1. [counted |-> S, winners |-> W] \in Run
      BY <1>2 DEF IInv, TypeOK, Transaction, Run
    <2> QED
      BY <2>1, RunAssumption
  <1>6. UNCHANGED <<TimelyScores, LateScores, PeriodOf>>
    BY <1>4 DEF TimelyScores, LateScores, PeriodOf, InTime, Completed, Period, PeriodEnd
  <1>7. CountedIn[p] = None /\ CountedIn' = [CountedIn EXCEPT ![p] = S]
    BY <1>3, <1>4, <1>5 DEF CountedIn, IInv, TypeOK
  <1>8. Contract!Recorded(p) = Recorded(p)
    BY NoneIsNot DEF Contract!Recorded, Recorded, TimelyScores, LateScores, PeriodOf, IInv, RecordedEnded
  <1>9. Contract!Recorded(p) \cap TimelyScores = Timely(p)
    BY <1>8 DEF Recorded, TimelyScores, Timely, InTime
  <1> QED
    BY <1>3, <1>6, <1>7, <1>8, <1>9 DEF Contract!Settle

LEMMA RefinesStep == IInv /\ [Next]_vars => [Contract!Next]_(Contract!vars)
  <1> SUFFICES ASSUME IInv, [Next]_vars PROVE Contract!Next \/ UNCHANGED Contract!vars
    OBVIOUS
  <1>1. ASSUME NEW s \in Sessions, NEW v \in Values, CompleteSession(s, v) PROVE Contract!Next
    BY <1>1, RefinesComplete DEF Contract!Next
  <1>2. ASSUME NEW w \in Workers, CommitScore(w) PROVE Contract!Next
    BY <1>2, RefinesCommitScore DEF Contract!Next
  <1>3. ASSUME NEW w \in Workers, CommitRun(w) PROVE Contract!Next
    BY <1>3, RefinesCommitRun DEF Contract!Next
  <1>4. Tick \/ UNCHANGED vars => UNCHANGED rows
    BY DEF Tick, vars
  <1>5. ASSUME NEW w \in Workers, InsertScore(w) \/ ReadScores(w) \/ Rollback(w) PROVE UNCHANGED rows
    BY <1>5 DEF InsertScore, ReadScores, Rollback
  <1>6. ASSUME NEW w \in Workers, NEW s \in Sessions, LockSession(w, s) PROVE UNCHANGED rows
    BY <1>6 DEF LockSession
  <1>7. ASSUME NEW w \in Workers, NEW p \in Periods, LockGame(w, p) \/ ReplayRun(w, p)
        PROVE  UNCHANGED rows
    BY <1>7 DEF LockGame, ReplayRun
  <1> QED
    BY <1>1, <1>2, <1>3, <1>4, <1>5, <1>6, <1>7, RefinesStutter DEF Next

\* Submissions and settlements, with their locks and their separate reads and
\* commits, implement the contract in which each is one step.
THEOREM Refinement == Spec => ImplementsSettlementContract
  BY RefinesInit, RefinesStep, Invariance, PTL DEF Spec, ImplementsSettlementContract, Contract!Spec

------------------------------------------------------------------------------
(***************************************************************************)
(* Rewards.  The loop of settle_leaderboard ranks the list of best scores; *)
(* the rules rank players.  They agree because the ranking order is total  *)
(* on completed sessions, so that every player has one best score, and the *)
(* best scores ahead of it belong to the players who have a better one.    *)
(***************************************************************************)
Scored(S) == S \subseteq Sessions /\ \A s \in S : points[s] \in Nat /\ ended[s] \in Nat

LEMMA BeforeOrder ==
  ASSUME NEW S, Scored(S)
  PROVE  /\ \A s \in S : ~Before(s, s)
         /\ \A q, r, s \in S : Before(q, r) /\ Before(r, s) => Before(q, s)
         /\ \A q, s \in S : q = s \/ Before(q, s) \/ Before(s, q)
  <1>1. \A s \in S : s \in Nat /\ points[s] \in Nat /\ ended[s] \in Nat
    BY SessionAssumption DEF Scored
  <1>2. \A s \in S : ~Before(s, s)
    BY <1>1 DEF Before
  <1>3. \A q, r, s \in S : Before(q, r) /\ Before(r, s) => Before(q, s)
    BY <1>1 DEF Before
  <1>4. \A q, s \in S : q = s \/ Before(q, s) \/ Before(s, q)
    BY <1>1 DEF Before
  <1> QED
    BY <1>2, <1>3, <1>4

\* Who is ahead stands at a smaller position.
LEMMA PositionStrict ==
  ASSUME NEW S, Scored(S), NEW q \in S, NEW s \in S, Before(q, s)
  PROVE  Position(q, S) < Position(s, S)
  <1> DEFINE A == {x \in S : Before(x, q)}
             B == {x \in S : Before(x, s)}
  <1>1. A \subseteq B /\ q \in B /\ q \notin A
    BY BeforeOrder
  <1>2. IsFiniteSet(B) /\ Cardinality(A) \in Nat /\ Cardinality(B) \in Nat
    BY FiniteSessions DEF Scored
  <1>3. Cardinality(A) <= Cardinality(B) /\ (Cardinality(B) = Cardinality(A) => B = A)
    BY <1>1, <1>2, FS_Subset
  <1> QED
    BY <1>1, <1>2, <1>3 DEF Position

\* The positions of S are 1 to its size, each taken by one score.
LEMMA PositionOnto ==
  ASSUME NEW S, Scored(S), NEW k \in 1 .. Cardinality(S)
  PROVE  \E s \in S : Position(s, S) = k
  <1> DEFINE T == 1 .. Cardinality(S)
             f == [s \in S |-> Position(s, S)]
  <1>1. IsFiniteSet(S) /\ Cardinality(S) \in Nat
    BY FiniteSessions DEF Scored
  <1>2. IsFiniteSet(T) /\ Cardinality(T) = Cardinality(S)
    BY <1>1, FS_Interval
  <1>3. ASSUME NEW s \in S PROVE Position(s, S) \in T
    <2> DEFINE B == {x \in S : Before(x, s)}
    <2>1. s \notin B
      BY BeforeOrder
    <2>2. Cardinality(B) \in Nat /\ Cardinality(B) <= Cardinality(S)
          /\ (Cardinality(S) = Cardinality(B) => S = B)
      BY <1>1, FS_Subset, FS_CardinalityType
    <2>3. Cardinality(B) # Cardinality(S)
      BY <2>1, <2>2
    <2> QED
      BY <1>1, <2>2, <2>3 DEF Position
  <1>4. ASSUME NEW q \in S, NEW s \in S, Position(q, S) = Position(s, S) PROVE q = s
    <2>1. Position(q, S) \in Nat
      BY <1>1, <1>3
    <2>2. Before(q, s) => Position(q, S) < Position(s, S)
      BY PositionStrict
    <2>3. Before(s, q) => Position(s, S) < Position(q, S)
      BY PositionStrict
    <2> QED
      BY <1>4, <2>1, <2>2, <2>3, BeforeOrder
  <1>5. f \in [S -> T]
    BY <1>3
  <1>6. f \in Injection(S, T)
    BY <1>4, <1>5 DEF Injection, IsInjective
  <1>7. f \in Surjection(S, T)
    BY <1>2, <1>6, FS_Injection
  <1> QED
    BY <1>7 DEF Surjection

\* Every player has one best score.
LEMMA BestExists ==
  ASSUME NEW S, Scored(S), NEW s \in S
  PROVE  \E b \in BestOf(S) : PlayerOf[b] = PlayerOf[s] /\ (b = s \/ Before(b, s))
  <1> DEFINE own == {q \in S : PlayerOf[q] = PlayerOf[s]}
  <1>1. Scored(own) /\ own \subseteq Sessions
    BY DEF Scored
  <1>2. \E b \in own : \A q \in own : ~Before(q, b)
    <2> DEFINE P == {Position(q, own) : q \in own}
    <2>1. P \subseteq Nat /\ P # {}
      BY <1>1, PositionType
    <2>2. PICK b \in own : Min(P) = Position(b, own)
      BY <2>1, MinNat
    <2>3. ASSUME NEW q \in own, Before(q, b) PROVE FALSE
      <3>1. Position(q, own) < Position(b, own)
        BY <1>1, <2>3, PositionStrict
      <3>2. Position(b, own) <= Position(q, own)
        BY <2>1, <2>2, MinNat
      <3>3. Position(q, own) \in Nat /\ Position(b, own) \in Nat
        BY <1>1, PositionType
      <3> QED
        BY <3>1, <3>2, <3>3
    <2> QED
      BY <2>3
  <1>3. PICK b \in own : \A q \in own : ~Before(q, b)
    BY <1>2
  <1>4. b \in BestOf(S)
    BY <1>3 DEF BestOf
  <1>5. b = s \/ Before(b, s)
    BY <1>3, BeforeOrder
  <1> QED
    BY <1>4, <1>5

LEMMA BestUnique ==
  ASSUME NEW S, Scored(S), NEW b \in BestOf(S), NEW c \in BestOf(S), PlayerOf[b] = PlayerOf[c]
  PROVE  b = c
  BY BeforeOrder DEF BestOf

\* The players who have a score among B, one for each when B has no two of a player.
LEMMA PlayersCount ==
  ASSUME NEW B, B \subseteq Sessions,
         \A b, c \in B : PlayerOf[b] = PlayerOf[c] => b = c
  PROVE  Cardinality({PlayerOf[b] : b \in B}) = Cardinality(B)
  <1> DEFINE T == {PlayerOf[b] : b \in B}
             f == [b \in B |-> PlayerOf[b]]
  <1>1. IsFiniteSet(B)
    BY FiniteSessions
  <1>2. f \in Surjection(B, T)
    BY DEF Surjection
  <1>3. f \in Injection(B, T)
    BY DEF Injection, IsInjective
  <1> QED
    BY <1>1, <1>2, <1>3, FS_Surjection

\* The position of a best score counts the players who have a better one.
LEMMA RankCountsPlayers ==
  ASSUME NEW S, Scored(S), NEW s \in BestOf(S)
  PROVE  Position(s, BestOf(S)) =
           1 + Cardinality({PlayerOf[q] : q \in {c \in S : Better(c, s)}})
  <1> DEFINE B == {q \in BestOf(S) : Before(q, s)}
             T == {PlayerOf[q] : q \in {c \in S : Better(c, s)}}
  <1>1. BestOf(S) \subseteq S /\ S \subseteq Sessions /\ s \in S
    BY DEF BestOf, Scored
  <1>2. \A b, c \in B : PlayerOf[b] = PlayerOf[c] => b = c
    BY BestUnique
  <1>3. ASSUME NEW b \in B PROVE PlayerOf[b] \in T
    <2>1. PlayerOf[b] # PlayerOf[s]
      BY <1>1 DEF BestOf
    <2> QED
      BY <1>1, <2>1 DEF Better
  <1>4. ASSUME NEW t \in T PROVE \E b \in B : t = PlayerOf[b]
    <2>1. PICK q \in S : Better(q, s) /\ t = PlayerOf[q]
      OBVIOUS
    <2>2. PICK b \in BestOf(S) : PlayerOf[b] = PlayerOf[q] /\ (b = q \/ Before(b, q))
      BY BestExists
    <2>3. Before(b, s)
      BY <1>1, <2>1, <2>2, BeforeOrder DEF Better
    <2> QED
      BY <2>1, <2>2, <2>3
  <1>5. {PlayerOf[b] : b \in B} = T
    BY <1>3, <1>4
  <1>6. Cardinality(T) = Cardinality(B)
    BY <1>1, <1>2, <1>5, PlayersCount
  <1> QED
    BY <1>6 DEF Position

\* The newest tier configuration published by the end of the period.
LEMMA ConfigInForce ==
  ASSUME NEW p \in Periods, TierConfig(p) # {}
  PROVE  Max(TierConfig(p)) =
           CHOOSE v \in DOMAIN TierConfigs :
             /\ TierConfigs[v].published <= PeriodEnd(p)
             /\ \A u \in DOMAIN TierConfigs : u > v => TierConfigs[u].published > PeriodEnd(p)
  <1> DEFINE InForce(v) ==
        /\ TierConfigs[v].published <= PeriodEnd(p)
        /\ \A u \in DOMAIN TierConfigs : u > v => TierConfigs[u].published > PeriodEnd(p)
  <1>0. TierConfig(p) \subseteq 1 .. Len(TierConfigs) /\ Len(TierConfigs) \in Nat
        /\ DOMAIN TierConfigs = 1 .. Len(TierConfigs)
    BY TierAssumption DEF TierConfig
  <1>1. PICK m : m = Max(TierConfig(p))
    OBVIOUS
  <1>2. m \in TierConfig(p) /\ \A v \in TierConfig(p) : v <= m
    <2>1. TierConfig(p) \subseteq Nat /\ \A x \in TierConfig(p) : x <= Len(TierConfigs)
      BY <1>0
    <2> QED
      BY <1>0, <1>1, <2>1, MaxNat
  <1>3. \A v \in DOMAIN TierConfigs :
          (TierConfigs[v].published <= PeriodEnd(p)) <=> v \in TierConfig(p)
    BY DEF TierConfig
  <1>p. PeriodEnd(p) \in Int
    BY PeriodEndType
  <1>u. ASSUME NEW u \in DOMAIN TierConfigs PROVE TierConfigs[u].published \in Nat
    <2>1. u \in 1 .. Len(TierConfigs)
      BY <1>0
    <2>2. TierConfigs[u] \in [published : Nat, tiers : Tiers]
      BY <2>1, TierAssumption, ElementOfSeq DEF Tiers
    <2> QED
      BY <2>2
  <1>4. ASSUME NEW u \in DOMAIN TierConfigs, u > m PROVE TierConfigs[u].published > PeriodEnd(p)
    <2>1. ~(TierConfigs[u].published <= PeriodEnd(p))
      BY <1>0, <1>2, <1>3, <1>4
    <2> QED
      BY <1>p, <1>u, <2>1
  <1>5. m \in DOMAIN TierConfigs /\ InForce(m)
    BY <1>0, <1>2, <1>3, <1>4
  <1>6. ASSUME NEW v \in DOMAIN TierConfigs, InForce(v) PROVE v = m
    <2>1. v \in TierConfig(p) /\ v \in Nat /\ m \in Nat /\ v <= m
      BY <1>0, <1>2, <1>3, <1>6
    <2>2. ~(m > v)
      <3>1. m > v => TierConfigs[m].published > PeriodEnd(p)
        BY <1>5, <1>6
      <3> QED
        BY <1>p, <1>u, <1>5, <3>1
    <2> QED
      BY <2>1, <2>2
  <1> QED
    BY <1>1, <1>5, <1>6

\* What the loop pays for the scores S is what the rules pay.
PaidFor(S, tiers, R) ==
  LET pays(k) == {i \in DOMAIN tiers : k \in tiers[i].min .. tiers[i].max} IN
  /\ \A x \in R :
       /\ x.score \in S
       /\ x.rank = 1 + Cardinality({PlayerOf[q] : q \in {c \in S : Better(c, x.score)}})
       /\ \E i \in pays(x.rank) : x.reward = tiers[i].reward /\ \A j \in pays(x.rank) : i <= j
       /\ \A y \in R : PlayerOf[x.score] = PlayerOf[y.score] => x = y
  /\ \A k \in 1 .. Cardinality({PlayerOf[c] : c \in S}) :
       pays(k) # {} => \E x \in R : x.rank = k

LEMMA WinnersPaid ==
  ASSUME NEW S, Scored(S), NEW tiers \in Tiers
  PROVE  PaidFor(S, tiers, Winners(S, tiers))
  <1> DEFINE pays(k) == {i \in DOMAIN tiers : k \in tiers[i].min .. tiers[i].max}
             R == Winners(S, tiers)
  <1>0. BestOf(S) \subseteq S /\ BestOf(S) \subseteq Sessions /\ Scored(BestOf(S))
    BY DEF BestOf, Scored
  <1>1. ASSUME NEW k \in Nat PROVE Matching(tiers, k) = pays(k) /\ pays(k) \subseteq Nat
    <2>1. DOMAIN tiers = 1 .. Len(tiers) /\ Len(tiers) \in Nat
      BY DEF Tiers
    <2>2. \A i \in DOMAIN tiers : tiers[i].min \in Nat /\ tiers[i].max \in Nat
      <3>1. ASSUME NEW i \in DOMAIN tiers
            PROVE  tiers[i] \in [min : Nat, max : Nat, reward : Nat]
        BY <2>1, ElementOfSeq DEF Tiers
      <3> QED
        BY <3>1
    <2>3. \A i \in DOMAIN tiers :
            (tiers[i].min <= k /\ k <= tiers[i].max) <=> k \in tiers[i].min .. tiers[i].max
      BY <2>2
    <2> QED
      BY <2>1, <2>3 DEF Matching
  <1>2. ASSUME NEW x \in R
        PROVE  /\ x.score \in BestOf(S) /\ x.rank = Position(x.score, BestOf(S)) /\ x.rank \in Nat
               /\ pays(x.rank) # {} /\ x.reward = tiers[Min(pays(x.rank))].reward
               /\ x = [score |-> x.score, rank |-> x.rank, reward |-> x.reward]
    <2>1. PICK s \in BestOf(S) :
             /\ Matching(tiers, Position(s, BestOf(S))) # {}
             /\ x = [score |-> s, rank |-> Position(s, BestOf(S)),
                     reward |-> tiers[Min(Matching(tiers, Position(s, BestOf(S))))].reward]
      BY DEF Winners
    <2>2. PICK k \in Nat : k = Position(s, BestOf(S))
      BY <1>0, PositionType
    <2> QED
      BY <1>1, <2>1, <2>2
  <1>3. ASSUME NEW x \in R
        PROVE  x.rank = 1 + Cardinality({PlayerOf[q] : q \in {c \in S : Better(c, x.score)}})
    BY <1>2, RankCountsPlayers
  <1>4. ASSUME NEW x \in R
        PROVE  \E i \in pays(x.rank) : x.reward = tiers[i].reward /\ \A j \in pays(x.rank) : i <= j
    <2>1. PICK k \in Nat : k = x.rank
      BY <1>2
    <2>2. pays(k) \subseteq Nat /\ pays(k) # {} /\ x.reward = tiers[Min(pays(k))].reward
      BY <1>1, <1>2, <2>1
    <2>3. Min(pays(k)) \in pays(k) /\ \A j \in pays(k) : Min(pays(k)) <= j
      BY <2>2, MinNat
    <2> QED
      BY <2>1, <2>2, <2>3
  <1>5. ASSUME NEW x \in R, NEW y \in R, PlayerOf[x.score] = PlayerOf[y.score] PROVE x = y
    <2>1. x.score = y.score
      BY <1>2, <1>5, BestUnique
    <2>2. x.rank = y.rank
      BY <1>2, <2>1
    <2>3. x.reward = y.reward
      BY <1>2, <2>2
    <2> QED
      BY <1>2, <2>1, <2>2, <2>3
  <1>6. {PlayerOf[c] : c \in S} = {PlayerOf[b] : b \in BestOf(S)}
    BY <1>0, BestExists
  <1>7. Cardinality({PlayerOf[b] : b \in BestOf(S)}) = Cardinality(BestOf(S))
    BY <1>0, BestUnique, PlayersCount
  <1>8. ASSUME NEW k \in 1 .. Cardinality({PlayerOf[c] : c \in S}), pays(k) # {}
        PROVE  \E x \in R : x.rank = k
    <2>1. k \in 1 .. Cardinality(BestOf(S))
      BY <1>6, <1>7
    <2>2. PICK s \in BestOf(S) : Position(s, BestOf(S)) = k
      BY <1>0, <2>1, PositionOnto
    <2>3. Matching(tiers, Position(s, BestOf(S))) # {}
      BY <1>1, <1>8, <2>2
    <2>4. PICK x : x = [score |-> s, rank |-> Position(s, BestOf(S)),
                        reward |-> tiers[Min(Matching(tiers, Position(s, BestOf(S))))].reward]
      OBVIOUS
    <2>5. x \in R
      BY <2>3, <2>4 DEF Winners
    <2>6. x.rank = k
      BY <2>2, <2>4
    <2> QED
      BY <2>5, <2>6
  <1>9. \A x \in R : x.score \in S
    BY <1>0, <1>2
  <1> QED
    BY <1>3, <1>4, <1>5, <1>8, <1>9 DEF PaidFor

\* A run holds the winners of the scores it counted, and those scores never change.
Allocated(p, S, R) == R = Winners(S, TierConfigs[Max(TierConfig(p))].tiers)

RewardsInv ==
  /\ \A s \in Sessions : Completed(s) <=> points[s] # None
  /\ \A p \in Periods : runs[p] # None =>
       Allocated(p, runs[p].counted, runs[p].winners) /\ TierConfig(p) # {}
  /\ \A w \in Workers : tx[w].plan = "settle" /\ tx[w].step = "commit" =>
       Allocated(tx[w].period, tx[w].counted, tx[w].winners)

LEMMA RecordedScored ==
  ASSUME IInv, RewardsInv, NEW p
  PROVE  Scored(Recorded(p))
  <1>1. ASSUME NEW s \in Recorded(p) PROVE points[s] \in Nat /\ ended[s] \in Nat
    <2>1. s \in Sessions /\ Completed(s) /\ points[s] # None
      BY DEF Recorded, IInv, RecordedEnded, RewardsInv
    <2>2. points[s] \in Nat
      BY <2>1, ValueAssumption DEF IInv, TypeOK
    <2>3. ended[s] \in 0 .. MaxTime
      BY <2>1, EndedType DEF IInv
    <2> QED
      BY <2>2, <2>3, ClockAssumption
  <1> QED
    BY <1>1 DEF Scored, Recorded

\* A ranking depends on the scores that are ranked, not on others.
LEMMA WinnersSame ==
  ASSUME NEW S, NEW tiers, \A s \in S : points'[s] = points[s] /\ ended'[s] = ended[s]
  PROVE  Winners(S, tiers)' = Winners(S, tiers)
  <1>1. \A q, s \in S : Before(q, s)' <=> Before(q, s)
    BY DEF Before
  <1>2. BestOf(S)' = BestOf(S) /\ BestOf(S) \subseteq S
    BY <1>1 DEF BestOf
  <1>3. PICK B : B = BestOf(S) /\ B = BestOf(S)' /\ B \subseteq S
    BY <1>2
  <1>4. \A s \in B : Position(s, B)' = Position(s, B)
    <2>1. ASSUME NEW s \in B PROVE {q \in B : Before(q, s)'} = {q \in B : Before(q, s)}
      BY <1>1, <1>3
    <2> QED
      BY <2>1 DEF Position
  <1>5. PICK P : P = [s \in B |-> Position(s, B)] /\ P = [s \in B |-> Position(s, B)']
    BY <1>4
  <1>6. Winners(S, tiers) =
          {[score |-> s, rank |-> P[s], reward |-> tiers[Min(Matching(tiers, P[s]))].reward] :
             s \in {b \in B : Matching(tiers, P[b]) # {}}}
    BY <1>3, <1>5 DEF Winners
  <1>7. Winners(S, tiers)' =
          {[score |-> s, rank |-> P[s], reward |-> tiers[Min(Matching(tiers, P[s]))].reward] :
             s \in {b \in B : Matching(tiers, P[b]) # {}}}
    BY <1>3, <1>5 DEF Winners
  <1> QED
    BY <1>6, <1>7

LEMMA RewardsInit == Init => RewardsInv
  BY DEF Init, RewardsInv, Completed, NoTx

\* What is worth ranking does not change again.
LEMMA CompletedKept ==
  ASSUME IInv, [Next]_vars, NEW s \in Sessions, Completed(s)
  PROVE  points'[s] = points[s] /\ ended'[s] = ended[s]
  <1>1. CASE \E q \in Sessions, v \in Values : CompleteSession(q, v)
    <2>1. PICK q \in Sessions, v \in Values : CompleteSession(q, v)
      BY <1>1
    <2> QED
      BY <2>1 DEF CompleteSession, IInv, TypeOK
  <1>2. CASE Tick \/ UNCHANGED vars
    BY <1>2 DEF Tick, rows, vars
  <1>3. CASE \E w \in Workers : (\E q \in Sessions : LockSession(w, q)) \/ InsertScore(w) \/ CommitScore(w)
    BY <1>3 DEF LockSession, InsertScore, CommitScore, rows
  <1>4. CASE \E w \in Workers : \/ \E p \in Periods : LockGame(w, p) \/ ReplayRun(w, p)
                               \/ ReadScores(w) \/ CommitRun(w) \/ Rollback(w)
    BY <1>4 DEF LockGame, ReplayRun, ReadScores, CommitRun, Rollback, rows
  <1> QED
    BY <1>1, <1>2, <1>3, <1>4 DEF Next

LEMMA AllocatedKept ==
  ASSUME IInv, [Next]_vars, NEW p, NEW S, NEW R, \A s \in S : s \in Sessions /\ Completed(s),
         Allocated(p, S, R)
  PROVE  Allocated(p, S, R)'
  <1>1. \A s \in S : points'[s] = points[s] /\ ended'[s] = ended[s]
    BY CompletedKept
  <1>2. PICK tiers : tiers = TierConfigs[Max(TierConfig(p))].tiers
    OBVIOUS
  <1>3. Winners(S, tiers)' = Winners(S, tiers)
    BY <1>1, WinnersSame
  <1>4. R = Winners(S, tiers)
    BY <1>2 DEF Allocated
  <1> QED
    BY <1>2, <1>3, <1>4 DEF Allocated

LEMMA CountedCompleted ==
  ASSUME IInv, NEW p
  PROVE  \A s \in Recorded(p) : s \in Sessions /\ Completed(s)
  BY DEF IInv, RecordedEnded, Recorded

LEMMA RewardsStep == IInv /\ RewardsInv /\ [Next]_vars => RewardsInv'
  <1> SUFFICES ASSUME IInv, RewardsInv, [Next]_vars PROVE RewardsInv'
    OBVIOUS
  <1>1. ASSUME NEW s \in Sessions PROVE Completed(s)' <=> points'[s] # None
    <2>1. CASE \E q \in Sessions, v \in Values : CompleteSession(q, v)
      <3>1. PICK q \in Sessions, v \in Values : CompleteSession(q, v)
        BY <2>1
      <3>2. now # None /\ v # None
        BY NoneIsNot, ValueAssumption DEF IInv, TypeOK
      <3> QED
        BY <3>1, <3>2 DEF CompleteSession, IInv, TypeOK, RewardsInv, Completed
    <2>2. CASE UNCHANGED <<ended, points>>
      BY <2>2 DEF RewardsInv, Completed
    <2> QED
      BY <2>1, <2>2 DEF Next, Tick, LockSession, InsertScore, CommitScore, LockGame, ReplayRun,
         ReadScores, CommitRun, Rollback, rows, vars
  <1>2. ASSUME NEW w \in Workers, tx'[w].plan = "settle", tx'[w].step = "commit"
        PROVE  \E p, S, R : /\ p = tx'[w].period /\ S = tx'[w].counted /\ R = tx'[w].winners
                            /\ Allocated(p, S, R)'
    <2>0. tx \in [Workers -> Transaction]
      BY DEF IInv, TypeOK
    <2>1. CASE tx'[w] = tx[w]
      <3>1. PICK p, S, R : p = tx[w].period /\ S = tx[w].counted /\ R = tx[w].winners
        OBVIOUS
      <3>2. Allocated(p, S, R)
        BY <1>2, <2>1, <3>1 DEF RewardsInv
      <3>3. S \subseteq Recorded(p)
        BY <1>2, <2>1, <3>1 DEF IInv, SettlementHolds
      <3>4. Allocated(p, S, R)'
        BY <3>2, <3>3, AllocatedKept, CountedCompleted
      <3> QED
        BY <2>1, <3>1, <3>4
    <2>2. CASE ReadScores(w)
      <3>1. PICK p, S, R : /\ p = tx[w].period /\ S = Recorded(p)
                           /\ R = Winners(S, TierConfigs[Max(TierConfig(p))].tiers)
        OBVIOUS
      <3>2. Allocated(p, S, R)'
        BY <3>1, AllocatedKept, CountedCompleted DEF Allocated
      <3>3. tx'[w].period = p /\ tx'[w].counted = S /\ tx'[w].winners = R
        BY <2>0, <2>2, <3>1 DEF ReadScores, Transaction
      <3> QED
        BY <3>2, <3>3
    <2>3. ASSUME NEW v \in Workers, Finish(v) PROVE tx'[w] = tx[w]
      <3>1. v # w
        BY <1>2, <2>0, <2>3 DEF Finish, NoTx
      <3> QED
        BY <2>0, <2>3, <3>1 DEF Finish
    <2>4. CASE \E v \in Workers : (\E s \in Sessions : LockSession(v, s)) \/ (\E p \in Periods : LockGame(v, p))
      <3>1. PICK v \in Workers :
               (\E s \in Sessions : LockSession(v, s)) \/ (\E p \in Periods : LockGame(v, p))
        BY <2>4
      <3>2. v # w
        BY <1>2, <2>0, <3>1 DEF LockSession, LockGame, NoTx
      <3>3. tx'[w] = tx[w]
        BY <2>0, <3>1, <3>2 DEF LockSession, LockGame
      <3> QED
        BY <2>1, <3>3
    <2>5. CASE \E v \in Workers : InsertScore(v) \/ ReadScores(v)
      <3>1. PICK v \in Workers : InsertScore(v) \/ ReadScores(v)
        BY <2>5
      <3>2. CASE v = w
        <4>1. ~InsertScore(w)
          BY <1>2, <2>0 DEF InsertScore, Transaction, IInv, TypeOK, WellFormed
        <4> QED
          BY <2>2, <3>1, <3>2, <4>1
      <3>3. CASE v # w
        BY <2>0, <2>1, <3>1, <3>3 DEF InsertScore, ReadScores
      <3> QED
        BY <3>2, <3>3
    <2>6. CASE \E v \in Workers : CommitScore(v) \/ CommitRun(v) \/ Rollback(v)
      BY <2>1, <2>3, <2>6 DEF CommitScore, CommitRun, Rollback
    <2>7. CASE UNCHANGED tx
      BY <2>1, <2>7
    <2> QED
      BY <2>4, <2>5, <2>6, <2>7 DEF Next, Tick, CompleteSession, ReplayRun, vars
  <1>3. ASSUME NEW p \in Periods, runs'[p] # None
        PROVE  \E S, R : /\ S = runs'[p].counted /\ R = runs'[p].winners
                         /\ Allocated(p, S, R)' /\ TierConfig(p) # {}
    <2>0. runs \in [Periods -> Run \cup {None}] /\ tx \in [Workers -> Transaction]
      BY DEF IInv, TypeOK
    <2>1. CASE runs'[p] = runs[p]
      <3>1. PICK S, R : S = runs[p].counted /\ R = runs[p].winners
        OBVIOUS
      <3>2. Allocated(p, S, R) /\ TierConfig(p) # {}
        BY <1>3, <2>1, <3>1 DEF RewardsInv
      <3>3. S \subseteq Recorded(p)
        BY <1>3, <2>1, <3>1 DEF IInv, RunsHold
      <3>4. Allocated(p, S, R)'
        BY <3>2, <3>3, AllocatedKept, CountedCompleted
      <3> QED
        BY <2>1, <3>1, <3>2, <3>4
    <2>2. CASE \E w \in Workers : CommitRun(w)
      <3>1. PICK w \in Workers : CommitRun(w)
        BY <2>2
      <3>2. PICK q, S, R : q = tx[w].period /\ S = tx[w].counted /\ R = tx[w].winners
        OBVIOUS
      <3>3. CASE p = q /\ runs[q] = None
        <4>1. runs' = [runs EXCEPT ![q] = [counted |-> S, winners |-> R]]
          BY <3>1, <3>2, <3>3 DEF CommitRun
        <4>2. runs'[p].counted = S /\ runs'[p].winners = R
          BY <2>0, <3>3, <4>1
        <4>3. tx[w].plan = "settle" /\ tx[w].step = "commit"
          BY <3>1 DEF CommitRun
        <4>4. Allocated(p, S, R) /\ TierConfig(p) # {} /\ S \subseteq Recorded(p)
          BY <3>2, <3>3, <4>3 DEF RewardsInv, IInv, TypeOK, WellFormed, SettlementHolds
        <4>5. Allocated(p, S, R)'
          BY <4>4, AllocatedKept, CountedCompleted
        <4> QED
          BY <4>2, <4>4, <4>5
      <3>4. CASE ~(p = q /\ runs[q] = None)
        BY <2>0, <2>1, <3>1, <3>2, <3>4 DEF CommitRun
      <3> QED
        BY <3>3, <3>4
    <2>3. CASE UNCHANGED runs
      BY <2>1, <2>3
    <2> QED
      BY <2>2, <2>3 DEF Next, Tick, CompleteSession, LockSession, InsertScore, CommitScore, LockGame,
         ReplayRun, ReadScores, Rollback, rows, vars
  <1> QED
    BY <1>1, <1>2, <1>3 DEF RewardsInv

\* For any scores, players and tiers: a settled period pays each player by its best
\* counted score, at the rank of the players ahead of it, what the configuration in
\* force at the end of the period grants that rank.
THEOREM RewardsAreByRank == Spec => []RewardsFollowRanks
  <1>1. Spec => []RewardsInv
    BY RewardsInit, RewardsStep, Invariance, PTL DEF Spec
  <1>2. IInv /\ RewardsInv => RewardsFollowRanks
    <2> SUFFICES ASSUME IInv, RewardsInv, NEW p \in Periods, runs[p] # None
                 PROVE  PaidByRank(p)
      BY DEF RewardsFollowRanks
    <2>1. PICK S, R, v, tiers :
             /\ S = runs[p].counted /\ R = runs[p].winners
             /\ v = Max(TierConfig(p)) /\ tiers = TierConfigs[v].tiers
      OBVIOUS
    <2>2. TierConfig(p) # {} /\ R = Winners(S, tiers) /\ S \subseteq Recorded(p)
      BY <2>1 DEF RewardsInv, Allocated, IInv, RunsHold
    <2>3. Scored(S)
      <3>1. Scored(Recorded(p))
        BY RecordedScored
      <3> QED
        BY <2>2, <3>1 DEF Scored
    <2>4. PaidFor(S, tiers, R)
      BY <2>1, <2>2, <2>3, TierConfigType, WinnersPaid
    <2>5. v = CHOOSE u \in DOMAIN TierConfigs :
                /\ TierConfigs[u].published <= PeriodEnd(p)
                /\ \A x \in DOMAIN TierConfigs : x > u => TierConfigs[x].published > PeriodEnd(p)
      BY <2>1, <2>2, ConfigInForce
    <2>6. PaidFor(runs[p].counted,
                  TierConfigs[CHOOSE u \in DOMAIN TierConfigs :
                    /\ TierConfigs[u].published <= PeriodEnd(p)
                    /\ \A x \in DOMAIN TierConfigs :
                         x > u => TierConfigs[x].published > PeriodEnd(p)].tiers,
                  runs[p].winners)
      BY <2>1, <2>4, <2>5
    <2> QED
      BY <2>6, Zenon DEF PaidByRank, PaidFor
  <1> QED
    BY <1>1, <1>2, Invariance, PTL

==============================================================================
