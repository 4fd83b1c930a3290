------------------------- MODULE SettlementContract -------------------------
(***************************************************************************)
(* What submit_final_score and settle_leaderboard promise of one game,     *)
(* without transactions or locks: a final score is recorded once and never *)
(* withdrawn, and a period is settled once, over a set of recorded scores  *)
(* that leaves out none of those recorded before the period ended.         *)
(***************************************************************************)
CONSTANTS Sessions, Periods, None

VARIABLES
  timely,    \* sessions whose score was recorded before its period ended
  late,      \* sessions whose score was recorded after it
  period,    \* period[s]: the period of a completed session
  counted    \* counted[p]: the scores that period p was settled over

vars == <<timely, late, period, counted>>

Recorded(p) == {s \in timely \cup late : period[s] = p}

Init ==
  /\ timely = {} /\ late = {}
  /\ period = [s \in Sessions |-> None]
  /\ counted = [p \in Periods |-> None]

Complete(s, p) ==
  /\ period[s] = None
  /\ period' = [period EXCEPT ![s] = p]
  /\ UNCHANGED <<timely, late, counted>>

\* A timely score can no longer arrive once its period is settled; a late one can.
Record(s) ==
  /\ period[s] # None
  /\ s \notin timely \cup late
  /\ \/ counted[period[s]] = None /\ timely' = timely \cup {s} /\ UNCHANGED late
     \/ late' = late \cup {s} /\ UNCHANGED timely
  /\ UNCHANGED <<period, counted>>

Settle(p) ==
  /\ counted[p] = None
  /\ \E S \in SUBSET Recorded(p) :
       /\ Recorded(p) \cap timely \subseteq S
       /\ counted' = [counted EXCEPT ![p] = S]
  /\ UNCHANGED <<timely, late, period>>

Next ==
  \/ \E s \in Sessions : Record(s) \/ \E p \in Periods : Complete(s, p)
  \/ \E p \in Periods : Settle(p)

Spec == Init /\ [][Next]_vars

==============================================================================
