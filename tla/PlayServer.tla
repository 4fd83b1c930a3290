----------------------------- MODULE PlayServer -----------------------------
(***************************************************************************)
(* What a browser meets of the services of one player and one game: each   *)
(* call takes effect at one moment (ImplementsContract of GameSessions).   *)
(* A session is named by its place in the order of creation; its fairness  *)
(* proof, its outcome and its final score go by the same name.             *)
(***************************************************************************)
EXTENDS Integers, Sequences

CONSTANTS
  Answers,      \* choices, actions or client seeds a player can give
  MaxSessions,  \* bound: sessions ever created
  None

ASSUME AnswerAssumption == None \notin Answers /\ None \notin Nat
ASSUME SessionBound == MaxSessions \in Nat \ {0}

VARIABLES
  sessions,  \* the sessions; "due" is active past expires_at
  cooling    \* the cooldown of the latest session is not over

serverVars == <<sessions, cooling>>

Latest == Len(sessions)
NewSession == [status |-> "active", answer |-> None, proof |-> FALSE, score |-> "none"]

\* finalize_expired_session
Finalized(s) ==
  IF s \in DOMAIN sessions /\ sessions[s].status = "due"
  THEN [sessions EXCEPT ![s].status = "expired"] ELSE sessions

\* The effects of a call: the sessions after it and the answer.
Refuse(code) == [sessions |-> sessions, cooling |-> cooling, code |-> code, id |-> None]
Accept(S, s) == [sessions |-> S, cooling |-> cooling, code |-> "ok", id |-> s]
Elapsed(s) == [Refuse("session_expired") EXCEPT !.sessions = Finalized(s)]

GetState == Accept(Finalized(Latest), None)

CreateSession_Unguarded ==
  IF cooling THEN Refuse("cooldown_active")
  ELSE [Accept(Append(Finalized(Latest), NewSession), Latest + 1) EXCEPT !.cooling = TRUE]
CreateSession ==
  IF sessions # <<>> /\ sessions[Latest].status = "active" THEN Refuse("active_session_exists")
  ELSE IF cooling THEN Refuse("cooldown_active")
  ELSE [Accept(Append(Finalized(Latest), NewSession), Latest + 1) EXCEPT !.cooling = TRUE]

CommitFairness(s) ==
  CASE sessions[s].status = "due" -> Elapsed(s)
    [] sessions[s].status = "active" -> Accept([sessions EXCEPT ![s].proof = TRUE], s)
    [] OTHER -> Refuse("invalid_transition")

\* play_session and, for a session with a proof, evaluate_fairness.  replays: what
\* was already done is answered again, which the skill check declines.
PlaySession(s, a, replays) ==
  CASE sessions[s].status = "due" -> Elapsed(s)
    [] sessions[s].status = "active" ->
         Accept([sessions EXCEPT ![s].status = "completed", ![s].answer = a], s)
    [] sessions[s].status = "completed" /\ replays ->
         IF sessions[s].answer = a THEN Accept(sessions, s) ELSE Refuse("idempotency_conflict")
    [] OTHER -> Refuse("invalid_transition")

SubmitScore(s) ==
  CASE sessions[s].status # "completed" -> Refuse("invalid_transition")
    [] sessions[s].status = "completed" /\ sessions[s].score = "closed" -> Refuse("leaderboard_period_closed")
    [] OTHER -> Accept([sessions EXCEPT ![s].score = "recorded"], s)

\* The session of a game-state response.
Recoverable(S) ==
  IF S = <<>> THEN None
  ELSE [id |-> Len(S), status |-> S[Len(S)].status, proof |-> S[Len(S)].proof,
        score |-> S[Len(S)].score = "recorded"]

------------------------------------------------------------------------------
(***************************************************************************)
(* Time.                                                                   *)
(***************************************************************************)
\* The latest session passes its expires_at.
PassExpiry ==
  /\ sessions # <<>> /\ sessions[Latest].status = "active"
  /\ sessions' = [sessions EXCEPT ![Latest].status = "due"]
  /\ UNCHANGED cooling

CoolDown ==
  /\ cooling /\ Latest < MaxSessions
  /\ cooling' = FALSE
  /\ UNCHANGED sessions

\* The week of a completed session ends before its score was submitted.
CloseWeek ==
  /\ sessions # <<>>
  /\ sessions[Latest].status = "completed" /\ sessions[Latest].score = "none"
  /\ sessions' = [sessions EXCEPT ![Latest].score = "closed"]
  /\ UNCHANGED cooling

ServerInit == sessions = <<>> /\ cooling = FALSE

SessionRecord == [status : {"active", "due", "completed", "expired"},
                  answer : Answers \cup {None}, proof : BOOLEAN,
                  score : {"none", "recorded", "closed"}]

ServerTypeOK ==
  /\ sessions \in Seq(SessionRecord) /\ Latest <= MaxSessions
  /\ cooling \in BOOLEAN
  /\ \A s \in DOMAIN sessions : s < Latest => sessions[s].status \in {"completed", "expired"}

==============================================================================
