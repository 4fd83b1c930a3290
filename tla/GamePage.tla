------------------------------ MODULE GamePage ------------------------------
(***************************************************************************)
(* A game page in the browser: daily-spin.js, prediction-card.js and       *)
(* skill-check.js with the operation journal, final-score.js and the       *)
(* requests of api-client.js, over the services of PlayServer.             *)
(*                                                                         *)
(* The page runs two asynchronous functions side by side: what the visitor *)
(* or the load of the page started (main) and the recover() a countdown    *)
(* started (timer), which busy does not hold back.  Each is at most        *)
(* waiting for one request.  A request is answered by the server and then  *)
(* read by the page; a lost one may still reach the server later.  One     *)
(* player is modelled, and animations take no time.                        *)
(***************************************************************************)
EXTENDS PlayServer

CONSTANTS
  Games,           \* which of "spin", "card" and "skill"
  MaxDisturbances  \* bound: lost and failed requests, and reloads

ASSUME GameAssumption == Games \subseteq {"spin", "card", "skill"}
ASSUME DisturbanceAssumption == MaxDisturbances \in Nat

VARIABLES
  game,     \* the page's game
  late,     \* requests the page has given up and the server has not seen
  journal,  \* the entry of the operation journal, in localStorage
  page,     \* the component
  thread,   \* its asynchronous functions
  crossed,  \* history: two functions have been under way at once
  disturbances

vars == <<serverVars, game, late, journal, page, thread, crossed, disturbances>>

Threads == {"main", "timer"}

\* The entry as save() fills it; requestId, sessionId and outcome are never read back.
NoJournal == [commitment |-> None, seed |-> None, choice |-> None,
              actions |-> None, pending |-> None]

\* fn: the function, "caught" in its catch block.  at: the request it waits for,
\* with its session and answer; then what the function needs afterwards.
Idle == [fn |-> "idle", at |-> "idle", session |-> None, answer |-> None, choice |-> None,
         cooling |-> FALSE, error |-> None, stale |-> FALSE, reply |-> None]

\* failure: what is known of the last one, "told" while the message is that of an error,
\* "unheard" when nothing caught it; None from the next message on.
NewPage == [status |-> "recovering", busy |-> TRUE, session |-> None, outcome |-> None,
            score |-> None, choice |-> None, phase |-> "intro", actions |-> None,
            locked |-> FALSE, countdown |-> FALSE, preview |-> FALSE, failure |-> None]

Active(pg) == pg.session # None /\ pg.session.status = "active"
AsksState == {"recover", "reward", "rescore"}
Reads == AsksState \cup {"proof"}

------------------------------------------------------------------------------
(***************************************************************************)
(* A function runs on a client c: the page, the journal, its own thread,   *)
(* whether it cancels the presentation of the other, and the random seed   *)
(* it would draw.                                                          *)
(***************************************************************************)
Client(t, seed) == [page |-> page, journal |-> journal, th |-> thread[t], cancels |-> FALSE,
                    seed |-> seed]

Await(c, at, s, a) ==
  [c EXCEPT !.th = [@ EXCEPT !.at = at, !.session = s, !.answer = a, !.reply = None]]

\* recover(), up to its request.
Recover(c, fn) ==
  Await([c EXCEPT !.th = [@ EXCEPT !.fn = fn, !.stale = FALSE],
                  !.page = [@ EXCEPT !.status = "recovering", !.countdown = FALSE,
                                     !.preview = FALSE]],
        "recover", None, None)

\* evaluateFairness, with the seed of the journal if it has one.
Evaluate(c, proof) ==
  LET seed == IF c.journal.seed # None THEN c.journal.seed ELSE c.seed
  IN Await([c EXCEPT !.journal = [@ EXCEPT !.seed = seed, !.pending = "evaluate"]],
           "evaluate", proof, seed)

\* A spin with its session: the proof is the session's or the journal's.
Spin(c) ==
  LET proof == IF c.page.session.proof THEN c.page.session.id ELSE c.journal.commitment
  IN IF proof = None THEN Await(c, "commit", c.page.session.id, None) ELSE Evaluate(c, proof)

\* A new session starts with what the last one showed taken away.
Create(c) ==
  Await([c EXCEPT !.page = [@ EXCEPT !.outcome = None, !.score = None],
                  !.journal.pending = "create_session"],
        "create", None, None)

\* playChoice(v)
PlayChoice(c, v) ==
  LET d == [c EXCEPT !.th = [@ EXCEPT !.fn = "action", !.choice = v],
                     !.page = [@ EXCEPT !.busy = TRUE, !.status = "submitting", !.choice = v],
                     !.journal.choice = v]
  IN IF Active(c.page)
     THEN Await([d EXCEPT !.journal.pending = "play"], "play", c.page.session.id, v)
     ELSE Create(d)

\* The function returns; resume() goes on to play.
Return(c) ==
  LET done == [c EXCEPT !.th = Idle]
      free == [done EXCEPT !.page.busy = FALSE]
  IN CASE c.th.fn = "countdown" -> done
       [] c.th.fn = "resume" /\ c.page.outcome = None
            /\ (c.page.session = None \/ Active(c.page)) -> PlayChoice(c, c.th.choice)
       [] OTHER -> free

Throw_KeepsBusy(c, code) == [c EXCEPT !.th = Idle]
\* An error leaves what the function awaits.  Its catch block shows the error, and
\* recovers when it is uncertain whether the request was executed; the recover() of a
\* countdown has none, nor the one in a catch block, where the error before is shown.
Throw(c, code) ==
  LET free == [c EXCEPT !.th = Idle, !.page.busy = FALSE]
      again == {"lost", "active_session_exists"}
                 \cup (IF game = "card" THEN {"invalid_transition"} ELSE {})
      caught == [c EXCEPT !.cancels = game = "spin",
                          !.page = [@ EXCEPT !.status = IF code = "session_expired" THEN "expired"
                                                        ELSE "recovering",
                                             !.failure = "told"]]
  IN CASE c.th.fn = "countdown" ->
            [c EXCEPT !.th = Idle, !.page.failure = IF @ = "told" THEN @ ELSE "unheard"]
       [] c.th.fn = "caught" -> free
       [] c.th.fn = "load" ->
            [free EXCEPT !.page = [@ EXCEPT !.status = "terminal_error", !.failure = "told"]]
       [] c.th.fn = "resume" ->
            [free EXCEPT !.page = [@ EXCEPT !.status = "recovering", !.failure = "told"]]
       [] c.th.fn = "action" ->
            IF code \in again THEN Recover(caught, "caught")
            ELSE [caught EXCEPT !.th = Idle, !.page.busy = FALSE]

------------------------------------------------------------------------------
(***************************************************************************)
(* What each function does with an answer.                                 *)
(***************************************************************************)
InProgress(s) == s # None /\ s.status = "active"
Completed(s) == s # None /\ s.status = "completed"
Rested(cools, otherwise) == IF cools THEN "cooldown" ELSE otherwise

\* The end of a spin, with its proof or without an outcome to prove.
Verified(c) ==
  Return([c EXCEPT !.page = [@ EXCEPT
            !.status = IF c.th.fn = "action" THEN "result" ELSE Rested(c.th.cooling, "result"),
            !.failure = None]])

\* What follows submitOrRecover: a spin loads its proof.
AfterScore(c) ==
  CASE game # "spin" -> Return(c)
    [] game = "spin" /\ c.page.outcome = None -> Verified(c)
    [] game = "spin" /\ c.page.outcome # None -> Await(c, "proof", c.page.outcome, None)

Scored(c, s) == AfterScore([c EXCEPT !.page.score = s, !.journal.pending = None])

\* submitOrRecover
SubmitFinalScore(c) ==
  IF c.page.session = None \/ c.page.outcome = None THEN AfterScore(c)
  ELSE Await([c EXCEPT !.journal.pending = "submit_score"], "score", c.page.session.id, None)

ResumedChoice_Dropped(s, saved) == None
ResumedChoice_AnySession(s, saved) ==
  IF saved.pending # "submit_score" THEN saved.choice ELSE None
\* The choice recover() finds to be resumed.
ResumedChoice(s, saved) ==
  IF /\ s = None \/ s.status = "active"
     /\ saved.pending \in {"create_session", "play"}
  THEN saved.choice ELSE None

\* What every recover() takes from the game state r.
Adopt(c, r) ==
  LET s == r.state IN
  [c EXCEPT
    !.th.cooling = r.cooling,
    !.page = [@ EXCEPT
      !.session = IF s = None THEN None ELSE [id |-> s.id, status |-> s.status, proof |-> s.proof],
      !.score = IF Completed(s) /\ s.score THEN s.id ELSE None,
      !.countdown = InProgress(s) \/ r.cooling]]

\* The status that goes with it.
StatusOf(r) ==
  CASE r.state = None -> Rested(r.cooling, "ready")
    [] InProgress(r.state) -> "ready"
    [] Completed(r.state) -> Rested(r.cooling, "result")
    [] OTHER -> "expired"

\* A completed session without a final score gets one.
Conclude(c, s) == IF Completed(s) /\ ~s.score THEN SubmitFinalScore(c) ELSE Return(c)

\* recover() of the wheel reads the game state r.
RecoveredSpin(c, r) ==
  LET s == r.state
      d == IF s = None THEN Adopt(c, r)
           ELSE [Adopt(c, r) EXCEPT !.journal.commitment = IF s.proof THEN s.id ELSE None]
      shown == [d EXCEPT !.page.outcome = s.id]
  IN CASE ~Completed(s) ->
            Return([d EXCEPT !.page = [@ EXCEPT !.status = StatusOf(r), !.failure = None]])
       [] Completed(s) /\ s.score -> AfterScore(shown)
       [] Completed(s) /\ ~s.score -> SubmitFinalScore(shown)

\* recover() of the card.
RecoveredCard(c, r) ==
  LET s == r.state
      saved == c.journal
  IN Conclude([Adopt(c, r) EXCEPT
       !.page = [@ EXCEPT !.choice = ResumedChoice(s, saved), !.status = StatusOf(r),
                          !.outcome = IF Completed(s) THEN s.id ELSE None, !.failure = None],
       !.journal.pending = IF s = None \/ InProgress(s) THEN saved.pending ELSE None], s)

\* recover() of the skill check: saved actions are sent again, or the numbers shown.
RecoveredSkill(c, r) ==
  LET s == r.state
      active == InProgress(s)
      again == active /\ c.journal.pending = "play" /\ c.journal.actions # None
  IN Conclude([Adopt(c, r) EXCEPT !.page = [@ EXCEPT
       !.status = StatusOf(r), !.failure = None,
       !.outcome = IF Completed(s) THEN s.id ELSE None,
       !.phase = CASE again -> "input"
                   [] active /\ ~again -> "preview"
                   [] Completed(s) -> "result"
                   [] OTHER -> "intro",
       !.preview = active /\ ~again,
       !.actions = IF again THEN c.journal.actions ELSE c.page.actions,
       !.locked = again \/ c.page.locked]], s)

Recovered(c, r) ==
  CASE game = "spin" -> RecoveredSpin(c, r)
    [] game = "card" -> RecoveredCard(c, r)
    [] game = "skill" -> RecoveredSkill(c, r)

\* createSession answers with session s.
Created(c, s) ==
  LET d == [c EXCEPT !.page.session = [id |-> s, status |-> "active", proof |-> FALSE]]
  IN CASE game = "spin" -> Spin([d EXCEPT !.journal.pending = "commit"])
       [] game = "card" -> Await([d EXCEPT !.journal = [@ EXCEPT !.choice = c.th.choice,
                                                                 !.pending = "play"]],
                                 "play", s, c.th.choice)
       [] game = "skill" ->
            Return([d EXCEPT !.journal.pending = "play",
                             !.page = [@ EXCEPT !.actions = None, !.status = "ready", !.failure = None,
                                                !.phase = "preview", !.preview = TRUE]])

\* playSession or evaluateFairness answers with the outcome of session s.
Played(c, s) ==
  LET d == [c EXCEPT !.page.outcome = s, !.journal.pending = "submit_score"]
  IN CASE game = "spin" -> SubmitFinalScore(d)
       [] game = "card" ->
            Await([d EXCEPT !.page = [@ EXCEPT !.choice = None, !.status = "result", !.failure = None]],
                  "reward", None, None)
       [] game = "skill" ->
            Await([d EXCEPT !.page = [@ EXCEPT !.phase = "result", !.status = "result",
                                               !.failure = None]],
                  "reward", None, None)

\* submitOrRecover reads the answer to the submission, and then the game state.
Submitted(c, r) ==
  IF r.code = "ok" THEN Scored(c, r.id)
  ELSE IF r.code \in {"lost", "invalid_transition"}
  THEN Await([c EXCEPT !.th.error = r.code], "rescore", None, None)
  ELSE Throw(c, r.code)

Reread(c, r) ==
  IF r.code = "ok" /\ r.state # None /\ r.state.score THEN Scored(c, r.state.id)
  ELSE Throw(c, IF r.code = "ok" THEN c.th.error ELSE r.code)

\* The function goes on with the answer r.
Resume(c, r) ==
  IF c.th.at = "score" THEN Submitted(c, r)
  ELSE IF c.th.at = "rescore" THEN Reread(c, r)
  ELSE IF r.code # "ok" THEN Throw(c, r.code)
  ELSE CASE c.th.at = "recover" -> IF c.th.stale THEN Return(c) ELSE Recovered(c, r)
         [] c.th.at = "create" -> Created(c, r.id)
         [] c.th.at = "commit" -> Evaluate([c EXCEPT !.journal.commitment = r.id], r.id)
         [] c.th.at \in {"play", "evaluate"} -> Played(c, r.id)
         [] c.th.at = "reward" -> SubmitFinalScore(c)
         [] c.th.at = "proof" -> Verified([c EXCEPT !.journal.pending = None])

------------------------------------------------------------------------------
(***************************************************************************)
(* The visitor, the timers and the network.                                *)
(***************************************************************************)
\* Thread t has run to its next await as client c.
Run(t, c) ==
  /\ page' = c.page
  /\ journal' = c.journal
  /\ thread' = [u \in Threads |-> IF u = t THEN c.th
                                  ELSE [thread[u] EXCEPT !.stale = @ \/ (c.cancels /\ thread[u].fn # "idle")]]
  /\ crossed' = (crossed \/ \E u \in Threads \ {t} : thread[u].fn # "idle")
  /\ UNCHANGED game

\* A control starts a function, which busy reserves.
Click(c) == Run("main", c) /\ UNCHANGED <<serverVars, late, disturbances>>

Press(c) == [c EXCEPT !.th.fn = "action",
                      !.page = [@ EXCEPT !.busy = TRUE, !.status = "submitting"]]

Offered == page.status \in {"ready", "result"}

\* action() of the wheel.
SpinClicked(seed) ==
  LET c == [Press(Client("main", seed)) EXCEPT !.page.failure = None] IN
  /\ game = "spin" /\ ~page.busy /\ Offered
  /\ Click(IF Active(page) THEN Spin(c) ELSE Create([c EXCEPT !.cancels = TRUE]))

CanChoose == ~page.busy /\ page.choice = None /\ Offered
Choose(v) ==
  /\ game = "card" /\ CanChoose
  /\ Click(PlayChoice(Client("main", None), v))

HasPendingChoice == page.choice # None /\ Active(page)
ResumeClicked ==
  /\ game = "card" /\ ~page.busy /\ HasPendingChoice
  /\ LET c == Client("main", None) IN
     Click(Recover([c EXCEPT !.page.busy = TRUE, !.th.choice = page.choice], "resume"))

CanStart == ~page.busy /\ Offered /\ ~Active(page)
Start ==
  /\ game = "skill" /\ CanStart
  /\ Click(Create([Press(Client("main", None)) EXCEPT !.page.phase = "intro", !.page.locked = FALSE]))

\* The digits, as far as they are entered, undone and entered again.
EnterActions(v) ==
  /\ game = "skill" /\ page.phase = "input" /\ ~page.busy /\ ~page.locked
  /\ page' = [page EXCEPT !.actions = v]
  /\ UNCHANGED <<serverVars, game, late, journal, thread, crossed, disturbances>>

CanSubmit == page.phase = "input" /\ page.actions # None /\ ~page.busy
Submit ==
  /\ game = "skill" /\ CanSubmit /\ page.session # None
  /\ LET c == Press(Client("main", None)) IN
     Click(Await([c EXCEPT !.journal = [@ EXCEPT !.actions = page.actions, !.pending = "play"]],
                 "play", page.session.id, page.actions))

\* The numbers hide.
PreviewEnds ==
  /\ game = "skill" /\ page.preview
  /\ page' = [page EXCEPT !.phase = "input", !.preview = FALSE, !.failure = None]
  /\ UNCHANGED <<serverVars, game, late, journal, thread, crossed, disturbances>>

\* The countdown is at zero: recover(), whatever else is under way.
CountdownEnds ==
  /\ page.countdown /\ thread["timer"].fn = "idle"
  /\ Run("timer", Recover(Client("timer", None), "countdown"))
  /\ UNCHANGED <<serverVars, late, disturbances>>

Continue(t) ==
  /\ thread[t].reply # None
  /\ \E seed \in IF game = "spin" THEN Answers ELSE {None} :
       Run(t, Resume(Client(t, seed), thread[t].reply))
  /\ UNCHANGED <<serverVars, late, disturbances>>

\* What the server does with a request.
Effect(at, s, a) ==
  CASE at \in AsksState -> GetState
    [] at = "create" -> CreateSession
    [] at = "commit" -> CommitFairness(s)
    [] at = "evaluate" -> PlaySession(s, a, TRUE)
    [] at = "play" -> PlaySession(s, a, game # "skill")
    [] at = "score" -> SubmitScore(s)
    [] at = "proof" -> Accept(sessions, s)

Take(e) == sessions' = e.sessions /\ cooling' = e.cooling

Unanswered(t) == thread[t].at # "idle" /\ thread[t].reply = None
Answer(t, r) == thread' = [thread EXCEPT ![t].reply = r]
Error(code) == [code |-> code, id |-> None, state |-> None, cooling |-> FALSE]

Serve(t) ==
  /\ Unanswered(t)
  /\ LET e == Effect(thread[t].at, thread[t].session, thread[t].answer) IN
     /\ Take(e)
     /\ Answer(t, [code |-> e.code, id |-> e.id, cooling |-> e.cooling,
                   state |-> IF thread[t].at \in AsksState THEN Recoverable(e.sessions) ELSE None])
  /\ UNCHANGED <<game, late, journal, page, crossed, disturbances>>

Disturb == disturbances < MaxDisturbances /\ disturbances' = disturbances + 1

\* Writes of the threads T that the server may still see when they are given up.
Given(T) == {[at |-> thread[t].at, session |-> thread[t].session, answer |-> thread[t].answer] :
               t \in {u \in T : Unanswered(u) /\ thread[u].at \notin Reads}}

\* The request or its answer is lost, or takes longer than the page waits.
Lose(t) ==
  /\ thread[t].at # "idle"
  /\ Disturb
  /\ late' = late \cup Given({t})
  /\ Answer(t, Error(IF thread[t].at \in Reads THEN "network" ELSE "lost"))
  /\ UNCHANGED <<serverVars, game, journal, page, crossed>>

\* The server answers a write with an error of its own, and rolls back.  (To the
\* page a failing read is a lost one.)
Fail(t) ==
  /\ Unanswered(t) /\ thread[t].at \notin Reads
  /\ Disturb
  /\ Answer(t, Error("http_503"))
  /\ UNCHANGED <<serverVars, game, late, journal, page, crossed>>

ServeLate(l) ==
  /\ Take(Effect(l.at, l.session, l.answer))
  /\ late' = late \ {l}
  /\ UNCHANGED <<game, journal, page, thread, crossed, disturbances>>

\* The document is loaded: load() asks for the state.
Loading == [Idle EXCEPT !.fn = "load", !.at = "recover"]
Loaded == [t \in Threads |-> IF t = "main" THEN Loading ELSE Idle]

Reload ==
  /\ Disturb
  /\ late' = late \cup Given(Threads)
  /\ page' = NewPage
  /\ thread' = Loaded
  /\ UNCHANGED <<serverVars, game, journal, crossed>>

Init ==
  /\ ServerInit
  /\ game \in Games
  /\ late = {} /\ journal = NoJournal
  /\ page = NewPage /\ thread = Loaded
  /\ crossed = FALSE
  /\ disturbances = 0

Time(A) == A /\ UNCHANGED <<game, late, journal, page, thread, crossed, disturbances>>

Next ==
  \/ Time(PassExpiry) \/ Time(CoolDown) \/ Time(CloseWeek)
  \/ \E v \in Answers : SpinClicked(v) \/ Choose(v) \/ EnterActions(v)
  \/ ResumeClicked \/ Start \/ Submit \/ PreviewEnds \/ CountdownEnds
  \/ \E t \in Threads : Serve(t) \/ Continue(t) \/ Lose(t) \/ Fail(t)
  \/ \E l \in late : ServeLate(l)
  \/ Reload

Spec == Init /\ [][Next]_vars

\* A request is answered, or given up after a timeout, and the page goes on.
Fairness == \A t \in Threads : WF_vars(Serve(t)) /\ WF_vars(Continue(t))

FairSpec == Spec /\ Fairness

------------------------------------------------------------------------------
(***************************************************************************)
(* Properties.                                                             *)
(***************************************************************************)
Sessions == 1 .. MaxSessions
MaybeSession == Sessions \cup {None}
MaybeAnswer == Answers \cup {None}

Request == {"create", "commit", "evaluate", "play", "score"}
Code == {"ok", "active_session_exists", "cooldown_active", "session_expired", "invalid_transition",
         "idempotency_conflict", "leaderboard_period_closed", "lost", "network", "http_503"}
State == [id : Sessions, status : {"active", "completed", "expired"}, proof : BOOLEAN,
          score : BOOLEAN]
Reply == [code : Code, id : MaybeSession, cooling : BOOLEAN, state : State \cup {None}]

\* The session the page holds.
Known == [id : Sessions, status : {"active", "completed", "expired"}, proof : BOOLEAN]

\* Nothing is no record and no failure.
ASSUME NoneAssumption ==
  None \notin Known /\ None \notin State /\ None \notin Reply /\ None \notin {"told", "unheard"}

Journal == [commitment : MaybeSession, seed : MaybeAnswer, choice : MaybeAnswer,
            actions : MaybeAnswer,
            pending : Request \cup {None, "create_session", "submit_score"}]

Page == [status : {"ready", "cooldown", "recovering", "submitting", "result",
                   "expired", "terminal_error"},
         busy : BOOLEAN, outcome : MaybeSession, score : MaybeSession, choice : MaybeAnswer,
         session : Known \cup {None},
         phase : {"intro", "preview", "input", "result"}, actions : MaybeAnswer,
         locked : BOOLEAN, countdown : BOOLEAN, preview : BOOLEAN,
         failure : {None, "told", "unheard"}]

Thread == [fn : {"idle", "load", "action", "caught", "resume", "countdown"},
           at : Request \cup Reads \cup {"idle"}, session : MaybeSession, answer : MaybeAnswer,
           choice : MaybeAnswer, cooling : BOOLEAN, error : Code \cup {None}, stale : BOOLEAN,
           reply : Reply \cup {None}]

\* Every variable has its type, and the page is busy while and only while a function
\* of the visitor or the load is under way.
TypeOK ==
  /\ ServerTypeOK
  /\ game \in Games
  /\ late \subseteq [at : Request, session : MaybeSession, answer : MaybeAnswer]
  /\ journal \in Journal /\ page \in Page
  /\ thread \in [Threads -> Thread]
  /\ page.busy = (thread["main"].fn # "idle")
  /\ crossed \in BOOLEAN
  /\ disturbances \in 0 .. MaxDisturbances

\* Plays and evaluations the server has yet to see.
OnTheirWay == {x \in late \cup Given(Threads) : x.at \in {"play", "evaluate"}}

\* One answer counts: of a session that is not over, the server never gets to see
\* two different choices or client seeds, whatever was lost, comes late or was done
\* again after a reload.  (A countdown's recovery that crosses another function can
\* take the pending choice out of the journal.)
OneAnswer ==
  game \in {"spin", "card"} /\ ~crossed =>
    \A x, y \in OnTheirWay :
      x.session = y.session /\ sessions[x.session].status = "active" => x.answer = y.answer

AtRest == \A t \in Threads : thread[t].fn = "idle"

\* What the visitor can do, or is told to wait for.
Control ==
  \/ page.countdown
  \/ game = "spin" /\ Offered
  \/ game = "card" /\ (CanChoose \/ HasPendingChoice)
  \/ game = "skill" /\ (CanStart \/ page.preview \/ page.phase = "input")

\* The message is that of an error, and leaves the visitor to load the page again.
SaysFailed == page.failure = "told"

\* The recovery of a countdown has failed, and nothing says so.
CountdownFailed == page.status = "recovering" /\ page.failure = "unheard"

\* A session that expired, once its cooldown is over as well.
ExpiredForGood == page.status = "expired"

\* A first choice whose session was never created, or was not seen to be.
ChoiceWithoutSession == game = "card" /\ page.choice # None /\ page.session = None

\* A round that was just played is still active to the page.
PlayedLocally == game = "skill" /\ page.status = "result" /\ Active(page)

\* The same of the countdown of a cooldown, while another function kept the page from
\* showing even that it recovers.
CountdownFailedUnseen == page.status = "cooldown" /\ crossed

\* A page at rest has a control to offer or counts down to one, or its message is that of
\* an error; but for the five dead ends above, which stay until the page is loaded again.
\* This is so whatever was lost, comes late or is found by a countdown in the middle of a
\* round.
OnlyKnownDeadEnds ==
  AtRest => Control \/ SaysFailed \/ CountdownFailed \/ CountdownFailedUnseen
            \/ ExpiredForGood \/ ChoiceWithoutSession \/ PlayedLocally

\* Whatever fails in a function or in the recovery after it, the page is usable
\* again.
PageSettles == page.busy ~> ~page.busy

\* api/players.py:65 "Browser timers and operation journals are not authority.":
\* what a spin asks to evaluate is the proof of its own session.
SpinUsesItsProof ==
  \A t \in Threads :
    Unanswered(t) /\ thread[t].at = "evaluate" => thread[t].session = page.session.id

==============================================================================
