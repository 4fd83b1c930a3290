-------------------------- MODULE GamePage_proofs --------------------------
(***************************************************************************)
(* Proofs about the game pages: whatever is lost, comes late or crosses,   *)
(* the page has no dead ends but the known ones, and one answer counts.    *)
(*                                                                         *)
(* A function of the page runs as a chain of tail calls on a client, from  *)
(* one request to the next.  So there is one lemma per operator: a client  *)
(* that is Running makes one that HasRun, and what runs first cites what   *)
(* it ends with.                                                           *)
(***************************************************************************)
EXTENDS GamePage, TLAPS

------------------------------------------------------------------------------
(***************************************************************************)
(* The inductive invariants.                                               *)
(***************************************************************************)
Codes == Code \cup {None}
Functions == {"load", "action", "caught", "resume"}

Clients == [page : Page, journal : Journal, th : Thread, cancels : BOOLEAN, seed : MaybeAnswer]

Types ==
  /\ ServerTypeOK
  /\ ~cooling => Latest < MaxSessions
  /\ game \in Games
  /\ late \subseteq [at : Request, session : MaybeSession, answer : MaybeAnswer]
  /\ journal \in Journal /\ page \in Page
  /\ thread \in [Threads -> Thread]
  /\ page.busy = (thread["main"].fn # "idle")
  /\ crossed \in BOOLEAN
  /\ disturbances \in 0 .. MaxDisturbances

\* What thread t is at: its functions, and no request of a thread that is idle.
AtWork(t, th) ==
  /\ th.fn = "idle" => th = Idle
  /\ th.at = "idle" => th.fn = "idle"
  /\ th.fn \in (IF t = "main" THEN Functions ELSE {"countdown"}) \cup {"idle"}
  /\ th.fn = "action" => th.at # "recover"
  /\ th.at \in {"commit", "evaluate", "proof"} => game = "spin"
  /\ th.reply # None /\ th.reply.code = "ok" /\ th.at = "create" => th.reply.id # None

\* Only a visitor's action submits, and not any more when it has its outcome.
Submitting(th) ==
  th.fn = "action" /\ (game # "spin" => th.at \notin {"reward", "score", "rescore"})

\* What the page shows leads on; x tells whether functions crossed.
Leads(pg, x) ==
  /\ pg.status = "cooldown" /\ ~x => pg.countdown
  /\ game = "card" /\ pg.status \in {"ready", "result"}
       => pg.choice = None \/ pg.session = None \/ Active(pg)
  /\ game = "skill" /\ pg.status = "ready" /\ Active(pg) => pg.preview \/ pg.phase = "input"

\* A function that nothing crossed has started the countdown of the cooldown it found.
Counts(pg, th, x) ==
  ~x => /\ ~th.stale
        /\ IF th.at = "recover" THEN pg.status = "recovering" ELSE th.cooling => pg.countdown

\* Unless functions have crossed, one runs at a time.
OneRuns == ~crossed => \E t \in Threads : thread[t].fn = "idle"

PageInv ==
  /\ Types
  /\ \A t \in Threads : AtWork(t, thread[t]) /\ Counts(page, thread[t], crossed)
  /\ page.status = "submitting" => Submitting(thread["main"])
  /\ Leads(page, crossed)
  /\ OneRuns

\* A client seed that is under way, in a request or a function y, is the journal's.
Drawn(y, j) == y.at # "play" /\ (y.at = "evaluate" => y.answer = j.seed /\ j.seed # None)

SeedInv ==
  game = "spin" =>
    /\ \A l \in late : Drawn(l, journal)
    /\ \A t \in Threads : Drawn(thread[t], journal) /\ thread[t].fn # "resume"

\* The choice a function gives is the page's and the journal's, for the page's session.
Chosen(pg, j, th) ==
  /\ th.at \in {"create", "play"} =>
       /\ th.choice # None /\ pg.choice = th.choice /\ j.choice = th.choice
       /\ j.pending \in {"create_session", "play"}
  /\ th.at = "play" =>
       th.answer = th.choice /\ pg.session # None /\ th.session = pg.session.id

\* A play x, on its way to a session that is not over, is what the page and its journal
\* would give again,
Agrees(pg, j, x) ==
  /\ x.answer # None /\ j.choice = x.answer
  /\ j.pending \in {"create_session", "play"}
  /\ pg.choice = x.answer \/ (pg.choice = None /\ pg.status \notin {"ready", "result"})
  /\ pg.session # None => pg.session.id = x.session

\* and what the functions of the page find out or give.
Heeds(th, x) ==
  /\ th.at \in {"idle", "recover", "create", "play"}
  /\ th.fn \in {"resume", "action"} => th.choice = x.answer
  /\ th.at \in {"recover", "play"} /\ th.reply # None /\ th.reply.code = "ok" =>
       th.at = "recover" /\ th.reply.state # None /\ th.reply.state.id = x.session
         /\ th.reply.state.status = "active"

Open(x) == sessions[x.session].status = "active"
Live == {x \in OnTheirWay : Open(x)}

\* The sessions that plays and pages name exist, and a choice is given with them.
Named(pg, th) ==
  /\ pg.session # None => pg.session.id \in DOMAIN sessions
  /\ th.at = "play" => th.session \in DOMAIN sessions /\ th.answer # None
  /\ th.fn = "resume" \/ th.at = "create" => th.choice # None

Replied(th) ==
  th.reply # None =>
    /\ th.at = "create" /\ th.reply.code = "ok" => th.reply.id \in DOMAIN sessions
    /\ th.reply.state # None => th.reply.state.id \in DOMAIN sessions

\* The same of a play that the page has given up.
GivenUp(l) ==
  l.at # "evaluate" /\ (l.at = "play" => l.session \in DOMAIN sessions /\ l.answer # None)

ChoiceInv ==
  game = "card" =>
    /\ \A l \in late : GivenUp(l)
    /\ \A t \in Threads : Named(page, thread[t]) /\ Replied(thread[t])
    /\ ~crossed =>
         /\ \A t \in Threads : Chosen(page, journal, thread[t])
         /\ \A x \in Live :
              /\ Agrees(page, journal, x)
              /\ \A t \in Threads :
                   /\ Heeds(thread[t], x)
                   /\ ~(thread[t].at = "create" /\ thread[t].reply # None
                          /\ thread[t].reply.code = "ok")

AnswerInv == SeedInv /\ ChoiceInv

------------------------------------------------------------------------------
(***************************************************************************)
(* Clients.  b tells whether the page is busy but for the thread t, q      *)
(* whether an action of the other thread is submitting, x whether          *)
(* functions have crossed.                                                 *)
(***************************************************************************)
Running(c, t, b, x) ==
  /\ c \in Clients
  /\ c.th.fn \in IF t = "main" THEN Functions ELSE {"countdown"}
  /\ c.page.busy <=> t = "main" \/ b
  /\ Leads(c.page, x)
  /\ ~x => ~c.th.stale /\ (c.th.cooling => c.page.countdown)

HasRun(c, t, b, q, x) ==
  /\ c \in Clients
  /\ AtWork(t, c.th)
  /\ c.page.busy <=> IF t = "main" THEN c.th.fn # "idle" ELSE b
  /\ Leads(c.page, x)
  /\ Counts(c.page, c.th, x)
  /\ c.page.status = "submitting" => IF t = "main" THEN Submitting(c.th) ELSE q

\* What c may await: requests of its game, and submitting only before the outcome.
MayAwait(c, t, at, q) ==
  /\ at \in {"commit", "evaluate", "proof"} => game = "spin"
  /\ c.page.status = "submitting" =>
       IF t = "main" THEN c.th.fn = "action"
                          /\ (game # "spin" => at \notin {"reward", "score", "rescore"})
       ELSE q

\* c may come to its end: only a spin sets the status then.
MayEnd(c, t, q) ==
  c.page.status = "submitting" =>
    IF t = "main" THEN c.th.fn = "action" /\ game = "spin" ELSE q

LEMMA NoneIsNot ==
  /\ None \notin Answers /\ None \notin Nat /\ None \notin Sessions
  /\ MaxSessions \in Nat \ {0}
BY AnswerAssumption, SessionBound DEF Sessions

LEMMA IdleType == Idle \in Thread /\ Idle.fn = "idle" /\ Idle.at = "idle"
BY DEF Idle, Thread, MaybeSession, MaybeAnswer

LEMMA AwaitFacts ==
  ASSUME NEW c \in Clients, NEW at \in Request \cup Reads, NEW s \in MaybeSession,
         NEW a \in MaybeAnswer, NEW d, d = Await(c, at, s, a)
  PROVE  /\ d \in Clients
         /\ d.page = c.page /\ d.journal = c.journal /\ d.cancels = c.cancels /\ d.seed = c.seed
         /\ d.th.fn = c.th.fn /\ d.th.at = at /\ d.th.session = s /\ d.th.answer = a
         /\ d.th.reply = None /\ d.th.choice = c.th.choice /\ d.th.cooling = c.th.cooling
         /\ d.th.stale = c.th.stale
BY DEF Await, Clients, Thread

LEMMA AwaitRuns ==
  ASSUME NEW t \in Threads, NEW b \in BOOLEAN, NEW q \in BOOLEAN, NEW x \in BOOLEAN,
         NEW c, Running(c, t, b, x),
         NEW at \in (Request \cup Reads) \ {"recover"}, NEW s \in MaybeSession, NEW a \in MaybeAnswer,
         MayAwait(c, t, at, q)
  PROVE  HasRun(Await(c, at, s, a), t, b, q, x)
<1>0. PICK d : d = Await(c, at, s, a)
  OBVIOUS
<1>1. /\ d \in Clients /\ d.page = c.page /\ d.th.fn = c.th.fn /\ d.th.at = at
      /\ d.th.reply = None /\ d.th.cooling = c.th.cooling /\ d.th.stale = c.th.stale
  BY <1>0, AwaitFacts DEF Running
<1>2. AtWork(t, d.th)
  BY <1>1 DEF AtWork, Running, Functions, Request, Reads, AsksState, MayAwait
<1>3. d.page.busy <=> IF t = "main" THEN d.th.fn # "idle" ELSE b
  BY <1>1 DEF Running, Functions
<1>4. Leads(d.page, x) /\ Counts(d.page, d.th, x)
  BY <1>1 DEF Running, Counts
<1>5. d.page.status = "submitting" => IF t = "main" THEN Submitting(d.th) ELSE q
  BY <1>1 DEF MayAwait, Submitting
<1>. QED  BY <1>1, <1>2, <1>3, <1>4, <1>5, <1>0 DEF HasRun

LEMMA RecoverRuns ==
  ASSUME NEW t \in Threads, NEW b \in BOOLEAN, NEW q \in BOOLEAN, NEW x \in BOOLEAN,
         NEW c \in Clients, c.page.busy <=> t = "main" \/ b,
         NEW fn \in IF t = "main" THEN Functions \ {"action"} ELSE {"countdown"}
  PROVE  HasRun(Recover(c, fn), t, b, q, x)
<1>1. PICK th : th = [c.th EXCEPT !.fn = fn, !.stale = FALSE]
  OBVIOUS
<1>2. PICK pg : pg = [c.page EXCEPT !.status = "recovering", !.countdown = FALSE, !.preview = FALSE]
  OBVIOUS
<1>3. PICK e : e = [c EXCEPT !.th = th, !.page = pg]
  OBVIOUS
<1>4. PICK d : d = Recover(c, fn)
  OBVIOUS
<1>5. th \in Thread /\ th.fn = fn /\ th.stale = FALSE
  BY <1>1 DEF Clients, Thread, Functions
<1>6. pg \in Page /\ pg.status = "recovering" /\ pg.busy = c.page.busy
  BY <1>2 DEF Clients, Page
<1>7. e \in Clients /\ e.page = pg /\ e.th.fn = fn /\ e.th.stale = FALSE
  BY <1>3, <1>5, <1>6 DEF Clients
<1>8. d = Await(e, "recover", None, None)
  BY <1>1, <1>2, <1>3, <1>4 DEF Recover
<1>9. d \in Clients /\ d.page = pg /\ d.th.fn = fn /\ d.th.at = "recover" /\ d.th.reply = None
      /\ d.th.stale = FALSE
  BY <1>7, <1>8, AwaitFacts DEF Reads, AsksState, MaybeSession, MaybeAnswer
<1>. QED
  BY <1>4, <1>6, <1>9 DEF HasRun, AtWork, Leads, Counts, Functions

LEMMA EvaluateRuns ==
  ASSUME NEW t \in Threads, NEW b \in BOOLEAN, NEW q \in BOOLEAN, NEW x \in BOOLEAN,
         NEW c, Running(c, t, b, x), NEW proof \in MaybeSession, MayAwait(c, t, "evaluate", q)
  PROVE  HasRun(Evaluate(c, proof), t, b, q, x)
<1>1. PICK seed : seed = IF c.journal.seed # None THEN c.journal.seed ELSE c.seed
  OBVIOUS
<1>2. PICK e : e = [c EXCEPT !.journal = [@ EXCEPT !.seed = seed, !.pending = "evaluate"]]
  OBVIOUS
<1>3. seed \in MaybeAnswer
  BY <1>1 DEF Running, Clients, Journal
<1>4. e \in Clients /\ e.page = c.page /\ e.th = c.th
  BY <1>2, <1>3 DEF Running, Clients, Journal, Request
<1>5. Running(e, t, b, x) /\ MayAwait(e, t, "evaluate", q)
  BY <1>4 DEF Running, MayAwait
<1>6. HasRun(Await(e, "evaluate", proof, seed), t, b, q, x)
  BY <1>3, <1>5, AwaitRuns DEF Request
<1>. QED  BY <1>1, <1>2, <1>6 DEF Evaluate

LEMMA SpinRuns ==
  ASSUME NEW t \in Threads, NEW b \in BOOLEAN, NEW q \in BOOLEAN, NEW x \in BOOLEAN,
         NEW c, Running(c, t, b, x), c.page.session # None, game = "spin",
         MayAwait(c, t, "evaluate", q)
  PROVE  HasRun(Spin(c), t, b, q, x)
<1>1. PICK proof : proof = IF c.page.session.proof THEN c.page.session.id ELSE c.journal.commitment
  OBVIOUS
<1>2. c.page.session.id \in MaybeSession /\ c.journal.commitment \in MaybeSession
  BY DEF Running, Clients, Page, Journal, MaybeSession, Known
<1>3. proof \in MaybeSession
  BY <1>1, <1>2
<1>4. MayAwait(c, t, "commit", q)
  BY DEF MayAwait
<1>5. HasRun(Await(c, "commit", c.page.session.id, None), t, b, q, x)
  BY <1>2, <1>4, AwaitRuns DEF Request, MaybeAnswer
<1>6. HasRun(Evaluate(c, proof), t, b, q, x)
  BY <1>3, EvaluateRuns
<1>. QED  BY <1>1, <1>5, <1>6 DEF Spin

LEMMA CreateRuns ==
  ASSUME NEW t \in Threads, NEW b \in BOOLEAN, NEW q \in BOOLEAN, NEW x \in BOOLEAN,
         NEW c, Running(c, t, b, x), MayAwait(c, t, "create", q)
  PROVE  HasRun(Create(c), t, b, q, x)
<1>1. PICK pg : pg = [c.page EXCEPT !.outcome = None, !.score = None]
  OBVIOUS
<1>2. PICK e : e = [c EXCEPT !.page = pg, !.journal.pending = "create_session"]
  OBVIOUS
<1>3. /\ pg \in Page /\ pg.status = c.page.status /\ pg.busy = c.page.busy
      /\ pg.countdown = c.page.countdown /\ pg.choice = c.page.choice
      /\ pg.session = c.page.session /\ pg.preview = c.page.preview /\ pg.phase = c.page.phase
  BY <1>1 DEF Running, Clients, Page, MaybeSession
<1>4. e \in Clients /\ e.page = pg /\ e.th = c.th
  BY <1>2, <1>3 DEF Running, Clients, Journal
<1>5. Running(e, t, b, x) /\ MayAwait(e, t, "create", q)
  BY <1>3, <1>4 DEF Running, MayAwait, Leads, Active
<1>6. HasRun(Await(e, "create", None, None), t, b, q, x)
  BY <1>5, AwaitRuns DEF Request, MaybeAnswer, MaybeSession
<1>. QED  BY <1>1, <1>2, <1>6 DEF Create

LEMMA PlayChoiceRuns ==
  ASSUME NEW b \in BOOLEAN, NEW q \in BOOLEAN, NEW x \in BOOLEAN,
         NEW c \in Clients, NEW v \in MaybeAnswer,
         ~x => ~c.th.stale /\ (c.th.cooling => c.page.countdown)
  PROVE  HasRun(PlayChoice(c, v), "main", b, q, x)
<1>1. PICK pg : pg = [c.page EXCEPT !.busy = TRUE, !.status = "submitting", !.choice = v]
  OBVIOUS
<1>2. PICK th : th = [c.th EXCEPT !.fn = "action", !.choice = v]
  OBVIOUS
<1>3. PICK d : d = [c EXCEPT !.th = th, !.page = pg, !.journal.choice = v]
  OBVIOUS
<1>4. PICK e : e = [d EXCEPT !.journal.pending = "play"]
  OBVIOUS
<1>5. /\ pg \in Page /\ pg.status = "submitting" /\ pg.busy = TRUE
      /\ pg.countdown = c.page.countdown /\ pg.session = c.page.session
  BY <1>1 DEF Clients, Page
<1>6. /\ th \in Thread /\ th.fn = "action" /\ th.cooling = c.th.cooling
      /\ th.stale = c.th.stale
  BY <1>2 DEF Clients, Thread
<1>7. d \in Clients /\ d.page = pg /\ d.th = th
  BY <1>3, <1>5, <1>6 DEF Clients, Journal
<1>8. e \in Clients /\ e.page = pg /\ e.th = th
  BY <1>4, <1>7 DEF Clients, Journal, Request
<1>9. /\ Running(d, "main", b, x) /\ Running(e, "main", b, x)
      /\ MayAwait(d, "main", "create", q) /\ MayAwait(e, "main", "play", q)
  BY <1>5, <1>6, <1>7, <1>8 DEF Running, MayAwait, Leads, Functions
<1>10. CASE Active(c.page)
  <2>1. c.page.session.id \in MaybeSession
    BY <1>10 DEF Active, Clients, Page, MaybeSession, Known
  <2>2. HasRun(Await(e, "play", c.page.session.id, v), "main", b, q, x)
    BY <1>9, <2>1, AwaitRuns DEF Request, Threads
  <2>. QED  BY <1>1, <1>2, <1>3, <1>4, <1>10, <2>2 DEF PlayChoice
<1>11. CASE ~Active(c.page)
  BY <1>1, <1>2, <1>3, <1>9, <1>11, CreateRuns DEF PlayChoice, Threads
<1>. QED  BY <1>10, <1>11

LEMMA ReturnRuns ==
  ASSUME NEW t \in Threads, NEW b \in BOOLEAN, NEW q \in BOOLEAN, NEW x \in BOOLEAN,
         NEW c, Running(c, t, b, x),
         c.page.status = "submitting" => t # "main" /\ q
  PROVE  HasRun(Return(c), t, b, q, x)
<1>1. PICK done : done = [c EXCEPT !.th = Idle]
  OBVIOUS
<1>2. PICK free : free = [done EXCEPT !.page.busy = FALSE]
  OBVIOUS
<1>3. done \in Clients /\ done.page = c.page /\ done.th = Idle
  BY <1>1, IdleType DEF Running, Clients
<1>4. /\ free \in Clients /\ free.th = Idle /\ free.page.busy = FALSE
      /\ free.page.status = c.page.status /\ free.page.countdown = c.page.countdown
      /\ free.page.choice = c.page.choice /\ free.page.session = c.page.session
      /\ free.page.preview = c.page.preview /\ free.page.phase = c.page.phase
  BY <1>2, <1>3 DEF Clients, Page
<1>5. AtWork(t, Idle) /\ Idle.cooling = FALSE /\ Idle.stale = FALSE /\ Idle.at # "recover"
  BY DEF AtWork, Idle
<1>6. CASE t # "main"
  <2>1. c.th.fn = "countdown" /\ HasRun(done, t, b, q, x)
    BY <1>3, <1>5, <1>6 DEF Running, HasRun, Counts
  <2>. QED  BY <1>1, <2>1 DEF Return
<1>7. CASE t = "main"
  <2>1. c.th.fn # "countdown"
    BY <1>7 DEF Running, Functions
  <2>2. HasRun(free, t, b, q, x)
    BY <1>4, <1>5, <1>7, IdleType DEF Running, HasRun, Counts, Leads, Active
  <2>3. HasRun(PlayChoice(c, c.th.choice), t, b, q, x)
    BY <1>7, PlayChoiceRuns DEF Running, Clients, Thread
  <2>. QED  BY <1>1, <1>2, <2>1, <2>2, <2>3 DEF Return
<1>. QED  BY <1>6, <1>7

LEMMA ThrowRuns ==
  ASSUME NEW t \in Threads, NEW b \in BOOLEAN, NEW q \in BOOLEAN, NEW x \in BOOLEAN,
         NEW c \in Clients, c.th.fn \in IF t = "main" THEN Functions ELSE {"countdown"},
         c.page.busy <=> t = "main" \/ b, Leads(c.page, x), NEW code,
         c.page.status = "submitting" => IF t = "main" THEN c.th.fn = "action" ELSE q
  PROVE  HasRun(Throw(c, code), t, b, q, x)
<1>1. PICK free : free = [c EXCEPT !.th = Idle, !.page.busy = FALSE]
  OBVIOUS
<1>2. PICK caught : caught = [c EXCEPT !.cancels = game = "spin",
                                       !.page = [@ EXCEPT
                           !.status = IF code = "session_expired" THEN "expired" ELSE "recovering",
                           !.failure = "told"]]
  OBVIOUS
<1>3. /\ free \in Clients /\ free.th = Idle /\ free.page.busy = FALSE
      /\ free.page.status = c.page.status /\ free.page.countdown = c.page.countdown
      /\ free.page.choice = c.page.choice /\ free.page.session = c.page.session
      /\ free.page.preview = c.page.preview /\ free.page.phase = c.page.phase
  BY <1>1, IdleType DEF Running, Clients, Page
<1>4. /\ caught \in Clients /\ caught.page.busy = c.page.busy
      /\ caught.page.status \in {"expired", "recovering"}
  BY <1>2, ZenonT(60) DEF Running, Clients, Page
<1>5. AtWork(t, Idle) /\ Idle.cooling = FALSE /\ Idle.stale = FALSE /\ Idle.at # "recover" /\ Idle.fn = "idle"
  BY DEF AtWork, Idle
<1>6. CASE t # "main"
  <2>1. PICK done : done = [c EXCEPT !.th = Idle,
                                     !.page.failure = IF @ = "told" THEN @ ELSE "unheard"]
    OBVIOUS
  <2>2. /\ done \in Clients /\ done.th = Idle /\ done.page.busy = c.page.busy
        /\ done.page.status = c.page.status /\ done.page.countdown = c.page.countdown
        /\ done.page.choice = c.page.choice /\ done.page.session = c.page.session
        /\ done.page.preview = c.page.preview /\ done.page.phase = c.page.phase
    BY <2>1, IdleType DEF Clients, Page
  <2>3. c.th.fn = "countdown" /\ HasRun(done, t, b, q, x)
    BY <2>2, <1>5, <1>6 DEF HasRun, Counts, Leads, Active
  <2>. QED  BY <2>1, <2>3 DEF Throw
<1>7. CASE t = "main" /\ c.th.fn = "caught"
  <2>1. HasRun(free, t, b, q, x)
    BY <1>3, <1>5, <1>7 DEF Running, HasRun, Counts, Leads, Active
  <2>. QED  BY <1>1, <1>7, <2>1 DEF Throw
<1>8. CASE t = "main" /\ c.th.fn \in {"load", "resume"}
  <2>1. PICK e : e = [free EXCEPT !.page = [@ EXCEPT !.status = IF c.th.fn = "load" THEN "terminal_error"
                                                                ELSE "recovering",
                                                     !.failure = "told"]]
    OBVIOUS
  <2>2. /\ e \in Clients /\ e.th = Idle /\ e.page.busy = FALSE
        /\ e.page.status \in {"terminal_error", "recovering"}
    BY <1>3, <2>1, ZenonT(60) DEF Clients, Page
  <2>3. HasRun(e, t, b, q, x)
    BY <2>2, <1>5, <1>8 DEF HasRun, Counts, Leads
  <2>. QED  BY <1>1, <1>8, <2>1, <2>3 DEF Throw
<1>9. CASE t = "main" /\ c.th.fn = "action"
  <2>1. HasRun(Recover(caught, "caught"), t, b, q, x)
    BY <1>4, <1>9, RecoverRuns DEF Running, Functions
  <2>2. PICK e : e = [caught EXCEPT !.th = Idle, !.page.busy = FALSE]
    OBVIOUS
  <2>3. /\ e \in Clients /\ e.th = Idle /\ e.page.busy = FALSE
        /\ e.page.status \in {"expired", "recovering"}
    BY <1>4, <2>2, IdleType, ZenonT(60) DEF Clients, Page
  <2>4. HasRun(e, t, b, q, x)
    BY <2>3, <1>5, <1>9 DEF HasRun, Counts, Leads
  <2>. QED  BY <1>2, <1>9, <2>1, <2>2, <2>4 DEF Throw
<1>. QED  BY <1>6, <1>7, <1>8, <1>9 DEF Running, Functions

LEMMA VerifiedRuns ==
  ASSUME NEW t \in Threads, NEW b \in BOOLEAN, NEW q \in BOOLEAN, NEW x \in BOOLEAN,
         NEW c, Running(c, t, b, x), game = "spin"
  PROVE  HasRun(Verified(c), t, b, q, x)
<1>1. PICK status : status = IF c.th.fn = "action" THEN "result" ELSE Rested(c.th.cooling, "result")
  OBVIOUS
<1>2. PICK e : e = [c EXCEPT !.page = [@ EXCEPT !.status = status, !.failure = None]]
  OBVIOUS
<1>3. status \in {"result", "cooldown"} /\ (status = "cooldown" => c.th.cooling)
  BY <1>1 DEF Rested
<1>4. /\ e \in Clients /\ e.th = c.th /\ e.page.busy = c.page.busy
      /\ e.page.status = status /\ e.page.countdown = c.page.countdown
  BY <1>2, <1>3 DEF Running, Clients, Page
<1>5. Running(e, t, b, x)
  BY <1>3, <1>4 DEF Running, Leads
<1>6. HasRun(Return(e), t, b, q, x)
  BY <1>3, <1>4, <1>5, ReturnRuns
<1>. QED  BY <1>1, <1>2, <1>6 DEF Verified

LEMMA AfterScoreRuns ==
  ASSUME NEW t \in Threads, NEW b \in BOOLEAN, NEW q \in BOOLEAN, NEW x \in BOOLEAN,
         NEW c, Running(c, t, b, x), MayEnd(c, t, q)
  PROVE  HasRun(AfterScore(c), t, b, q, x)
<1>1. CASE game # "spin"
  <2>1. c.page.status = "submitting" => t # "main" /\ q
    BY <1>1 DEF MayEnd
  <2>2. HasRun(Return(c), t, b, q, x)
    BY <2>1, ReturnRuns
  <2>. QED  BY <1>1, <2>2 DEF AfterScore
<1>2. CASE game = "spin"
  <2>1. MayAwait(c, t, "proof", q) /\ c.page.outcome \in MaybeSession
    BY <1>2 DEF MayEnd, MayAwait, Running, Clients, Page
  <2>2. HasRun(Await(c, "proof", c.page.outcome, None), t, b, q, x)
    BY <2>1, AwaitRuns DEF Reads, MaybeAnswer
  <2>3. HasRun(Verified(c), t, b, q, x)
    BY <1>2, VerifiedRuns
  <2>. QED  BY <1>2, <2>2, <2>3 DEF AfterScore
<1>. QED  BY <1>1, <1>2

LEMMA ScoredRuns ==
  ASSUME NEW t \in Threads, NEW b \in BOOLEAN, NEW q \in BOOLEAN, NEW x \in BOOLEAN,
         NEW c, Running(c, t, b, x), MayEnd(c, t, q), NEW s \in MaybeSession
  PROVE  HasRun(Scored(c, s), t, b, q, x)
<1>1. PICK e : e = [c EXCEPT !.page.score = s, !.journal.pending = None]
  OBVIOUS
<1>2. /\ e \in Clients /\ e.th = c.th /\ e.page.status = c.page.status /\ e.page.busy = c.page.busy
      /\ e.page.countdown = c.page.countdown /\ e.page.choice = c.page.choice
      /\ e.page.session = c.page.session /\ e.page.preview = c.page.preview
      /\ e.page.phase = c.page.phase
  BY <1>1 DEF Running, Clients, Page, Journal
<1>3. Running(e, t, b, x) /\ MayEnd(e, t, q)
  BY <1>2 DEF Running, MayEnd, Leads, Active
<1>. QED  BY <1>1, <1>3, AfterScoreRuns DEF Scored

LEMMA SubmitFinalScoreRuns ==
  ASSUME NEW t \in Threads, NEW b \in BOOLEAN, NEW q \in BOOLEAN, NEW x \in BOOLEAN,
         NEW c, Running(c, t, b, x), MayEnd(c, t, q)
  PROVE  HasRun(SubmitFinalScore(c), t, b, q, x)
<1>1. CASE c.page.session = None \/ c.page.outcome = None
  BY <1>1, AfterScoreRuns DEF SubmitFinalScore
<1>2. CASE ~(c.page.session = None \/ c.page.outcome = None)
  <2>1. PICK e : e = [c EXCEPT !.journal.pending = "submit_score"]
    OBVIOUS
  <2>2. e \in Clients /\ e.page = c.page /\ e.th = c.th
    BY <2>1 DEF Running, Clients, Journal
  <2>3. Running(e, t, b, x) /\ MayAwait(e, t, "score", q)
    BY <2>2 DEF Running, MayEnd, MayAwait
  <2>4. c.page.session.id \in MaybeSession
    BY <1>2 DEF Running, Clients, Page, MaybeSession, Known
  <2>5. HasRun(Await(e, "score", c.page.session.id, None), t, b, q, x)
    BY <2>3, <2>4, AwaitRuns DEF Request, MaybeAnswer
  <2>. QED  BY <1>2, <2>1, <2>5 DEF SubmitFinalScore
<1>. QED  BY <1>1, <1>2

LEMMA AdoptFacts ==
  ASSUME NEW c \in Clients, NEW r \in Reply, NEW d, d = Adopt(c, r)
  PROVE  /\ d \in Clients /\ d.journal = c.journal
         /\ d.cancels = c.cancels /\ d.seed = c.seed
         /\ d.th.fn = c.th.fn /\ d.th.choice = c.th.choice /\ d.th.cooling = r.cooling
         /\ d.th.stale = c.th.stale
         /\ (d.page.session = None <=> r.state = None)
         /\ (d.page.session # None => d.page.session.id = r.state.id)
         /\ (Active(d.page) <=> InProgress(r.state))
         /\ (d.page.countdown <=> InProgress(r.state) \/ r.cooling)
         /\ d.page.busy = c.page.busy /\ d.page.status = c.page.status
         /\ d.page.outcome = c.page.outcome /\ d.page.choice = c.page.choice
         /\ d.page.phase = c.page.phase /\ d.page.preview = c.page.preview
         /\ d.page.failure = c.page.failure
<1>1. PICK s : s = IF r.state = None THEN None
                   ELSE [id |-> r.state.id, status |-> r.state.status, proof |-> r.state.proof]
  OBVIOUS
<1>2. PICK score : score = IF Completed(r.state) /\ r.state.score THEN r.state.id ELSE None
  OBVIOUS
<1>3. PICK count : count = (InProgress(r.state) \/ r.cooling)
  OBVIOUS
<1>4. PICK pg : pg = [c.page EXCEPT !.session = s, !.score = score, !.countdown = count]
  OBVIOUS
<1>5. r.state # None => r.state \in State
  BY DEF Reply
<1>6. /\ s \in Known \cup {None}
      /\ (s = None <=> r.state = None)
      /\ (s # None => s.status = r.state.status /\ s.id = r.state.id)
  <2>1. CASE r.state = None
    BY <1>1, <2>1
  <2>2. CASE r.state # None
    <3>1. s = [id |-> r.state.id, status |-> r.state.status, proof |-> r.state.proof]
      BY <1>1, <2>2
    <3>2. s.status = r.state.status /\ s.id = r.state.id
      BY <3>1
    <3>3. s \in Known
      BY <1>5, <2>2, <3>1 DEF State, Known
    <3>4. s # None
      BY <3>3, NoneAssumption
    <3>. QED  BY <2>2, <3>2, <3>3, <3>4
  <2>. QED  BY <2>1, <2>2
<1>7. score \in MaybeSession
  BY <1>2, <1>5 DEF Completed, State, MaybeSession
<1>8. count \in BOOLEAN
  BY <1>3, <1>5 DEF InProgress, State, Reply
<1>9. /\ pg \in Page /\ pg.session = s /\ pg.countdown = count
      /\ pg.busy = c.page.busy /\ pg.status = c.page.status
      /\ pg.outcome = c.page.outcome /\ pg.choice = c.page.choice
      /\ pg.phase = c.page.phase /\ pg.preview = c.page.preview
      /\ pg.failure = c.page.failure
  BY <1>4, <1>6, <1>7, <1>8 DEF Clients, Page
<1>10. PICK th : th = [c.th EXCEPT !.cooling = r.cooling]
  OBVIOUS
<1>11. /\ th \in Thread /\ th.fn = c.th.fn /\ th.choice = c.th.choice /\ th.cooling = r.cooling
       /\ th.stale = c.th.stale
  <2>1. r.cooling \in BOOLEAN
    BY DEF Reply
  <2>. QED  BY <1>10, <2>1 DEF Clients, Thread
<1>12. d = [c EXCEPT !.th = th, !.page = pg]
  BY <1>1, <1>2, <1>3, <1>4, <1>10 DEF Adopt
<1>13. /\ d \in Clients /\ d.journal = c.journal /\ d.page = pg /\ d.th = th
       /\ d.cancels = c.cancels /\ d.seed = c.seed
  BY <1>9, <1>11, <1>12 DEF Clients
<1>14. Active(pg) <=> InProgress(r.state)
  BY <1>6, <1>9 DEF Active, InProgress
<1>. QED  BY <1>1, <1>3, <1>6, <1>9, <1>11, <1>13, <1>14

LEMMA StatusFacts ==
  ASSUME NEW r \in Reply
  PROVE  /\ StatusOf(r) \in {"cooldown", "ready", "result", "expired"}
         /\ StatusOf(r) = "cooldown" => r.cooling
         /\ StatusOf(r) = "ready" => r.state = None \/ InProgress(r.state)
<1>1. r.state # None => r.state \in State
  BY DEF Reply
<1>2. CASE r.state = None
  BY <1>2 DEF StatusOf, Rested, InProgress, Completed
<1>3. CASE InProgress(r.state)
  BY <1>3 DEF StatusOf, Rested, InProgress, Completed
<1>4. CASE Completed(r.state)
  BY <1>4 DEF StatusOf, Rested, InProgress, Completed
<1>5. CASE r.state # None /\ ~InProgress(r.state) /\ ~Completed(r.state)
  BY <1>5 DEF StatusOf
<1>. QED  BY <1>2, <1>3, <1>4, <1>5

LEMMA ConcludeRuns ==
  ASSUME NEW t \in Threads, NEW b \in BOOLEAN, NEW q \in BOOLEAN, NEW x \in BOOLEAN,
         NEW c, Running(c, t, b, x), c.page.status # "submitting", NEW s
  PROVE  HasRun(Conclude(c, s), t, b, q, x)
BY SubmitFinalScoreRuns, ReturnRuns DEF Conclude, MayEnd

LEMMA RecoveredSpinRuns ==
  ASSUME NEW t \in Threads, NEW b \in BOOLEAN, NEW q \in BOOLEAN, NEW x \in BOOLEAN,
         NEW c \in Clients, c.th.fn \in IF t = "main" THEN Functions ELSE {"countdown"},
         c.page.busy <=> t = "main" \/ b, ~x => ~c.th.stale,
         c.page.status = "submitting" => t # "main" /\ q, ~x => c.page.status = "recovering",
         NEW r \in Reply, game = "spin"
  PROVE  HasRun(RecoveredSpin(c, r), t, b, q, x)
<1>1. PICK a : a = Adopt(c, r)
  OBVIOUS
<1>2. PICK d : d = IF r.state = None THEN a
                   ELSE [a EXCEPT !.journal.commitment = IF r.state.proof THEN r.state.id ELSE None]
  OBVIOUS
<1>3. r.state # None => r.state \in State
  BY DEF Reply
<1>4. /\ a \in Clients /\ a.th.fn = c.th.fn /\ a.th.cooling = r.cooling /\ a.th.stale = c.th.stale
      /\ (a.page.countdown <=> InProgress(r.state) \/ r.cooling)
      /\ a.page.busy = c.page.busy /\ a.page.status = c.page.status
  BY <1>1, AdoptFacts
<1>5. d \in Clients /\ d.page = a.page /\ d.th = a.th
  BY <1>2, <1>3, <1>4 DEF Clients, Journal, State, MaybeSession
<1>6. CASE ~Completed(r.state)
  <2>1. PICK e : e = [d EXCEPT !.page = [@ EXCEPT !.status = StatusOf(r), !.failure = None]]
    OBVIOUS
  <2>2. /\ e \in Clients /\ e.th = a.th /\ e.page.status = StatusOf(r)
        /\ e.page.busy = c.page.busy /\ (e.page.countdown <=> InProgress(r.state) \/ r.cooling)
    BY <1>4, <1>5, <2>1, StatusFacts, ZenonT(60) DEF Clients, Page
  <2>3. Running(e, t, b, x) /\ e.page.status # "submitting"
    BY <1>4, <2>2, StatusFacts DEF Running, Leads
  <2>4. HasRun(Return(e), t, b, q, x)
    BY <2>3, ReturnRuns
  <2>. QED  BY <1>1, <1>2, <1>6, <2>1, <2>4 DEF RecoveredSpin
<1>7. CASE Completed(r.state)
  <2>1. PICK e : e = [d EXCEPT !.page.outcome = r.state.id]
    OBVIOUS
  <2>2. r.state.id \in MaybeSession /\ r.state.score \in BOOLEAN
    BY <1>3, <1>7 DEF Completed, State, MaybeSession
  <2>3. /\ e \in Clients /\ e.th = a.th /\ e.page.status = c.page.status
        /\ e.page.busy = c.page.busy /\ e.page.countdown = a.page.countdown
    BY <1>4, <1>5, <2>1, <2>2 DEF Clients, Page
  <2>4. Running(e, t, b, x) /\ MayEnd(e, t, q)
    BY <1>4, <2>3 DEF Running, Leads, MayEnd
  <2>5. HasRun(AfterScore(e), t, b, q, x) /\ HasRun(SubmitFinalScore(e), t, b, q, x)
    BY <2>4, AfterScoreRuns, SubmitFinalScoreRuns
  <2>. QED  BY <1>1, <1>2, <1>7, <2>1, <2>2, <2>5 DEF RecoveredSpin
<1>. QED  BY <1>6, <1>7

LEMMA RecoveredCardRuns ==
  ASSUME NEW t \in Threads, NEW b \in BOOLEAN, NEW q \in BOOLEAN, NEW x \in BOOLEAN,
         NEW c \in Clients, c.th.fn \in IF t = "main" THEN Functions ELSE {"countdown"},
         c.page.busy <=> t = "main" \/ b, ~x => ~c.th.stale,
         NEW r \in Reply, game = "card"
  PROVE  HasRun(RecoveredCard(c, r), t, b, q, x)
<1>1. PICK a : a = Adopt(c, r)
  OBVIOUS
<1>2. PICK choice : choice = ResumedChoice(r.state, c.journal)
  OBVIOUS
<1>3. PICK outcome : outcome = IF Completed(r.state) THEN r.state.id ELSE None
  OBVIOUS
<1>4. PICK pending : pending = IF r.state = None \/ InProgress(r.state) THEN c.journal.pending ELSE None
  OBVIOUS
<1>5. PICK pg : pg = [a.page EXCEPT !.choice = choice, !.status = StatusOf(r), !.outcome = outcome,
                                    !.failure = None]
  OBVIOUS
<1>6. PICK e : e = [a EXCEPT !.page = pg, !.journal.pending = pending]
  OBVIOUS
<1>7. r.state # None => r.state \in State
  BY DEF Reply
<1>8. /\ choice \in MaybeAnswer
      /\ choice # None => r.state = None \/ InProgress(r.state)
  BY <1>2 DEF ResumedChoice, InProgress, MaybeAnswer, Clients, Journal
<1>9. outcome \in MaybeSession
  BY <1>3, <1>7 DEF Completed, State, MaybeSession
<1>10. /\ a \in Clients /\ a.th.fn = c.th.fn /\ a.th.cooling = r.cooling /\ a.th.stale = c.th.stale
       /\ (a.page.session = None <=> r.state = None)
       /\ (Active(a.page) <=> InProgress(r.state))
       /\ (a.page.countdown <=> InProgress(r.state) \/ r.cooling)
       /\ a.page.busy = c.page.busy
  BY <1>1, AdoptFacts
<1>11. /\ pg \in Page /\ pg.session = a.page.session /\ pg.countdown = a.page.countdown
       /\ pg.choice = choice /\ pg.status = StatusOf(r) /\ pg.busy = c.page.busy
  BY <1>5, <1>8, <1>9, <1>10, StatusFacts DEF Clients, Page
<1>12. pending \in Request \cup {None, "create_session", "submit_score"}
  BY <1>4 DEF Clients, Journal
<1>13. e \in Clients /\ e.page = pg /\ e.th = a.th
  BY <1>6, <1>10, <1>11, <1>12 DEF Clients, Journal
<1>14. Active(pg) <=> Active(a.page)
  BY <1>11 DEF Active
<1>15. Leads(pg, x)
  BY <1>8, <1>10, <1>11, <1>14, StatusFacts DEF Leads
<1>16. Running(e, t, b, x) /\ e.page.status # "submitting"
  BY <1>10, <1>11, <1>13, <1>15, StatusFacts DEF Running
<1>17. RecoveredCard(c, r) = Conclude(e, r.state)
  BY <1>1, <1>2, <1>3, <1>4, <1>5, <1>6 DEF RecoveredCard
<1>. QED  BY <1>16, <1>17, ConcludeRuns

\* The skill check shows the numbers of an open session, or its digits again.
LEMMA RecoveredSkillFacts ==
  ASSUME NEW c \in Clients, NEW r \in Reply
  PROVE  \E e : /\ RecoveredSkill(c, r) = Conclude(e, r.state)
                /\ e \in Clients /\ e.th.fn = c.th.fn /\ e.th.cooling = r.cooling
                /\ e.th.stale = c.th.stale /\ e.page.busy = c.page.busy
                /\ e.page.status = StatusOf(r)
                /\ (Active(e.page) <=> InProgress(r.state))
                /\ (e.page.countdown <=> InProgress(r.state) \/ r.cooling)
                /\ (InProgress(r.state) => e.page.preview \/ e.page.phase = "input")
<1>1. PICK a : a = Adopt(c, r)
  OBVIOUS
<1>2. PICK again : again = (InProgress(r.state) /\ c.journal.pending = "play" /\ c.journal.actions # None)
  OBVIOUS
<1>3a. PICK actions : actions = IF again THEN c.journal.actions ELSE c.page.actions
  OBVIOUS
<1>3b. PICK preview : preview = (InProgress(r.state) /\ ~again)
  OBVIOUS
<1>3. PICK outcome : outcome = IF Completed(r.state) THEN r.state.id ELSE None
  OBVIOUS
<1>4. PICK phase : phase = CASE again -> "input"
                             [] InProgress(r.state) /\ ~again -> "preview"
                             [] Completed(r.state) -> "result"
                             [] OTHER -> "intro"
  OBVIOUS
<1>5. PICK locked : locked = (again \/ c.page.locked)
  OBVIOUS
<1>6. PICK pg : pg = [a.page EXCEPT !.status = StatusOf(r), !.failure = None,
                                    !.outcome = outcome, !.phase = phase,
                                    !.preview = preview,
                                    !.actions = actions, !.locked = locked]
  OBVIOUS
<1>7. PICK e : e = [a EXCEPT !.page = pg]
  OBVIOUS
<1>8. r.state # None => r.state \in State
  BY DEF Reply
<1>9. InProgress(r.state) \in BOOLEAN /\ again \in BOOLEAN /\ preview \in BOOLEAN
  BY <1>2, <1>3b, <1>8 DEF InProgress, State
<1>10. /\ phase \in {"intro", "preview", "input", "result"}
       /\ again => phase = "input"
  <2>1. CASE InProgress(r.state)
    BY <1>2, <1>4, <1>9, <2>1 DEF InProgress, Completed
  <2>2. CASE ~InProgress(r.state)
    BY <1>2, <1>4, <1>9, <2>2
  <2>. QED  BY <2>1, <2>2
<1>11. outcome \in MaybeSession
  BY <1>3, <1>8 DEF Completed, State, MaybeSession
<1>12. /\ a \in Clients /\ a.th.fn = c.th.fn /\ a.th.cooling = r.cooling /\ a.th.stale = c.th.stale
       /\ (Active(a.page) <=> InProgress(r.state))
       /\ (a.page.countdown <=> InProgress(r.state) \/ r.cooling)
       /\ a.page.busy = c.page.busy
  BY <1>1, AdoptFacts
<1>13. /\ pg \in Page /\ pg.session = a.page.session /\ pg.countdown = a.page.countdown
       /\ pg.phase = phase /\ pg.preview = preview /\ pg.status = StatusOf(r)
       /\ pg.busy = c.page.busy
  <2>1. actions \in MaybeAnswer /\ locked \in BOOLEAN
    BY <1>3a, <1>5, <1>9 DEF Clients, Journal, Page
  <2>3. StatusOf(r) \in {"cooldown", "ready", "result", "expired"}
    BY StatusFacts
  <2>4. a.page \in Page
    BY <1>12 DEF Clients
  <2>5. pg \in Page
    BY <1>6, <1>9, <1>10, <1>11, <2>1, <2>3, <2>4, ZenonT(60) DEF Page
  <2>6. /\ pg.session = a.page.session /\ pg.countdown = a.page.countdown
        /\ pg.phase = phase /\ pg.status = StatusOf(r) /\ pg.busy = a.page.busy
    BY <1>6, <2>4 DEF Page
  <2>7. pg.preview = preview
    BY <1>6, <2>4 DEF Page
  <2>. QED  BY <1>12, <2>5, <2>6, <2>7
<1>14. e \in Clients /\ e.page = pg /\ e.th = a.th
  BY <1>7, <1>12, <1>13 DEF Clients
<1>15. Active(pg) <=> InProgress(r.state)
  BY <1>12, <1>13 DEF Active
<1>16. RecoveredSkill(c, r) = Conclude(e, r.state)
  BY <1>1, <1>2, <1>3, <1>3a, <1>3b, <1>4, <1>5, <1>6, <1>7 DEF RecoveredSkill
<1>17. InProgress(r.state) => pg.preview \/ pg.phase = "input"
  BY <1>3b, <1>10, <1>13
<1>. QED  BY <1>12, <1>13, <1>14, <1>15, <1>16, <1>17

LEMMA RecoveredSkillRuns ==
  ASSUME NEW t \in Threads, NEW b \in BOOLEAN, NEW q \in BOOLEAN, NEW x \in BOOLEAN,
         NEW c \in Clients, c.th.fn \in IF t = "main" THEN Functions ELSE {"countdown"},
         c.page.busy <=> t = "main" \/ b, ~x => ~c.th.stale,
         NEW r \in Reply, game = "skill"
  PROVE  HasRun(RecoveredSkill(c, r), t, b, q, x)
<1>1. PICK e : /\ RecoveredSkill(c, r) = Conclude(e, r.state)
               /\ e \in Clients /\ e.th.fn = c.th.fn /\ e.th.cooling = r.cooling
               /\ e.th.stale = c.th.stale /\ e.page.busy = c.page.busy
               /\ e.page.status = StatusOf(r)
               /\ (Active(e.page) <=> InProgress(r.state))
               /\ (e.page.countdown <=> InProgress(r.state) \/ r.cooling)
               /\ (InProgress(r.state) => e.page.preview \/ e.page.phase = "input")
  BY RecoveredSkillFacts
<1>2. Leads(e.page, x)
  BY <1>1, StatusFacts DEF Leads
<1>3. Running(e, t, b, x) /\ e.page.status # "submitting"
  BY <1>1, <1>2, StatusFacts DEF Running
<1>. QED  BY <1>1, <1>3, ConcludeRuns

LEMMA CreatedRuns ==
  ASSUME NEW t \in Threads, NEW b \in BOOLEAN, NEW q \in BOOLEAN, NEW x \in BOOLEAN,
         NEW c, Running(c, t, b, x), NEW s \in Sessions, game \in {"spin", "card", "skill"},
         c.page.status = "submitting" => IF t = "main" THEN c.th.fn = "action" ELSE q
  PROVE  HasRun(Created(c, s), t, b, q, x)
<1>1. PICK known : known = [id |-> s, status |-> "active", proof |-> FALSE]
  OBVIOUS
<1>2. PICK d : d = [c EXCEPT !.page.session = known]
  OBVIOUS
<1>3. known \in Known /\ known # None /\ known.status = "active"
  <2>1. known \in Known /\ known.status = "active"
    BY <1>1 DEF Known
  <2>. QED  BY <2>1, NoneAssumption
<1>4. /\ d \in Clients /\ d.th = c.th /\ d.journal = c.journal
      /\ d.page.session = known /\ d.page.status = c.page.status
      /\ d.page.busy = c.page.busy /\ d.page.countdown = c.page.countdown
  BY <1>2, <1>3 DEF Running, Clients, Page
<1>5. Active(d.page)
  BY <1>3, <1>4 DEF Active
<1>6. CASE game = "spin"
  <2>1. PICK e : e = [d EXCEPT !.journal.pending = "commit"]
    OBVIOUS
  <2>2. e \in Clients /\ e.th = c.th /\ e.page = d.page
    BY <1>4, <2>1 DEF Clients, Journal, Request
  <2>3. Running(e, t, b, x) /\ MayAwait(e, t, "evaluate", q) /\ e.page.session # None
    BY <1>3, <1>4, <1>6, <2>2 DEF Running, Leads, MayAwait
  <2>4. HasRun(Spin(e), t, b, q, x)
    BY <1>6, <2>3, SpinRuns
  <2>. QED  BY <1>1, <1>2, <1>6, <2>1, <2>4 DEF Created
<1>7. CASE game = "card"
  <2>1. PICK e : e = [d EXCEPT !.journal = [@ EXCEPT !.choice = c.th.choice, !.pending = "play"]]
    OBVIOUS
  <2>2. c.th.choice \in MaybeAnswer
    BY DEF Running, Clients, Thread
  <2>3. e \in Clients /\ e.th = c.th /\ e.page = d.page
    BY <1>4, <2>1, <2>2 DEF Clients, Journal, Request
  <2>4. Running(e, t, b, x) /\ MayAwait(e, t, "play", q)
    BY <1>4, <1>5, <1>7, <2>3 DEF Running, Leads, MayAwait
  <2>5. HasRun(Await(e, "play", s, c.th.choice), t, b, q, x)
    BY <2>2, <2>4, AwaitRuns DEF Request, MaybeSession
  <2>. QED  BY <1>1, <1>2, <1>7, <2>1, <2>5 DEF Created
<1>8. CASE game = "skill"
  <2>1. PICK pg : pg = [d.page EXCEPT !.actions = None, !.status = "ready", !.failure = None,
                                      !.phase = "preview", !.preview = TRUE]
    OBVIOUS
  <2>2. PICK e : e = [d EXCEPT !.journal.pending = "play", !.page = pg]
    OBVIOUS
  <2>3. d.page \in Page /\ d.journal \in Journal
    BY <1>4 DEF Clients
  <2>4. /\ pg \in Page /\ pg.status = "ready" /\ pg.preview = TRUE
        /\ pg.busy = c.page.busy /\ pg.countdown = c.page.countdown
    BY <1>4, <2>1, <2>3 DEF Page, MaybeAnswer
  <2>5. e \in Clients /\ e.th = c.th /\ e.page = pg
    BY <1>4, <2>2, <2>3, <2>4 DEF Clients, Journal, Request
  <2>6. Running(e, t, b, x)
    BY <1>8, <2>4, <2>5 DEF Running, Leads
  <2>7. HasRun(Return(e), t, b, q, x)
    BY <2>4, <2>5, <2>6, ReturnRuns
  <2>. QED  BY <1>1, <1>2, <1>8, <2>1, <2>2, <2>7 DEF Created
<1>. QED  BY <1>6, <1>7, <1>8

LEMMA PlayedRuns ==
  ASSUME NEW t \in Threads, NEW b \in BOOLEAN, NEW q \in BOOLEAN, NEW x \in BOOLEAN,
         NEW c, Running(c, t, b, x), NEW s \in MaybeSession, game \in {"spin", "card", "skill"},
         c.page.status = "submitting" => IF t = "main" THEN c.th.fn = "action" ELSE q
  PROVE  HasRun(Played(c, s), t, b, q, x)
<1>1. PICK d : d = [c EXCEPT !.page.outcome = s, !.journal.pending = "submit_score"]
  OBVIOUS
<1>2. /\ d \in Clients /\ d.th = c.th /\ d.page \in Page
      /\ d.page.session = c.page.session /\ d.page.status = c.page.status
      /\ d.page.busy = c.page.busy /\ d.page.countdown = c.page.countdown
      /\ d.page.choice = c.page.choice /\ d.page.preview = c.page.preview
      /\ d.page.phase = c.page.phase
  BY <1>1 DEF Running, Clients, Page, Journal
<1>3. CASE game = "spin"
  <2>1. Running(d, t, b, x) /\ MayEnd(d, t, q)
    BY <1>2, <1>3 DEF Running, Leads, MayEnd
  <2>. QED  BY <1>1, <1>3, <2>1, SubmitFinalScoreRuns DEF Played
<1>4. CASE game = "card"
  <2>1. PICK pg : pg = [d.page EXCEPT !.choice = None, !.status = "result", !.failure = None]
    OBVIOUS
  <2>2. PICK e : e = [d EXCEPT !.page = pg]
    OBVIOUS
  <2>3. /\ pg \in Page /\ pg.status = "result" /\ pg.choice = None
        /\ pg.busy = c.page.busy /\ pg.countdown = c.page.countdown
    BY <1>2, <2>1 DEF Page, MaybeAnswer
  <2>4. e \in Clients /\ e.th = c.th /\ e.page = pg
    BY <1>2, <2>2, <2>3 DEF Clients
  <2>5. Running(e, t, b, x) /\ MayAwait(e, t, "reward", q)
    BY <1>4, <2>3, <2>4 DEF Running, Leads, MayAwait
  <2>6. HasRun(Await(e, "reward", None, None), t, b, q, x)
    BY <2>5, AwaitRuns DEF Reads, AsksState, MaybeSession, MaybeAnswer
  <2>. QED  BY <1>1, <1>4, <2>1, <2>2, <2>6 DEF Played
<1>5. CASE game = "skill"
  <2>1. PICK pg : pg = [d.page EXCEPT !.phase = "result", !.status = "result",
                                      !.failure = None]
    OBVIOUS
  <2>2. PICK e : e = [d EXCEPT !.page = pg]
    OBVIOUS
  <2>3. /\ pg \in Page /\ pg.status = "result"
        /\ pg.busy = c.page.busy /\ pg.countdown = c.page.countdown
    BY <1>2, <2>1 DEF Page
  <2>4. e \in Clients /\ e.th = c.th /\ e.page = pg
    BY <1>2, <2>2, <2>3 DEF Clients
  <2>5. Running(e, t, b, x) /\ MayAwait(e, t, "reward", q)
    BY <1>5, <2>3, <2>4 DEF Running, Leads, MayAwait
  <2>6. HasRun(Await(e, "reward", None, None), t, b, q, x)
    BY <2>5, AwaitRuns DEF Reads, AsksState, MaybeSession, MaybeAnswer
  <2>. QED  BY <1>1, <1>5, <2>1, <2>2, <2>6 DEF Played
<1>. QED  BY <1>3, <1>4, <1>5

LEMMA SubmittedRuns ==
  ASSUME NEW t \in Threads, NEW b \in BOOLEAN, NEW q \in BOOLEAN, NEW x \in BOOLEAN,
         NEW c, Running(c, t, b, x), MayEnd(c, t, q), NEW r \in Reply
  PROVE  HasRun(Submitted(c, r), t, b, q, x)
<1>1. r.id \in MaybeSession /\ r.code \in Code
  BY DEF Reply
<1>2. HasRun(Scored(c, r.id), t, b, q, x)
  BY <1>1, ScoredRuns
<1>3. HasRun(Throw(c, r.code), t, b, q, x)
  BY ThrowRuns DEF Running, MayEnd
<1>4. PICK e : e = [c EXCEPT !.th.error = r.code]
  OBVIOUS
<1>5. e \in Clients /\ e.page = c.page /\ e.th.fn = c.th.fn /\ e.th.cooling = c.th.cooling
      /\ e.th.stale = c.th.stale
  BY <1>1, <1>4 DEF Running, Clients, Thread
<1>6. Running(e, t, b, x) /\ MayAwait(e, t, "rescore", q)
  BY <1>5 DEF Running, MayAwait, MayEnd
<1>7. HasRun(Await(e, "rescore", None, None), t, b, q, x)
  BY <1>6, AwaitRuns DEF Reads, AsksState, MaybeSession, MaybeAnswer
<1>. QED  BY <1>2, <1>3, <1>4, <1>7 DEF Submitted

LEMMA RereadRuns ==
  ASSUME NEW t \in Threads, NEW b \in BOOLEAN, NEW q \in BOOLEAN, NEW x \in BOOLEAN,
         NEW c, Running(c, t, b, x), MayEnd(c, t, q), NEW r \in Reply
  PROVE  HasRun(Reread(c, r), t, b, q, x)
<1>1. PICK code : code = IF r.code = "ok" THEN c.th.error ELSE r.code
  OBVIOUS
<1>2. HasRun(Throw(c, code), t, b, q, x)
  BY ThrowRuns DEF Running, MayEnd
<1>3. r.state # None => r.state.id \in MaybeSession
  BY DEF Reply, State, MaybeSession
<1>4. r.state # None => HasRun(Scored(c, r.state.id), t, b, q, x)
  BY <1>3, ScoredRuns
<1>. QED  BY <1>1, <1>2, <1>4 DEF Reread

\* The answer r is read, whatever was asked.
LEMMA ResumeRuns ==
  ASSUME NEW t \in Threads, NEW b \in BOOLEAN, NEW q \in BOOLEAN, NEW x \in BOOLEAN,
         NEW c, HasRun(c, t, b, q, x), game \in {"spin", "card", "skill"},
         c.th.at # "idle", c.th.reply # None
  PROVE  HasRun(Resume(c, c.th.reply), t, b, q, x)
<1>1. PICK r : r = c.th.reply
  OBVIOUS
<1>2. r \in Reply /\ r.id \in MaybeSession
  BY <1>1 DEF HasRun, Clients, Thread, Reply
<1>3. /\ c \in Clients /\ c.th.fn # "idle" /\ (c.page.busy <=> t = "main" \/ b)
      /\ c.th.fn \in IF t = "main" THEN Functions ELSE {"countdown"}
  <2>1. c.th.fn # "idle"
    BY DEF HasRun, AtWork, Idle
  <2>. QED  BY <2>1 DEF HasRun, AtWork
<1>4. c.page.status = "submitting" => IF t = "main" THEN c.th.fn = "action" ELSE q
  BY DEF HasRun, Submitting
<1>5. Leads(c.page, x) /\ (~x => ~c.th.stale)
  BY DEF HasRun, Counts
<1>6. HasRun(Throw(c, r.code), t, b, q, x)
  BY <1>3, <1>4, <1>5, ThrowRuns
<1>7. CASE c.th.at = "recover"
  <2>1. c.page.status = "submitting" => t # "main" /\ q
    BY <1>4, <1>7 DEF HasRun, AtWork
  <2>2. ~x => c.page.status = "recovering"
    BY <1>7 DEF HasRun, Counts
  <2>3. CASE r.code = "ok" /\ c.th.stale
    <3>1. Running(c, t, b, x)
      BY <1>3, <1>5, <2>3 DEF Running
    <3>2. HasRun(Return(c), t, b, q, x)
      BY <2>1, <3>1, ReturnRuns
    <3>. QED  BY <1>1, <1>7, <2>3, <3>2 DEF Resume
  <2>4. CASE r.code = "ok" /\ ~c.th.stale
    <3>1. game = "spin" => HasRun(RecoveredSpin(c, r), t, b, q, x)
      BY <1>2, <1>3, <1>5, <2>1, <2>2, RecoveredSpinRuns
    <3>2. game = "card" => HasRun(RecoveredCard(c, r), t, b, q, x)
      BY <1>2, <1>3, <1>5, RecoveredCardRuns
    <3>3. game = "skill" => HasRun(RecoveredSkill(c, r), t, b, q, x)
      BY <1>2, <1>3, <1>5, RecoveredSkillRuns
    <3>4. HasRun(Recovered(c, r), t, b, q, x)
      BY <3>1, <3>2, <3>3 DEF Recovered
    <3>. QED  BY <1>1, <1>7, <2>4, <3>4 DEF Resume
  <2>5. CASE r.code # "ok"
    BY <1>1, <1>6, <1>7, <2>5 DEF Resume
  <2>. QED  BY <2>3, <2>4, <2>5
<1>8. CASE c.th.at # "recover"
  <2>1. Running(c, t, b, x)
    BY <1>3, <1>5, <1>8 DEF HasRun, Counts, Running
  <2>2. c.th.at \in {"score", "rescore", "reward"} => MayEnd(c, t, q)
    BY DEF HasRun, Submitting, MayEnd
  <2>3. CASE c.th.at = "score"
    BY <1>1, <1>2, <2>1, <2>2, <2>3, SubmittedRuns DEF Resume
  <2>4. CASE c.th.at = "rescore"
    BY <1>1, <1>2, <2>1, <2>2, <2>4, RereadRuns DEF Resume
  <2>5. CASE c.th.at \notin {"score", "rescore"} /\ r.code # "ok"
    BY <1>1, <1>6, <2>5 DEF Resume
  <2>6. CASE c.th.at = "create" /\ r.code = "ok"
    <3>1. r.id \in Sessions
      BY <1>1, <1>2, <2>6 DEF HasRun, AtWork, MaybeSession
    <3>. QED  BY <1>1, <1>4, <2>1, <2>6, <3>1, CreatedRuns DEF Resume
  <2>7. CASE c.th.at = "commit" /\ r.code = "ok"
    <3>1. PICK e : e = [c EXCEPT !.journal.commitment = r.id]
      OBVIOUS
    <3>2. e \in Clients /\ e.page = c.page /\ e.th = c.th
      BY <1>2, <1>3, <3>1 DEF Clients, Journal
    <3>3. Running(e, t, b, x) /\ MayAwait(e, t, "evaluate", q)
      BY <1>4, <2>1, <2>7, <3>2 DEF HasRun, AtWork, Running, MayAwait
    <3>4. HasRun(Evaluate(e, r.id), t, b, q, x)
      BY <1>2, <3>3, EvaluateRuns
    <3>. QED  BY <1>1, <2>7, <3>1, <3>4 DEF Resume
  <2>8. CASE c.th.at \in {"play", "evaluate"} /\ r.code = "ok"
    BY <1>1, <1>2, <1>4, <2>1, <2>8, PlayedRuns DEF Resume
  <2>9. CASE c.th.at = "reward" /\ r.code = "ok"
    BY <1>1, <2>1, <2>2, <2>9, SubmitFinalScoreRuns DEF Resume
  <2>10. CASE c.th.at = "proof" /\ r.code = "ok"
    <3>1. PICK e : e = [c EXCEPT !.journal.pending = None]
      OBVIOUS
    <3>2. e \in Clients /\ e.page = c.page /\ e.th = c.th
      BY <1>3, <3>1 DEF Clients, Journal
    <3>3. Running(e, t, b, x) /\ game = "spin"
      BY <2>1, <2>10, <3>2 DEF HasRun, AtWork, Running
    <3>4. HasRun(Verified(e), t, b, q, x)
      BY <3>3, VerifiedRuns
    <3>. QED  BY <1>1, <2>10, <3>1, <3>4 DEF Resume
  <2>. QED
    BY <1>3, <1>8, <2>3, <2>4, <2>5, <2>6, <2>7, <2>8, <2>9, <2>10
       DEF Clients, Thread, Request, Reads, AsksState
<1>. QED  BY <1>7, <1>8

------------------------------------------------------------------------------
(***************************************************************************)
(* The server: every call leaves well-formed sessions, of which only the   *)
(* latest may be under way.                                                *)
(***************************************************************************)
WellFormed(S, cools) ==
  /\ S \in Seq(SessionRecord) /\ Len(S) <= MaxSessions
  /\ cools \in BOOLEAN
  /\ \A s \in DOMAIN S : s < Len(S) => S[s].status \in {"completed", "expired"}
  /\ ~cools => Len(S) < MaxSessions

LEMMA ServerWellFormed == WellFormed(sessions, cooling) <=> ServerTypeOK /\ (~cooling => Latest < MaxSessions)
BY DEF WellFormed, ServerTypeOK, Latest

\* One session changes; only the latest may be left open.
LEMMA ChangedSession ==
  ASSUME NEW S, NEW cools, WellFormed(S, cools), NEW s, NEW v,
         s \in DOMAIN S => v \in SessionRecord /\ (s < Len(S) => v.status \in {"completed", "expired"})
  PROVE  /\ WellFormed([S EXCEPT ![s] = v], cools)
         /\ Len([S EXCEPT ![s] = v]) = Len(S)
         /\ DOMAIN [S EXCEPT ![s] = v] = DOMAIN S
<1>1. PICK T : T = [S EXCEPT ![s] = v]
  OBVIOUS
<1>2. S \in Seq(SessionRecord)
  BY DEF WellFormed
<1>3. /\ Len(S) \in Nat /\ DOMAIN S = 1 .. Len(S)
      /\ S = [i \in 1 .. Len(S) |-> S[i]] /\ \A i \in 1 .. Len(S) : S[i] \in SessionRecord
  BY <1>2
<1>4. T = [i \in 1 .. Len(S) |-> IF i = s THEN v ELSE S[i]]
  BY <1>1, <1>3
<1>5. T \in Seq(SessionRecord) /\ Len(T) = Len(S)
  BY <1>3, <1>4
<1>6. \A i \in 1 .. Len(S) : i < Len(S) => T[i].status \in {"completed", "expired"}
  BY <1>3, <1>4 DEF WellFormed
<1>. QED  BY <1>1, <1>3, <1>4, <1>5, <1>6 DEF WellFormed

LEMMA FinalizedFacts ==
  ASSUME WellFormed(sessions, cooling), NEW s
  PROVE  /\ WellFormed(Finalized(s), cooling) /\ Len(Finalized(s)) = Latest
         /\ DOMAIN Finalized(s) = DOMAIN sessions
<1>1. PICK v : v = [sessions[s] EXCEPT !.status = "expired"]
  OBVIOUS
<1>2. s \in DOMAIN sessions => v \in SessionRecord /\ v.status = "expired"
  <2>1. s \in DOMAIN sessions => sessions[s] \in SessionRecord
    BY DEF WellFormed
  <2>. QED  BY <1>1, <2>1 DEF SessionRecord
<1>3. PICK T : T = [sessions EXCEPT ![s] = v]
  OBVIOUS
<1>4. WellFormed(T, cooling) /\ Len(T) = Latest /\ DOMAIN T = DOMAIN sessions
  BY <1>2, <1>3, ChangedSession DEF Latest
<1>5. Finalized(s) = T \/ Finalized(s) = sessions
  BY <1>1, <1>3 DEF Finalized
<1>. QED  BY <1>4, <1>5 DEF Latest

\* What a call answers with: e is one of Refuse, Accept and Elapsed.
Result(e, at) ==
  /\ WellFormed(e.sessions, e.cooling)
  /\ e.code \in Code /\ e.id \in MaybeSession /\ e.cooling \in BOOLEAN
  /\ at = "create" /\ e.code = "ok" => e.id # None
  /\ at \in AsksState => Recoverable(e.sessions) \in State \cup {None}

LEMMA RefuseResult ==
  ASSUME WellFormed(sessions, cooling), NEW code \in Code, NEW at, at \notin AsksState,
         at = "create" => code # "ok"
  PROVE  Result(Refuse(code), at)
BY DEF Result, Refuse, MaybeSession, WellFormed

LEMMA ElapsedResult ==
  ASSUME WellFormed(sessions, cooling), NEW s, NEW at, at \notin AsksState
  PROVE  Result(Elapsed(s), at)
<1>1. /\ Elapsed(s).sessions = Finalized(s) /\ Elapsed(s).cooling = cooling
      /\ Elapsed(s).code = "session_expired" /\ Elapsed(s).id = None
  BY DEF Elapsed, Refuse
<1>. QED  BY <1>1, FinalizedFacts DEF Result, Code, MaybeSession, WellFormed

LEMMA AcceptResult ==
  ASSUME NEW S, WellFormed(S, cooling), NEW s \in MaybeSession, NEW at, at \notin AsksState,
         at = "create" => s # None
  PROVE  Result(Accept(S, s), at)
BY DEF Result, Accept, Code, WellFormed

LEMMA GetStateResult ==
  ASSUME WellFormed(sessions, cooling), NEW at \in AsksState
  PROVE  Result(GetState, at)
<1>1. PICK S : S = Finalized(Latest)
  OBVIOUS
<1>2. WellFormed(S, cooling) /\ Len(S) = Latest /\ DOMAIN S = DOMAIN sessions
  BY <1>1, FinalizedFacts
<1>3. Recoverable(S) \in State \cup {None}
  <2>1. CASE S = <<>>
    BY <2>1 DEF Recoverable
  <2>2. CASE S # <<>>
    <3>1. Len(S) \in 1 .. MaxSessions /\ S[Len(S)] \in SessionRecord
      BY <1>2, <2>2, NoneIsNot DEF WellFormed
    <3>2. S[Len(S)].status # "due"
      <4>1. Latest \in DOMAIN sessions
        BY <1>2, <3>1 DEF WellFormed
      <4>2. S[Latest].status # "due"
        BY <1>1, <4>1 DEF Finalized, WellFormed, SessionRecord
      <4>. QED  BY <1>2, <4>2
    <3>. QED  BY <2>2, <3>1, <3>2 DEF Recoverable, State, SessionRecord, Sessions
  <2>. QED  BY <2>1, <2>2
<1>4. GetState.sessions = S /\ GetState.cooling = cooling /\ GetState.code = "ok" /\ GetState.id = None
  BY <1>1 DEF GetState, Accept
<1>. QED  BY <1>2, <1>3, <1>4 DEF Result, Code, MaybeSession, WellFormed, AsksState

LEMMA CreateSessionResult ==
  ASSUME WellFormed(sessions, cooling)
  PROVE  Result(CreateSession, "create")
<1>1. CASE sessions # <<>> /\ sessions[Latest].status = "active"
  BY <1>1, RefuseResult DEF CreateSession, Code, AsksState
<1>2. CASE ~(sessions # <<>> /\ sessions[Latest].status = "active") /\ cooling
  BY <1>2, RefuseResult DEF CreateSession, Code, AsksState
<1>3. CASE ~(sessions # <<>> /\ sessions[Latest].status = "active") /\ ~cooling
  <2>1. PICK F : F = Finalized(Latest)
    OBVIOUS
  <2>2. PICK S : S = Append(F, NewSession)
    OBVIOUS
  <2>3. WellFormed(F, cooling) /\ Len(F) = Latest /\ DOMAIN F = DOMAIN sessions
    BY <2>1, FinalizedFacts
  <2>4. NewSession \in SessionRecord
    BY DEF NewSession, SessionRecord
  <2>5. /\ S \in Seq(SessionRecord) /\ Len(S) = Latest + 1 /\ Latest \in Nat
        /\ \A i \in 1 .. Latest : S[i] = F[i]
    BY <2>2, <2>3, <2>4 DEF WellFormed
  <2>6. Latest < MaxSessions
    BY <1>3 DEF WellFormed, Latest
  <2>7. \A i \in 1 .. Latest : F[i].status \in {"completed", "expired"}
    <3>1. CASE Latest = 0
      BY <3>1
    <3>2. CASE Latest # 0
      <4>1. sessions # <<>> /\ Latest \in DOMAIN sessions
        BY <2>5, <3>2 DEF Latest, WellFormed
      <4>2. sessions[Latest] \in SessionRecord /\ sessions[Latest].status # "active"
        BY <1>3, <4>1 DEF WellFormed
      <4>3. F[Latest].status \in {"completed", "expired"}
        BY <2>1, <4>1, <4>2 DEF Finalized, SessionRecord
      <4>. QED  BY <2>3, <2>5, <4>3 DEF WellFormed
    <3>. QED  BY <3>1, <3>2
  <2>8. DOMAIN S = 1 .. Latest + 1
    BY <2>5
  <2>9. WellFormed(S, TRUE)
    BY <2>5, <2>6, <2>7, <2>8, NoneIsNot DEF WellFormed
  <2>10. PICK n : n = Latest + 1
    OBVIOUS
  <2>11. n \in Sessions /\ n # None
    BY <2>5, <2>6, <2>10, NoneIsNot DEF Sessions
  <2>12. CreateSession = [Accept(S, n) EXCEPT !.cooling = TRUE]
    BY <1>3, <2>1, <2>2, <2>10 DEF CreateSession
  <2>13. /\ CreateSession.sessions = S /\ CreateSession.cooling = TRUE
         /\ CreateSession.code = "ok" /\ CreateSession.id = n
    BY <2>12 DEF Accept
  <2>. QED  BY <2>9, <2>11, <2>13 DEF Result, Code, MaybeSession, AsksState
<1>. QED  BY <1>1, <1>2, <1>3

LEMMA CommitFairnessResult ==
  ASSUME WellFormed(sessions, cooling), NEW s \in MaybeSession
  PROVE  Result(CommitFairness(s), "commit")
<1>1. PICK v : v = [sessions[s] EXCEPT !.proof = TRUE]
  OBVIOUS
<1>2. PICK S : S = [sessions EXCEPT ![s] = v]
  OBVIOUS
<1>3. s \in DOMAIN sessions => v \in SessionRecord /\ v.status = sessions[s].status
  <2>1. s \in DOMAIN sessions => sessions[s] \in SessionRecord
    BY DEF WellFormed
  <2>. QED  BY <1>1, <2>1 DEF SessionRecord
<1>4. WellFormed(S, cooling)
  <2>1. s \in DOMAIN sessions
          => v \in SessionRecord /\ (s < Len(sessions) => v.status \in {"completed", "expired"})
    BY <1>3 DEF WellFormed
  <2>. QED  BY <1>2, <2>1, ChangedSession
<1>5. Result(Accept(S, s), "commit") /\ Result(Elapsed(s), "commit")
  BY <1>4, AcceptResult, ElapsedResult DEF AsksState
<1>6. Result(Refuse("invalid_transition"), "commit")
  BY RefuseResult DEF Code, AsksState
<1>. QED  BY <1>1, <1>2, <1>5, <1>6 DEF CommitFairness

LEMMA PlaySessionResult ==
  ASSUME WellFormed(sessions, cooling), NEW s \in MaybeSession, NEW a \in MaybeAnswer,
         NEW replays, NEW at \in {"play", "evaluate"}
  PROVE  Result(PlaySession(s, a, replays), at)
<1>1. PICK v : v = [sessions[s] EXCEPT !.status = "completed", !.answer = a]
  OBVIOUS
<1>2. PICK S : S = [sessions EXCEPT ![s] = v]
  OBVIOUS
<1>3. s \in DOMAIN sessions => v \in SessionRecord /\ v.status = "completed"
  <2>1. s \in DOMAIN sessions => sessions[s] \in SessionRecord
    BY DEF WellFormed
  <2>. QED  BY <1>1, <2>1 DEF SessionRecord, MaybeAnswer
<1>4. WellFormed(S, cooling)
  BY <1>2, <1>3, ChangedSession
<1>5. S = [sessions EXCEPT ![s].status = "completed", ![s].answer = a]
  BY <1>1, <1>2 DEF WellFormed
<1>6. Result(Accept(S, s), at) /\ Result(Accept(sessions, s), at) /\ Result(Elapsed(s), at)
  BY <1>4, AcceptResult, ElapsedResult DEF AsksState
<1>7. Result(Refuse("invalid_transition"), at) /\ Result(Refuse("idempotency_conflict"), at)
  BY RefuseResult DEF Code, AsksState
<1>. QED  BY <1>5, <1>6, <1>7 DEF PlaySession

LEMMA SubmitScoreResult ==
  ASSUME WellFormed(sessions, cooling), NEW s \in MaybeSession
  PROVE  Result(SubmitScore(s), "score")
<1>1. PICK v : v = [sessions[s] EXCEPT !.score = "recorded"]
  OBVIOUS
<1>2. PICK S : S = [sessions EXCEPT ![s] = v]
  OBVIOUS
<1>3. s \in DOMAIN sessions => v \in SessionRecord /\ v.status = sessions[s].status
  <2>1. s \in DOMAIN sessions => sessions[s] \in SessionRecord
    BY DEF WellFormed
  <2>. QED  BY <1>1, <2>1 DEF SessionRecord
<1>4. WellFormed(S, cooling)
  <2>1. s \in DOMAIN sessions
          => v \in SessionRecord /\ (s < Len(sessions) => v.status \in {"completed", "expired"})
    BY <1>3 DEF WellFormed
  <2>. QED  BY <1>2, <2>1, ChangedSession
<1>5. Result(Accept(S, s), "score")
  BY <1>4, AcceptResult DEF AsksState
<1>6. Result(Refuse("invalid_transition"), "score") /\ Result(Refuse("leaderboard_period_closed"), "score")
  BY RefuseResult DEF Code, AsksState
<1>. QED  BY <1>1, <1>2, <1>5, <1>6 DEF SubmitScore

LEMMA EffectResult ==
  ASSUME WellFormed(sessions, cooling), NEW at \in Request \cup Reads,
         NEW s \in MaybeSession, NEW a \in MaybeAnswer
  PROVE  Result(Effect(at, s, a), at)
<1>1. CASE at \in AsksState
  BY <1>1, GetStateResult DEF Effect, AsksState
<1>2. CASE at = "create"
  BY <1>2, CreateSessionResult DEF Effect, AsksState
<1>3. CASE at = "commit"
  BY <1>3, CommitFairnessResult DEF Effect, AsksState
<1>4. CASE at \in {"evaluate", "play"}
  BY <1>4, PlaySessionResult DEF Effect, AsksState
<1>5. CASE at = "score"
  BY <1>5, SubmitScoreResult DEF Effect, AsksState
<1>6. CASE at = "proof"
  BY <1>6, AcceptResult DEF Effect, AsksState
<1>. QED  BY <1>1, <1>2, <1>3, <1>4, <1>5, <1>6 DEF Request, Reads

------------------------------------------------------------------------------
(***************************************************************************)
(* The steps keep PageInv.                                                 *)
(***************************************************************************)
LEMMA ThreadFacts ==
  ASSUME PageInv, NEW t \in Threads
  PROVE  /\ thread[t] \in Thread /\ AtWork(t, thread[t])
         /\ (thread[t].fn = "idle" <=> thread[t].at = "idle")
         /\ (thread[t].fn = "idle" => thread[t] = Idle)
         /\ DOMAIN thread = Threads
BY DEF PageInv, Types, AtWork, Idle

\* What a thread meets when it goes on, or starts.
LEMMA ClientRuns ==
  ASSUME PageInv, NEW t \in Threads, NEW seed \in MaybeAnswer, NEW x \in BOOLEAN, crossed => x
  PROVE  /\ Client(t, seed) \in Clients
         /\ HasRun(Client(t, seed), t, page.busy, Submitting(thread["main"]), x)
<1>1. PICK c : c = Client(t, seed)
  OBVIOUS
<1>2. /\ c.page = page /\ c.journal = journal /\ c.th = thread[t] /\ c.seed = seed
      /\ c \in Clients
  BY <1>1, ThreadFacts DEF Client, Clients, PageInv, Types
<1>3. page.busy <=> IF t = "main" THEN thread[t].fn # "idle" ELSE page.busy
  BY DEF PageInv, Types
<1>4. Leads(page, x) /\ Counts(page, thread[t], x)
  BY DEF PageInv, Leads, Counts
<1>. QED  BY <1>1, <1>2, <1>3, <1>4 DEF HasRun, PageInv

\* The other thread while t runs.
LEMMA OtherThread ==
  ASSUME PageInv, NEW t \in Threads, NEW c, Run(t, c), NEW u \in Threads \ {t}
  PROVE  /\ thread'[u] \in Thread /\ thread'[u].fn = thread[u].fn /\ thread'[u].at = thread[u].at
         /\ thread'[u].reply = thread[u].reply /\ thread'[u].session = thread[u].session
         /\ thread'[u].answer = thread[u].answer /\ thread'[u].choice = thread[u].choice
         /\ AtWork(u, thread'[u])
         /\ ~crossed' => thread'[u] = Idle
<1>1. PICK th : th = [thread[u] EXCEPT !.stale = @ \/ (c.cancels /\ thread[u].fn # "idle")]
  OBVIOUS
<1>2. thread'[u] = th
  BY <1>1 DEF Run
<1>3. thread[u] \in Thread
  BY ThreadFacts
<1>4. (thread[u].stale \/ (c.cancels /\ thread[u].fn # "idle")) \in BOOLEAN
  BY <1>3 DEF Thread
<1>5. /\ th \in Thread /\ th.fn = thread[u].fn /\ th.at = thread[u].at
      /\ th.reply = thread[u].reply /\ th.session = thread[u].session
      /\ th.answer = thread[u].answer /\ th.choice = thread[u].choice
  BY <1>1, <1>3, <1>4 DEF Thread
<1>6. thread[u].fn = "idle" => th = Idle
  <2>1. ASSUME thread[u].fn = "idle" PROVE th = Idle
    <3>1. thread[u] = Idle
      BY <2>1, ThreadFacts
    <3>2. Idle.stale = FALSE /\ Idle.fn = "idle"
      BY DEF Idle
    <3>3. PICK v \in BOOLEAN : v = (thread[u].stale \/ (c.cancels /\ thread[u].fn # "idle"))
      BY <1>4
    <3>4. v = FALSE
      BY <3>1, <3>2, <3>3
    <3>5. th = [Idle EXCEPT !.stale = v]
      BY <1>1, <3>1, <3>3
    <3>. QED  BY <3>4, <3>5 DEF Idle
  <2>. QED  BY <2>1
<1>7. AtWork(u, th)
  BY <1>5, <1>6, ThreadFacts DEF AtWork
<1>8. ~crossed' => thread[u].fn = "idle"
  BY DEF Run
<1>. QED  BY <1>2, <1>5, <1>6, <1>7, <1>8

LEMMA RunInv ==
  ASSUME PageInv, NEW t \in Threads, NEW c, Run(t, c), UNCHANGED <<serverVars, late, disturbances>>,
         HasRun(c, t, page.busy, Submitting(thread["main"]), crossed')
  PROVE  PageInv'
<1>1. /\ page' = c.page /\ journal' = c.journal /\ game' = game
      /\ thread'[t] = c.th /\ DOMAIN thread' = Threads
  BY DEF Run
<1>2. c.page \in Page /\ c.journal \in Journal /\ c.th \in Thread
  BY DEF HasRun, Clients
<1>3. \A u \in Threads : u # t => thread'[u] \in Thread /\ AtWork(u, thread'[u])
                                  /\ (~crossed' => thread'[u] = Idle)
  BY OtherThread
<1>4. thread' \in [Threads -> Thread]
  <2>1. thread' = [u \in Threads |-> thread'[u]]
    BY DEF Run
  <2>2. \A u \in Threads : thread'[u] \in Thread
    BY <1>1, <1>2, <1>3
  <2>. QED  BY <2>1, <2>2
<1>5. page'.busy = (thread'["main"].fn # "idle")
  <2>1. CASE t = "main"
    BY <1>1, <1>2, <2>1 DEF HasRun, Page
  <2>2. CASE t # "main"
    <3>1. thread'["main"].fn = thread["main"].fn
      BY <2>2, OtherThread DEF Threads
    <3>2. c.page.busy = page.busy
      BY <1>2, <2>2 DEF HasRun, Page, PageInv, Types
    <3>. QED  BY <1>1, <3>1, <3>2 DEF PageInv, Types
  <2>. QED  BY <2>1, <2>2
<1>6. crossed' \in BOOLEAN
  BY DEF Run, PageInv, Types
<1>7. Types'
  BY <1>1, <1>2, <1>4, <1>5, <1>6 DEF PageInv, Types, ServerTypeOK, serverVars, Latest
<1>8. \A u \in Threads : (AtWork(u, thread[u]) /\ Counts(page, thread[u], crossed))'
  <2>1. AtWork(t, thread'[t]) /\ Counts(page', thread'[t], crossed')
    BY <1>1 DEF HasRun
  <2>2. \A u \in Threads : u # t => Counts(page', thread'[u], crossed')
    BY <1>3 DEF Counts, Idle
  <2>. QED  BY <1>1, <1>3, <2>1, <2>2 DEF AtWork, Counts
<1>9. (page.status = "submitting" => Submitting(thread["main"]))'
  <2>1. CASE t = "main"
    BY <1>1, <2>1 DEF HasRun, Submitting
  <2>2. CASE t # "main"
    <3>1. thread'["main"].fn = thread["main"].fn /\ thread'["main"].at = thread["main"].at
      BY <2>2, OtherThread DEF Threads
    <3>. QED  BY <1>1, <2>2, <3>1 DEF HasRun, Submitting
  <2>. QED  BY <2>1, <2>2
<1>10. Leads(page, crossed)'
  BY <1>1 DEF HasRun, Leads, Active
<1>11. OneRuns'
  <2>1. PICK u \in Threads : u # t
    BY DEF Threads
  <2>2. ~crossed' => thread'[u].fn = "idle"
    BY <1>3, <2>1, IdleType
  <2>. QED  BY <2>2 DEF OneRuns
<1>. QED  BY <1>7, <1>8, <1>9, <1>10, <1>11 DEF PageInv

LEMMA RunCrosses ==
  ASSUME PageInv, NEW t, NEW c, Run(t, c)
  PROVE  crossed' \in BOOLEAN /\ (crossed => crossed')
BY DEF Run, PageInv, Types

\* A control finds no function of the visitor under way.
LEMMA MainIdle ==
  ASSUME PageInv, ~page.busy
  PROVE  thread["main"] = Idle
BY ThreadFacts DEF PageInv, Types, Threads

LEMMA PressRuns ==
  ASSUME PageInv, ~page.busy, NEW seed \in MaybeAnswer, NEW x \in BOOLEAN
  PROVE  LET c == Press(Client("main", seed)) IN
         /\ c \in Clients /\ c.journal = journal /\ c.seed = seed /\ c.cancels = FALSE
         /\ c.th = [Idle EXCEPT !.fn = "action"]
         /\ c.page.busy = TRUE /\ c.page.status = "submitting"
         /\ c.page.session = page.session /\ c.page.choice = page.choice
         /\ Running(c, "main", page.busy, x)
<1>1. PICK d : d = Client("main", seed)
  OBVIOUS
<1>2. /\ d \in Clients /\ d.page = page /\ d.journal = journal /\ d.seed = seed
      /\ d.cancels = FALSE /\ d.th = Idle
  BY <1>1, MainIdle, IdleType DEF Client, Clients, PageInv, Types
<1>3. PICK pg : pg = [page EXCEPT !.busy = TRUE, !.status = "submitting"]
  OBVIOUS
<1>4. /\ pg \in Page /\ pg.busy = TRUE /\ pg.status = "submitting"
      /\ pg.session = page.session /\ pg.choice = page.choice
  BY <1>3 DEF PageInv, Types, Page
<1>5. PICK th : th = [Idle EXCEPT !.fn = "action"]
  OBVIOUS
<1>6. th \in Thread /\ th.fn = "action" /\ th.stale = FALSE /\ th.cooling = FALSE
  BY <1>5, IdleType DEF Idle, Thread
<1>7. PICK c : c = Press(Client("main", seed))
  OBVIOUS
<1>8. c = [d EXCEPT !.th = th, !.page = pg]
  BY <1>1, <1>2, <1>3, <1>5, <1>7 DEF Press
<1>9. /\ c \in Clients /\ c.journal = journal /\ c.seed = seed /\ c.cancels = FALSE
      /\ c.th = th /\ c.page = pg
  BY <1>2, <1>4, <1>6, <1>8 DEF Clients
<1>10. Running(c, "main", page.busy, x)
  BY <1>4, <1>6, <1>9 DEF Running, Leads, Functions
<1>. QED  BY <1>4, <1>5, <1>7, <1>9, <1>10

LEMMA SpinClickedInv ==
  ASSUME PageInv, NEW seed \in Answers, SpinClicked(seed)
  PROVE  PageInv'
<1>0. PICK p : p = Press(Client("main", seed))
  OBVIOUS
<1>1. PICK c : c = [p EXCEPT !.page.failure = None]
  OBVIOUS
<1>2. PICK x \in BOOLEAN : x = crossed'
  BY RunCrosses DEF SpinClicked, Click
<1>3. seed \in MaybeAnswer /\ ~page.busy /\ game = "spin"
  BY DEF MaybeAnswer, SpinClicked
<1>4. /\ c \in Clients /\ c.th.fn = "action" /\ c.page.session = page.session
      /\ Running(c, "main", page.busy, x)
  <2>1. p.th = [Idle EXCEPT !.fn = "action"] /\ [Idle EXCEPT !.fn = "action"].fn = "action"
    BY <1>0, <1>3, PressRuns DEF Idle
  <2>2. p \in Clients /\ p.page.session = page.session /\ Running(p, "main", page.busy, x)
    BY <1>0, <1>3, PressRuns
  <2>3. /\ c \in Clients /\ c.th = p.th /\ c.page.session = p.page.session
        /\ c.page.busy = p.page.busy /\ c.page.status = p.page.status
        /\ c.page.countdown = p.page.countdown /\ c.page.choice = p.page.choice
        /\ c.page.preview = p.page.preview /\ c.page.phase = p.page.phase
    BY <1>1, <2>2 DEF Clients, Page
  <2>. QED  BY <2>1, <2>2, <2>3 DEF Running, Leads, Active
<1>5. PICK e : e = [c EXCEPT !.cancels = TRUE]
  OBVIOUS
<1>6. e \in Clients /\ e.th = c.th /\ e.page = c.page
  BY <1>4, <1>5 DEF Clients
<1>7. Running(e, "main", page.busy, x)
  BY <1>4, <1>6 DEF Running
<1>8. PICK q \in BOOLEAN : q = Submitting(thread["main"])
  BY ThreadFacts DEF Submitting, Threads
<1>9. MayAwait(c, "main", "evaluate", q) /\ MayAwait(e, "main", "create", q)
  BY <1>3, <1>4, <1>6 DEF MayAwait
<1>10. PICK d : d = IF Active(page) THEN Spin(c) ELSE Create(e)
  OBVIOUS
<1>11. page.busy \in BOOLEAN /\ "main" \in Threads
  BY DEF PageInv, Types, Page, Threads
<1>12. HasRun(d, "main", page.busy, q, x)
  <2>1. Active(page) => HasRun(Spin(c), "main", page.busy, q, x)
    BY <1>3, <1>4, <1>9, <1>11, SpinRuns DEF Active
  <2>2. HasRun(Create(e), "main", page.busy, q, x)
    BY <1>7, <1>9, <1>11, CreateRuns
  <2>. QED  BY <1>10, <2>1, <2>2
<1>13. Run("main", d) /\ UNCHANGED <<serverVars, late, disturbances>>
  BY <1>0, <1>1, <1>5, <1>10 DEF SpinClicked, Click
<1>. QED  BY <1>2, <1>8, <1>11, <1>12, <1>13, RunInv

LEMMA ChooseInv ==
  ASSUME PageInv, NEW v \in Answers, Choose(v)
  PROVE  PageInv'
<1>1. PICK c : c = Client("main", None)
  OBVIOUS
<1>2. PICK x \in BOOLEAN : x = crossed'
  BY RunCrosses DEF Choose, Click
<1>3. None \in MaybeAnswer /\ v \in MaybeAnswer /\ ~page.busy
  BY DEF MaybeAnswer, Choose, CanChoose
<1>4. c \in Clients /\ c.th = Idle
  <2>1. c \in Clients
    BY <1>1, <1>2, <1>3, ClientRuns DEF Threads
  <2>. QED  BY <1>1, <1>3, <2>1, MainIdle DEF Client
<1>5. c.th.cooling = FALSE /\ c.th.stale = FALSE
  BY <1>4 DEF Idle
<1>6. PICK q \in BOOLEAN : q = Submitting(thread["main"])
  BY ThreadFacts DEF Submitting, Threads
<1>7. page.busy \in BOOLEAN /\ "main" \in Threads
  BY DEF PageInv, Types, Page, Threads
<1>8. HasRun(PlayChoice(c, v), "main", page.busy, q, x)
  BY <1>3, <1>4, <1>5, <1>7, PlayChoiceRuns
<1>9. Run("main", PlayChoice(c, v)) /\ UNCHANGED <<serverVars, late, disturbances>>
  BY <1>1 DEF Choose, Click
<1>. QED  BY <1>2, <1>6, <1>7, <1>8, <1>9, RunInv

LEMMA ResumeClickedInv ==
  ASSUME PageInv, ResumeClicked
  PROVE  PageInv'
<1>1. PICK c : c = Client("main", None)
  OBVIOUS
<1>2. PICK x \in BOOLEAN : x = crossed'
  BY RunCrosses DEF ResumeClicked, Click
<1>3. None \in MaybeAnswer /\ ~page.busy /\ page.choice \in MaybeAnswer
  BY DEF MaybeAnswer, ResumeClicked, PageInv, Types, Page
<1>4. c \in Clients /\ c.page = page
  <2>1. c \in Clients
    BY <1>1, <1>2, <1>3, ClientRuns DEF Threads
  <2>. QED  BY <1>1, <2>1 DEF Client
<1>5. PICK e : e = [c EXCEPT !.page.busy = TRUE, !.th.choice = page.choice]
  OBVIOUS
<1>6. e \in Clients /\ e.page.busy = TRUE
  BY <1>3, <1>4, <1>5, ZenonT(60) DEF Clients, Page, Thread
<1>7. PICK q \in BOOLEAN : q = Submitting(thread["main"])
  BY ThreadFacts DEF Submitting, Threads
<1>8. page.busy \in BOOLEAN /\ "main" \in Threads
  BY DEF PageInv, Types, Page, Threads
<1>9. HasRun(Recover(e, "resume"), "main", page.busy, q, x)
  BY <1>6, <1>8, RecoverRuns DEF Functions
<1>10. Run("main", Recover(e, "resume")) /\ UNCHANGED <<serverVars, late, disturbances>>
  BY <1>1, <1>5 DEF ResumeClicked, Click
<1>. QED  BY <1>2, <1>7, <1>8, <1>9, <1>10, RunInv

LEMMA StartInv ==
  ASSUME PageInv, Start
  PROVE  PageInv'
<1>1. PICK c : c = Press(Client("main", None))
  OBVIOUS
<1>2. PICK x \in BOOLEAN : x = crossed'
  BY RunCrosses DEF Start, Click
<1>3. None \in MaybeAnswer /\ ~page.busy /\ game = "skill"
  BY DEF MaybeAnswer, Start, CanStart
<1>4. /\ c \in Clients /\ c.page.busy = TRUE /\ c.page.status = "submitting"
      /\ c.th = [Idle EXCEPT !.fn = "action"] /\ Running(c, "main", page.busy, x)
  BY <1>1, <1>3, PressRuns
<1>5. c.th.fn = "action"
  BY <1>4 DEF Idle
<1>6. PICK e : e = [c EXCEPT !.page.phase = "intro", !.page.locked = FALSE]
  OBVIOUS
<1>7. e \in Clients /\ e.page.busy = TRUE /\ e.page.status = "submitting" /\ e.th = c.th
  BY <1>4, <1>6 DEF Clients, Page
<1>8. PICK q \in BOOLEAN : q = Submitting(thread["main"])
  BY ThreadFacts DEF Submitting, Threads
<1>9. page.busy \in BOOLEAN /\ "main" \in Threads
  BY DEF PageInv, Types, Page, Threads
<1>10. /\ Running(e, "main", page.busy, x)
       /\ MayAwait(e, "main", "create", q)
  <2>1. c.th.stale = FALSE /\ c.th.cooling = FALSE
    BY <1>4 DEF Idle
  <2>. QED  BY <1>5, <1>7, <2>1 DEF Running, Leads, MayAwait, Functions
<1>11. HasRun(Create(e), "main", page.busy, q, x)
  BY <1>9, <1>10, CreateRuns
<1>12. Run("main", Create(e)) /\ UNCHANGED <<serverVars, late, disturbances>>
  BY <1>1, <1>6 DEF Start, Click
<1>. QED  BY <1>2, <1>8, <1>9, <1>11, <1>12, RunInv

LEMMA SubmitInv ==
  ASSUME PageInv, Submit
  PROVE  PageInv'
<1>1. PICK c : c = Press(Client("main", None))
  OBVIOUS
<1>2. PICK x \in BOOLEAN : x = crossed'
  BY RunCrosses DEF Submit, Click
<1>3. /\ None \in MaybeAnswer /\ ~page.busy /\ game = "skill"
      /\ page.session.id \in MaybeSession /\ page.actions \in MaybeAnswer
  BY DEF MaybeAnswer, Submit, CanSubmit, PageInv, Types, Page, Known, MaybeSession
<1>4. /\ c \in Clients /\ c.page.status = "submitting"
      /\ c.th = [Idle EXCEPT !.fn = "action"] /\ Running(c, "main", page.busy, x)
  BY <1>1, <1>3, PressRuns
<1>5. c.th.fn = "action"
  BY <1>4 DEF Idle
<1>6. PICK e : e = [c EXCEPT !.journal = [@ EXCEPT !.actions = page.actions, !.pending = "play"]]
  OBVIOUS
<1>7. e \in Clients /\ e.page = c.page /\ e.th = c.th
  BY <1>3, <1>4, <1>6 DEF Clients, Journal, Request
<1>8. PICK q \in BOOLEAN : q = Submitting(thread["main"])
  BY ThreadFacts DEF Submitting, Threads
<1>9. page.busy \in BOOLEAN /\ "main" \in Threads
  BY DEF PageInv, Types, Page, Threads
<1>10. Running(e, "main", page.busy, x) /\ MayAwait(e, "main", "play", q)
  BY <1>4, <1>5, <1>7 DEF Running, MayAwait
<1>11. HasRun(Await(e, "play", page.session.id, page.actions), "main", page.busy, q, x)
  BY <1>3, <1>9, <1>10, AwaitRuns DEF Request
<1>12. /\ Run("main", Await(e, "play", page.session.id, page.actions))
       /\ UNCHANGED <<serverVars, late, disturbances>>
  BY <1>1, <1>6 DEF Submit, Click
<1>. QED  BY <1>2, <1>8, <1>9, <1>11, <1>12, RunInv

LEMMA CountdownEndsInv ==
  ASSUME PageInv, CountdownEnds
  PROVE  PageInv'
<1>1. PICK c : c = Client("timer", None)
  OBVIOUS
<1>2. PICK x \in BOOLEAN : x = crossed'
  BY RunCrosses DEF CountdownEnds
<1>3. None \in MaybeAnswer /\ "timer" \in Threads /\ page.busy \in BOOLEAN
  BY DEF MaybeAnswer, Threads, PageInv, Types, Page
<1>4. c \in Clients /\ c.page = page
  <2>1. c \in Clients
    BY <1>1, <1>2, <1>3, ClientRuns DEF PageInv, Types
  <2>. QED  BY <1>1, <2>1 DEF Client
<1>5. PICK q \in BOOLEAN : q = Submitting(thread["main"])
  BY ThreadFacts DEF Submitting, Threads
<1>6. HasRun(Recover(c, "countdown"), "timer", page.busy, q, x)
  BY <1>3, <1>4, RecoverRuns
<1>7. Run("timer", Recover(c, "countdown")) /\ UNCHANGED <<serverVars, late, disturbances>>
  BY <1>1 DEF CountdownEnds
<1>. QED  BY <1>2, <1>3, <1>5, <1>6, <1>7, RunInv

LEMMA ContinueInv ==
  ASSUME PageInv, NEW t \in Threads, Continue(t)
  PROVE  PageInv'
<1>1. PICK seed \in IF game = "spin" THEN Answers ELSE {None} :
        Run(t, Resume(Client(t, seed), thread[t].reply))
  BY DEF Continue
<1>2. PICK c : c = Client(t, seed)
  OBVIOUS
<1>3. PICK x \in BOOLEAN : x = crossed'
  BY <1>1, RunCrosses
<1>4. seed \in MaybeAnswer /\ page.busy \in BOOLEAN /\ game \in {"spin", "card", "skill"}
  BY GameAssumption DEF MaybeAnswer, PageInv, Types, Page
<1>5. PICK q \in BOOLEAN : q = Submitting(thread["main"])
  BY ThreadFacts DEF Submitting, Threads
<1>6. HasRun(c, t, page.busy, q, x)
  BY <1>1, <1>2, <1>3, <1>4, <1>5, ClientRuns, RunCrosses
<1>7. c.th = thread[t] /\ c.th.reply # None
  BY <1>2 DEF Client, Continue
<1>8. c.th.at # "idle"
  <2>1. Idle.reply = None
    BY DEF Idle
  <2>. QED  BY <1>7, <2>1, ThreadFacts
<1>9. HasRun(Resume(c, c.th.reply), t, page.busy, q, x)
  BY <1>4, <1>6, <1>7, <1>8, ResumeRuns
<1>10. Run(t, Resume(c, c.th.reply)) /\ UNCHANGED <<serverVars, late, disturbances>>
  BY <1>1, <1>2, <1>7 DEF Continue
<1>. QED  BY <1>3, <1>4, <1>5, <1>9, <1>10, RunInv

LEMMA EnterActionsInv ==
  ASSUME PageInv, NEW v \in Answers, EnterActions(v)
  PROVE  PageInv'
<1>1. PICK pg : pg = [page EXCEPT !.actions = v]
  OBVIOUS
<1>2. /\ pg \in Page /\ pg.status = page.status /\ pg.busy = page.busy /\ pg.countdown = page.countdown
      /\ pg.choice = page.choice /\ pg.session = page.session /\ pg.preview = page.preview
      /\ pg.phase = page.phase
  BY <1>1 DEF PageInv, Types, Page, MaybeAnswer
<1>3. page' = pg /\ UNCHANGED <<serverVars, game, late, journal, thread, crossed, disturbances>>
  BY <1>1 DEF EnterActions
<1>. QED
  BY <1>2, <1>3 DEF PageInv, Types, AtWork, Counts, Submitting, Leads, Active, OneRuns,
     ServerTypeOK, serverVars, Latest

LEMMA PreviewEndsInv ==
  ASSUME PageInv, PreviewEnds
  PROVE  PageInv'
<1>1. PICK pg : pg = [page EXCEPT !.phase = "input", !.preview = FALSE, !.failure = None]
  OBVIOUS
<1>2. /\ pg \in Page /\ pg.status = page.status /\ pg.busy = page.busy /\ pg.countdown = page.countdown
      /\ pg.choice = page.choice /\ pg.session = page.session /\ pg.phase = "input"
  BY <1>1 DEF PageInv, Types, Page
<1>3. page' = pg /\ UNCHANGED <<serverVars, game, late, journal, thread, crossed, disturbances>>
  BY <1>1 DEF PreviewEnds
<1>. QED
  BY <1>2, <1>3 DEF PageInv, Types, AtWork, Counts, Submitting, Leads, Active, OneRuns,
     ServerTypeOK, serverVars, Latest

\* Only the server moves.
LEMMA ServerMoves ==
  ASSUME PageInv, WellFormed(sessions', cooling'),
         late' \subseteq [at : Request, session : MaybeSession, answer : MaybeAnswer],
         UNCHANGED <<game, journal, page, thread, crossed, disturbances>>
  PROVE  PageInv'
<1>1. ServerTypeOK' /\ (~cooling' => Latest' < MaxSessions)
  BY DEF WellFormed, ServerTypeOK, Latest
<1>2. Types'
  BY <1>1 DEF PageInv, Types
<1>. QED
  BY <1>2 DEF PageInv, AtWork, Counts, Submitting, Leads, Active, OneRuns

LEMMA TimeInv ==
  ASSUME PageInv, Time(PassExpiry) \/ Time(CoolDown) \/ Time(CloseWeek)
  PROVE  PageInv'
<1>1. WellFormed(sessions, cooling)
  BY ServerWellFormed DEF PageInv, Types
<1>2. WellFormed(sessions', cooling')
  <2>1. CASE PassExpiry
    <3>1. PICK v : v = [sessions[Latest] EXCEPT !.status = "due"]
      OBVIOUS
    <3>2. Latest \in DOMAIN sessions /\ sessions[Latest] \in SessionRecord
      BY <1>1, <2>1 DEF WellFormed, PassExpiry, Latest
    <3>3. v \in SessionRecord
      BY <3>1, <3>2 DEF SessionRecord
    <3>4. sessions' = [sessions EXCEPT ![Latest] = v] /\ cooling' = cooling
      BY <2>1, <3>1 DEF PassExpiry
    <3>5. Latest < Len(sessions) => v.status \in {"completed", "expired"}
      BY <1>1 DEF Latest, WellFormed
    <3>. QED  BY <1>1, <3>3, <3>4, <3>5, ChangedSession
  <2>2. CASE CoolDown
    BY <1>1, <2>2 DEF WellFormed, CoolDown, Latest
  <2>3. CASE CloseWeek
    <3>1. PICK v : v = [sessions[Latest] EXCEPT !.score = "closed"]
      OBVIOUS
    <3>2. Latest \in DOMAIN sessions /\ sessions[Latest] \in SessionRecord
      BY <1>1, <2>3 DEF WellFormed, CloseWeek, Latest
    <3>3. v \in SessionRecord
      BY <3>1, <3>2 DEF SessionRecord
    <3>4. sessions' = [sessions EXCEPT ![Latest] = v] /\ cooling' = cooling
      BY <2>3, <3>1 DEF CloseWeek
    <3>5. Latest < Len(sessions) => v.status \in {"completed", "expired"}
      BY <1>1 DEF Latest, WellFormed
    <3>. QED  BY <1>1, <3>3, <3>4, <3>5, ChangedSession
  <2>. QED  BY <2>1, <2>2, <2>3 DEF Time
<1>. QED  BY <1>2, ServerMoves DEF Time, PageInv, Types

LEMMA ServeLateInv ==
  ASSUME PageInv, NEW l \in late, ServeLate(l)
  PROVE  PageInv'
<1>1. WellFormed(sessions, cooling)
  BY ServerWellFormed DEF PageInv, Types
<1>2. l.at \in Request /\ l.session \in MaybeSession /\ l.answer \in MaybeAnswer
  BY DEF PageInv, Types
<1>3. Result(Effect(l.at, l.session, l.answer), l.at)
  BY <1>1, <1>2, EffectResult
<1>. QED  BY <1>3, ServerMoves DEF ServeLate, Take, Result, PageInv, Types

\* Thread t gets the answer r.
LEMMA AnsweredInv ==
  ASSUME PageInv, NEW t \in Threads, NEW r \in Reply, thread[t].at # "idle", Answer(t, r),
         thread[t].at = "create" /\ r.code = "ok" => r.id # None,
         WellFormed(sessions', cooling'),
         late' \subseteq [at : Request, session : MaybeSession, answer : MaybeAnswer],
         disturbances' \in 0 .. MaxDisturbances,
         UNCHANGED <<game, journal, page, crossed>>
  PROVE  PageInv'
<1>1. PICK th : th = [thread[t] EXCEPT !.reply = r]
  OBVIOUS
<1>2. /\ th \in Thread /\ th.fn = thread[t].fn /\ th.at = thread[t].at /\ th.cooling = thread[t].cooling
      /\ th.stale = thread[t].stale /\ th.reply = r
  BY <1>1, ThreadFacts DEF Thread
<1>3. thread' = [thread EXCEPT ![t] = th] /\ thread \in [Threads -> Thread]
  BY <1>1 DEF Answer, PageInv, Types
<1>4. /\ thread' \in [Threads -> Thread] /\ thread'[t] = th
      /\ \A u \in Threads : u # t => thread'[u] = thread[u]
  BY <1>2, <1>3
<1>5. AtWork(t, th)
  BY <1>2, ThreadFacts DEF AtWork
<1>6. ServerTypeOK' /\ (~cooling' => Latest' < MaxSessions)
  BY DEF WellFormed, ServerTypeOK, Latest
<1>7. \A u \in Threads : thread'[u].fn = thread[u].fn /\ thread'[u].at = thread[u].at
                         /\ thread'[u].cooling = thread[u].cooling /\ thread'[u].stale = thread[u].stale
  BY <1>2, <1>4
<1>8. Types'
  BY <1>4, <1>6, <1>7 DEF PageInv, Types, Threads
<1>9. \A u \in Threads : AtWork(u, thread'[u]) /\ Counts(page, thread'[u], crossed)
  <2>1. \A u \in Threads : AtWork(u, thread'[u])
    BY <1>4, <1>5 DEF PageInv
  <2>2. \A u \in Threads : Counts(page, thread'[u], crossed)
    BY <1>7 DEF PageInv, Counts
  <2>. QED  BY <2>1, <2>2
<1>10. (\A u \in Threads : AtWork(u, thread[u]) /\ Counts(page, thread[u], crossed))'
  BY <1>9 DEF AtWork, Counts
<1>11. (page.status = "submitting" => Submitting(thread["main"]))'
  BY <1>7 DEF PageInv, Submitting, Threads
<1>12. Leads(page, crossed)'
  BY DEF PageInv, Leads, Active
<1>13. OneRuns'
  BY <1>7 DEF PageInv, OneRuns
<1>. QED  BY <1>8, <1>10, <1>11, <1>12, <1>13 DEF PageInv

LEMMA ServeInv ==
  ASSUME PageInv, NEW t \in Threads, Serve(t)
  PROVE  PageInv'
<1>1. WellFormed(sessions, cooling)
  BY ServerWellFormed DEF PageInv, Types
<1>2. /\ thread[t].at \in Request \cup Reads /\ thread[t].session \in MaybeSession
      /\ thread[t].answer \in MaybeAnswer
  BY ThreadFacts DEF Serve, Unanswered, Thread
<1>3. PICK e : e = Effect(thread[t].at, thread[t].session, thread[t].answer)
  OBVIOUS
<1>4. Result(e, thread[t].at)
  BY <1>1, <1>2, <1>3, EffectResult
<1>5. PICK state : state = IF thread[t].at \in AsksState THEN Recoverable(e.sessions) ELSE None
  OBVIOUS
<1>6. PICK r : r = [code |-> e.code, id |-> e.id, cooling |-> e.cooling, state |-> state]
  OBVIOUS
<1>7. r \in Reply /\ r.code = e.code /\ r.id = e.id
  BY <1>4, <1>5, <1>6 DEF Result, Reply
<1>8. Answer(t, r) /\ Take(e)
  BY <1>3, <1>5, <1>6 DEF Serve
<1>9. WellFormed(sessions', cooling')
  BY <1>4, <1>8 DEF Take, Result
<1>10. thread[t].at # "idle" /\ (thread[t].at = "create" /\ r.code = "ok" => r.id # None)
  BY <1>4, <1>7 DEF Serve, Unanswered, Result
<1>. QED  BY <1>7, <1>8, <1>9, <1>10, AnsweredInv DEF Serve, PageInv, Types

LEMMA GivenType ==
  ASSUME PageInv, NEW T \in SUBSET Threads
  PROVE  Given(T) \subseteq [at : Request, session : MaybeSession, answer : MaybeAnswer]
BY ThreadFacts DEF Given, Unanswered, Thread

LEMMA ErrorType ==
  ASSUME NEW code \in Code
  PROVE  Error(code) \in Reply /\ Error(code).code = code
BY DEF Error, Reply, MaybeSession

LEMMA LoseInv ==
  ASSUME PageInv, NEW t \in Threads, Lose(t)
  PROVE  PageInv'
<1>1. PICK code : code = IF thread[t].at \in Reads THEN "network" ELSE "lost"
  OBVIOUS
<1>2. code \in Code /\ code # "ok"
  BY <1>1 DEF Code
<1>3. late' \subseteq [at : Request, session : MaybeSession, answer : MaybeAnswer]
  BY GivenType DEF Lose, PageInv, Types
<1>4. WellFormed(sessions', cooling')
  BY ServerWellFormed DEF PageInv, Types, Lose, serverVars
<1>5. disturbances' \in 0 .. MaxDisturbances
  BY DisturbanceAssumption DEF Lose, Disturb, PageInv, Types
<1>. QED  BY <1>1, <1>2, <1>3, <1>4, <1>5, ErrorType, AnsweredInv DEF Lose

LEMMA FailInv ==
  ASSUME PageInv, NEW t \in Threads, Fail(t)
  PROVE  PageInv'
<1>1. "http_503" \in Code /\ "http_503" # "ok"
  BY DEF Code
<1>2. WellFormed(sessions', cooling')
  BY ServerWellFormed DEF PageInv, Types, Fail, serverVars
<1>3. disturbances' \in 0 .. MaxDisturbances
  BY DisturbanceAssumption DEF Fail, Disturb, PageInv, Types
<1>. QED  BY <1>1, <1>2, <1>3, ErrorType, AnsweredInv DEF Fail, Unanswered, PageInv, Types

LEMMA LoadedFacts ==
  /\ NewPage \in Page /\ NewPage.busy = TRUE /\ NewPage.status = "recovering"
  /\ Loaded \in [Threads -> Thread] /\ Loaded["timer"] = Idle
  /\ Loaded["main"] \in Thread /\ Loaded["main"].fn = "load" /\ Loaded["main"].at = "recover"
  /\ Loaded["main"].stale = FALSE /\ Loaded["main"].reply = None
<1>1. Loading \in Thread /\ Loading.fn = "load" /\ Loading.at = "recover"
      /\ Loading.stale = FALSE /\ Loading.reply = None
  BY IdleType DEF Loading, Idle, Thread, Reads, AsksState
<1>2. NewPage \in Page /\ NewPage.busy = TRUE /\ NewPage.status = "recovering"
  BY DEF NewPage, Page, MaybeSession, MaybeAnswer
<1>. QED  BY <1>1, <1>2, IdleType DEF Loaded, Threads

\* A document that was just loaded.
LEMMA LoadedInv ==
  /\ \A t \in Threads : AtWork(t, Loaded[t]) /\ Counts(NewPage, Loaded[t], crossed)
  /\ NewPage.status # "submitting" /\ Leads(NewPage, crossed)
  /\ NewPage.busy = (Loaded["main"].fn # "idle")
<1>1. AtWork("main", Loaded["main"]) /\ Counts(NewPage, Loaded["main"], crossed)
  BY LoadedFacts DEF AtWork, Functions, Counts
<1>2. AtWork("timer", Idle) /\ Counts(NewPage, Idle, crossed)
  BY DEF AtWork, Counts, Idle
<1>3. Leads(NewPage, crossed)
  BY LoadedFacts DEF Leads
<1>. QED  BY <1>1, <1>2, <1>3, LoadedFacts DEF Threads

LEMMA ReloadInv ==
  ASSUME PageInv, Reload
  PROVE  PageInv'
<1>1. late' \subseteq [at : Request, session : MaybeSession, answer : MaybeAnswer]
  BY GivenType DEF Reload, PageInv, Types
<1>2. disturbances' \in 0 .. MaxDisturbances
  BY DisturbanceAssumption DEF Reload, Disturb, PageInv, Types
<1>3. page' = NewPage /\ thread' = Loaded /\ UNCHANGED <<serverVars, game, journal, crossed>>
  BY DEF Reload
<1>4. Types'
  BY <1>1, <1>2, <1>3, LoadedFacts, LoadedInv DEF PageInv, Types, ServerTypeOK, serverVars, Latest
<1>5. (\A t \in Threads : AtWork(t, thread[t]) /\ Counts(page, thread[t], crossed))'
  BY <1>3, LoadedInv DEF AtWork, Counts
<1>6. (page.status = "submitting" => Submitting(thread["main"]))' /\ Leads(page, crossed)'
  BY <1>3, LoadedInv DEF Leads, Active
<1>7. OneRuns'
  BY <1>3, LoadedFacts, IdleType DEF OneRuns, Threads
<1>. QED  BY <1>4, <1>5, <1>6, <1>7 DEF PageInv

LEMMA InitPageInv ==
  ASSUME Init
  PROVE  PageInv
<1>1. Types
  <2>1. ServerTypeOK /\ (~cooling => Latest < MaxSessions)
    <3>1. sessions = <<>> /\ cooling = FALSE
      BY DEF Init, ServerInit
    <3>2. sessions \in Seq(SessionRecord) /\ Len(sessions) = 0
      BY <3>1
    <3>3. DOMAIN sessions = {}
      BY <3>1
    <3>4. WellFormed(sessions, cooling)
      <4>1. Len(sessions) <= MaxSessions /\ Len(sessions) < MaxSessions
        BY <3>2, SessionBound
      <4>2. cooling \in BOOLEAN
        BY <3>1
      <4>. QED  BY <3>2, <3>3, <4>1, <4>2, Zenon DEF WellFormed
    <3>. QED  BY <3>4, ServerWellFormed
  <2>2. journal \in Journal
    BY DEF Init, NoJournal, Journal, MaybeSession, MaybeAnswer
  <2>3. page \in Page /\ thread \in [Threads -> Thread] /\ page.busy = (thread["main"].fn # "idle")
    BY LoadedFacts, LoadedInv DEF Init
  <2>4. late \subseteq [at : Request, session : MaybeSession, answer : MaybeAnswer]
    BY DEF Init
  <2>5. game \in Games /\ disturbances \in 0 .. MaxDisturbances
    BY DisturbanceAssumption DEF Init
  <2>6. crossed \in BOOLEAN
    BY DEF Init
  <2>. QED  BY <2>1, <2>2, <2>3, <2>4, <2>5, <2>6, Zenon DEF Types
<1>2. OneRuns
  BY LoadedFacts, IdleType DEF Init, OneRuns, Threads
<1>. QED  BY <1>1, <1>2, LoadedInv DEF Init, PageInv

LEMMA NextPageInv ==
  ASSUME PageInv, [Next]_vars
  PROVE  PageInv'
<1>1. CASE \E v \in Answers : SpinClicked(v) \/ Choose(v) \/ EnterActions(v)
  BY <1>1, SpinClickedInv, ChooseInv, EnterActionsInv
<1>2. CASE ResumeClicked \/ Start \/ Submit \/ PreviewEnds \/ CountdownEnds
  BY <1>2, ResumeClickedInv, StartInv, SubmitInv, PreviewEndsInv, CountdownEndsInv
<1>3. CASE \E t \in Threads : Serve(t) \/ Continue(t) \/ Lose(t) \/ Fail(t)
  BY <1>3, ServeInv, ContinueInv, LoseInv, FailInv
<1>4. CASE \E l \in late : ServeLate(l)
  BY <1>4, ServeLateInv
<1>5. CASE Time(PassExpiry) \/ Time(CoolDown) \/ Time(CloseWeek)
  BY <1>5, TimeInv
<1>6. CASE Reload
  BY <1>6, ReloadInv
<1>7. CASE UNCHANGED vars
  BY <1>7 DEF vars, serverVars, PageInv, Types, AtWork, Counts, Submitting, Leads, Active, OneRuns,
     ServerTypeOK, Latest
<1>. QED  BY <1>1, <1>2, <1>3, <1>4, <1>5, <1>6, <1>7 DEF Next

LEMMA PageInvIsType == PageInv => TypeOK
BY DEF PageInv, Types, TypeOK

\* Every step of the visitor, the timers, the server and the network keeps what the
\* page shows and what its functions are at in agreement.
THEOREM Invariance == Spec => []PageInv
BY InitPageInv, NextPageInv, PTL DEF Spec

\* Every variable has its type, and the page is busy while and only while a function
\* of the visitor or the load is under way, so that a control it offers starts a
\* function that no other function of the visitor crosses.
THEOREM TypeCorrect == Spec => []TypeOK
BY Invariance, PageInvIsType, PTL

------------------------------------------------------------------------------
(***************************************************************************)
(* One answer.  A client that Keeps the seed s, if one was drawn, and the  *)
(* names it holds makes one that HasKept them; x tells whether functions   *)
(* have crossed.                                                           *)
(***************************************************************************)
Keeps(c, s) ==
  /\ c \in Clients
  /\ game = "spin" => c.th.fn # "resume" /\ (s # None => c.journal.seed = s)
  /\ game = "card" => /\ c.page.session # None => c.page.session.id \in DOMAIN sessions
                      /\ c.th.fn = "resume" => c.th.choice # None

HasKept(c, s, x) ==
  /\ c \in Clients /\ c.th.reply = None
  /\ game = "spin" => /\ Drawn(c.th, c.journal) /\ c.th.fn # "resume"
                      /\ s # None => c.journal.seed = s
  /\ game = "card" => Named(c.page, c.th) /\ (~x => Chosen(c.page, c.journal, c.th))

\* A request that gives no answer.
LEMMA AwaitKeeps ==
  ASSUME NEW c, NEW seed, Keeps(c, seed), NEW x,
         NEW at \in (Request \cup Reads) \ {"create", "play", "evaluate"},
         NEW s \in MaybeSession, NEW a \in MaybeAnswer
  PROVE  HasKept(Await(c, at, s, a), seed, x)
<1>1. PICK d : d = Await(c, at, s, a)
  OBVIOUS
<1>2. /\ d \in Clients /\ d.page = c.page /\ d.journal = c.journal /\ d.th.at = at
      /\ d.th.fn = c.th.fn /\ d.th.choice = c.th.choice /\ d.th.reply = None
  BY <1>1, AwaitFacts DEF Keeps
<1>3. HasKept(d, seed, x)
  BY <1>2 DEF Keeps, HasKept, Drawn, Named, Chosen
<1>. QED  BY <1>1, <1>3

LEMMA RecoverFacts ==
  ASSUME NEW c \in Clients, NEW fn \in Functions \cup {"countdown"}, NEW d, d = Recover(c, fn)
  PROVE  /\ d \in Clients /\ d.journal = c.journal
         /\ d.page.session = c.page.session /\ d.page.choice = c.page.choice
         /\ d.page.status = "recovering" /\ d.page.failure = c.page.failure /\ ~d.th.stale
         /\ d.th.fn = fn /\ d.th.at = "recover" /\ d.th.reply = None /\ d.th.choice = c.th.choice
<1>1. PICK th : th = [c.th EXCEPT !.fn = fn, !.stale = FALSE]
  OBVIOUS
<1>2. PICK pg : pg = [c.page EXCEPT !.status = "recovering", !.countdown = FALSE, !.preview = FALSE]
  OBVIOUS
<1>3. PICK e : e = [c EXCEPT !.th = th, !.page = pg]
  OBVIOUS
<1>4. th \in Thread /\ th.fn = fn /\ th.choice = c.th.choice /\ th.stale = FALSE
  BY <1>1 DEF Clients, Thread, Functions
<1>5. /\ pg \in Page /\ pg.status = "recovering" /\ pg.session = c.page.session
      /\ pg.choice = c.page.choice /\ pg.failure = c.page.failure
  BY <1>2 DEF Clients, Page
<1>6. e \in Clients /\ e.page = pg /\ e.th = th /\ e.journal = c.journal
  BY <1>3, <1>4, <1>5 DEF Clients
<1>7. d = Await(e, "recover", None, None)
  BY <1>1, <1>2, <1>3 DEF Recover
<1>8. /\ d \in Clients /\ d.page = pg /\ d.journal = e.journal /\ d.th.fn = fn
      /\ d.th.at = "recover" /\ d.th.reply = None /\ d.th.choice = e.th.choice
      /\ d.th.stale = e.th.stale
  BY <1>4, <1>6, <1>7, AwaitFacts DEF Reads, AsksState, MaybeSession, MaybeAnswer
<1>. QED  BY <1>4, <1>5, <1>6, <1>8

LEMMA RecoverKeeps ==
  ASSUME NEW c, NEW s, Keeps(c, s), NEW x, NEW fn \in {"caught", "resume", "countdown"},
         fn = "resume" => game # "spin" /\ c.th.choice # None
  PROVE  HasKept(Recover(c, fn), s, x)
<1>1. PICK d : d = Recover(c, fn)
  OBVIOUS
<1>2. /\ d \in Clients /\ d.journal = c.journal /\ d.page.session = c.page.session
      /\ d.th.fn = fn /\ d.th.at = "recover" /\ d.th.reply = None /\ d.th.choice = c.th.choice
  BY <1>1, RecoverFacts DEF Keeps, Functions
<1>3. HasKept(d, s, x)
  BY <1>2 DEF Keeps, HasKept, Drawn, Named, Chosen
<1>. QED  BY <1>1, <1>3

LEMMA EvaluateKeeps ==
  ASSUME NEW c, NEW s, Keeps(c, s), NEW x, NEW proof \in MaybeSession, game = "spin",
         c.seed # None
  PROVE  HasKept(Evaluate(c, proof), s, x)
<1>1. PICK seed : seed = IF c.journal.seed # None THEN c.journal.seed ELSE c.seed
  OBVIOUS
<1>2. PICK e : e = [c EXCEPT !.journal = [@ EXCEPT !.seed = seed, !.pending = "evaluate"]]
  OBVIOUS
<1>3. seed \in MaybeAnswer /\ seed # None /\ (s # None => seed = s)
  BY <1>1 DEF Keeps, Clients, Journal
<1>4. e \in Clients /\ e.th = c.th /\ e.journal.seed = seed
  BY <1>2, <1>3 DEF Keeps, Clients, Journal, Request
<1>5. PICK d : d = Await(e, "evaluate", proof, seed)
  OBVIOUS
<1>6. /\ d \in Clients /\ d.journal = e.journal /\ d.th.at = "evaluate" /\ d.th.answer = seed
      /\ d.th.fn = c.th.fn /\ d.th.reply = None
  BY <1>3, <1>4, <1>5, AwaitFacts DEF Request
<1>7. HasKept(d, s, x)
  BY <1>3, <1>4, <1>6 DEF Keeps, HasKept, Drawn
<1>. QED  BY <1>1, <1>2, <1>5, <1>7 DEF Evaluate

LEMMA SpinKeeps ==
  ASSUME NEW c, NEW s, Keeps(c, s), NEW x, game = "spin", c.seed # None, c.page.session # None
  PROVE  HasKept(Spin(c), s, x)
<1>1. PICK proof : proof = IF c.page.session.proof THEN c.page.session.id ELSE c.journal.commitment
  OBVIOUS
<1>2. c.page.session.id \in MaybeSession /\ c.journal.commitment \in MaybeSession
  BY DEF Keeps, Clients, Page, Journal, MaybeSession, Known
<1>3. HasKept(Await(c, "commit", c.page.session.id, None), s, x)
  BY <1>2, AwaitKeeps DEF Request, MaybeAnswer
<1>4. HasKept(Evaluate(c, proof), s, x)
  BY <1>1, <1>2, EvaluateKeeps
<1>. QED  BY <1>1, <1>3, <1>4 DEF Spin

LEMMA CreateKeeps ==
  ASSUME NEW c, NEW s, Keeps(c, s), NEW x,
         game = "card" => /\ c.th.choice # None /\ c.page.choice = c.th.choice
                          /\ c.journal.choice = c.th.choice
  PROVE  HasKept(Create(c), s, x)
<1>1. PICK pg : pg = [c.page EXCEPT !.outcome = None, !.score = None]
  OBVIOUS
<1>2. PICK e : e = [c EXCEPT !.page = pg, !.journal.pending = "create_session"]
  OBVIOUS
<1>3. pg \in Page /\ pg.choice = c.page.choice /\ pg.session = c.page.session
  BY <1>1 DEF Keeps, Clients, Page, MaybeSession
<1>4. /\ e \in Clients /\ e.page = pg /\ e.th = c.th /\ e.journal.seed = c.journal.seed
      /\ e.journal.choice = c.journal.choice /\ e.journal.pending = "create_session"
  BY <1>2, <1>3 DEF Keeps, Clients, Journal
<1>5. PICK d : d = Await(e, "create", None, None)
  OBVIOUS
<1>6. /\ d \in Clients /\ d.page = pg /\ d.journal = e.journal /\ d.th.at = "create"
      /\ d.th.fn = c.th.fn /\ d.th.choice = c.th.choice /\ d.th.reply = None
  BY <1>4, <1>5, AwaitFacts DEF Request, MaybeSession, MaybeAnswer
<1>7. HasKept(d, s, x)
  BY <1>3, <1>4, <1>6 DEF Keeps, HasKept, Drawn, Named, Chosen
<1>. QED  BY <1>1, <1>2, <1>5, <1>7 DEF Create

\* playChoice gives the choice of the page and the journal.
LEMMA PlayChoiceFacts ==
  ASSUME NEW c \in Clients, NEW v \in MaybeAnswer, NEW d, d = PlayChoice(c, v)
  PROVE  /\ Active(c.page) => /\ d \in Clients /\ d.th.reply = None
                              /\ d.journal.choice = v /\ d.journal.pending = "play"
                              /\ d.page.choice = v /\ d.page.session = c.page.session
                              /\ d.page.status = "submitting"
                              /\ d.th.fn = "action" /\ d.th.at = "play" /\ d.th.choice = v
                              /\ d.th.answer = v /\ d.th.session = c.page.session.id
         /\ ~Active(c.page) =>
              \E e : /\ d = Create(e) /\ e \in Clients
                     /\ e.journal.choice = v /\ e.page.choice = v
                     /\ e.page.status = "submitting"
                     /\ e.page.session = c.page.session /\ e.journal.seed = c.journal.seed
                     /\ e.th.fn = "action" /\ e.th.choice = v
<1>1. PICK pg : pg = [c.page EXCEPT !.busy = TRUE, !.status = "submitting", !.choice = v]
  OBVIOUS
<1>2. PICK th : th = [c.th EXCEPT !.fn = "action", !.choice = v]
  OBVIOUS
<1>3. PICK b : b = [c EXCEPT !.th = th, !.page = pg, !.journal.choice = v]
  OBVIOUS
<1>4. PICK e : e = [b EXCEPT !.journal.pending = "play"]
  OBVIOUS
<1>5. /\ pg \in Page /\ pg.status = "submitting" /\ pg.choice = v /\ pg.session = c.page.session
  BY <1>1 DEF Clients, Page
<1>6. th \in Thread /\ th.fn = "action" /\ th.choice = v
  BY <1>2 DEF Clients, Thread
<1>7. /\ b \in Clients /\ b.page = pg /\ b.th = th /\ b.journal.choice = v
      /\ b.journal.seed = c.journal.seed
  BY <1>3, <1>5, <1>6 DEF Clients, Journal
<1>8. /\ e \in Clients /\ e.page = pg /\ e.th = th /\ e.journal.choice = v
      /\ e.journal.pending = "play"
  BY <1>4, <1>7 DEF Clients, Journal, Request
<1>9. CASE Active(c.page)
  <2>1. c.page.session.id \in MaybeSession
    BY <1>9 DEF Active, Clients, Page, MaybeSession, Known
  <2>2. d = Await(e, "play", c.page.session.id, v)
    BY <1>1, <1>2, <1>3, <1>4, <1>9 DEF PlayChoice
  <2>3. "play" \in Request \cup Reads
    BY DEF Request
  <2>4. PICK id : id = c.page.session.id
    OBVIOUS
  <2>5. /\ d \in Clients /\ d.page = e.page /\ d.journal = e.journal /\ d.th.fn = e.th.fn
        /\ d.th.at = "play" /\ d.th.choice = e.th.choice /\ d.th.answer = v /\ d.th.reply = None
        /\ d.th.session = id
    BY <1>8, <2>1, <2>2, <2>3, <2>4, AwaitFacts
  <2>. QED  BY <1>5, <1>6, <1>8, <1>9, <2>4, <2>5
<1>10. CASE ~Active(c.page)
  <2>1. d = Create(b)
    BY <1>1, <1>2, <1>3, <1>10 DEF PlayChoice
  <2>. QED  BY <1>5, <1>6, <1>7, <1>10, <2>1
<1>. QED  BY <1>9, <1>10

LEMMA PlayChoiceKeeps ==
  ASSUME NEW c, NEW s, Keeps(c, s), NEW x, NEW v \in Answers, game = "card"
  PROVE  HasKept(PlayChoice(c, v), s, x)
<1>1. PICK d : d = PlayChoice(c, v)
  OBVIOUS
<1>2. v \in MaybeAnswer /\ v # None /\ c \in Clients
  BY NoneIsNot DEF MaybeAnswer, Keeps
<1>3. CASE Active(c.page)
  <2>1. /\ d \in Clients /\ d.th.reply = None
        /\ d.journal.choice = v /\ d.journal.pending = "play"
        /\ d.page.choice = v /\ d.page.session = c.page.session
        /\ d.th.fn = "action" /\ d.th.at = "play" /\ d.th.choice = v
        /\ d.th.answer = v /\ d.th.session = c.page.session.id
    BY <1>1, <1>2, <1>3, PlayChoiceFacts
  <2>2. c.page.session # None /\ c.page.session.id \in DOMAIN sessions
    BY <1>3 DEF Active, Keeps
  <2>3. HasKept(d, s, x)
    BY <1>2, <2>1, <2>2 DEF HasKept, Named, Chosen
  <2>. QED  BY <1>1, <2>3
<1>4. CASE ~Active(c.page)
  <2>1. PICK e : /\ d = Create(e) /\ e \in Clients
                 /\ e.journal.choice = v /\ e.page.choice = v
                 /\ e.page.session = c.page.session
                 /\ e.th.fn = "action" /\ e.th.choice = v
    BY <1>1, <1>2, <1>4, PlayChoiceFacts
  <2>2. Keeps(e, s)
    BY <2>1 DEF Keeps
  <2>. QED  BY <1>1, <1>2, <2>1, <2>2, CreateKeeps
<1>. QED  BY <1>3, <1>4

LEMMA IdleKeeps ==
  ASSUME NEW c, NEW s, Keeps(c, s), NEW x, NEW d \in Clients, d.th = Idle,
         d.journal = c.journal, d.page.session = c.page.session
  PROVE  HasKept(d, s, x)
<1>1. Idle.fn = "idle" /\ Idle.at = "idle" /\ Idle.reply = None
  BY DEF Idle
<1>. QED  BY <1>1 DEF Keeps, HasKept, Drawn, Named, Chosen

LEMMA ReturnKeeps ==
  ASSUME NEW c, NEW s, Keeps(c, s), NEW x, game \in {"spin", "card"}
  PROVE  HasKept(Return(c), s, x)
<1>1. PICK done : done = [c EXCEPT !.th = Idle]
  OBVIOUS
<1>2. PICK free : free = [done EXCEPT !.page.busy = FALSE]
  OBVIOUS
<1>3. done \in Clients /\ done.page = c.page /\ done.th = Idle /\ done.journal = c.journal
  BY <1>1, IdleType DEF Keeps, Clients
<1>4. /\ free \in Clients /\ free.th = Idle /\ free.journal = c.journal
      /\ free.page.session = c.page.session
  BY <1>2, <1>3 DEF Clients, Page
<1>5. HasKept(done, s, x) /\ HasKept(free, s, x)
  BY <1>3, <1>4, IdleKeeps
<1>6. c.th.fn = "resume" => HasKept(PlayChoice(c, c.th.choice), s, x)
  <2>1. ASSUME c.th.fn = "resume" PROVE HasKept(PlayChoice(c, c.th.choice), s, x)
    <3>1. game = "card" /\ c.th.choice \in Answers
      BY <2>1 DEF Keeps, Clients, Thread, MaybeAnswer
    <3>. QED  BY <3>1, PlayChoiceKeeps
  <2>. QED  BY <2>1
<1>. QED  BY <1>1, <1>2, <1>5, <1>6 DEF Return

LEMMA ThrowKeeps ==
  ASSUME NEW c, NEW s, Keeps(c, s), NEW x, NEW code, c.th.fn # "idle"
  PROVE  HasKept(Throw(c, code), s, x)
<1>1. PICK free : free = [c EXCEPT !.th = Idle, !.page.busy = FALSE]
  OBVIOUS
<1>2. PICK done : done = [c EXCEPT !.th = Idle,
                                   !.page.failure = IF @ = "told" THEN @ ELSE "unheard"]
  OBVIOUS
<1>3. PICK caught : caught = [c EXCEPT !.cancels = game = "spin",
                                       !.page = [@ EXCEPT
                           !.status = IF code = "session_expired" THEN "expired" ELSE "recovering",
                           !.failure = "told"]]
  OBVIOUS
<1>4. PICK failed : failed = [caught EXCEPT !.th = Idle, !.page.busy = FALSE]
  OBVIOUS
<1>5. c \in Clients
  BY DEF Keeps
<1>6. /\ free \in Clients /\ free.th = Idle /\ free.journal = c.journal
      /\ free.page.session = c.page.session
  BY <1>1, <1>5, IdleType DEF Clients, Page
<1>7. /\ done \in Clients /\ done.th = Idle /\ done.journal = c.journal
      /\ done.page.session = c.page.session
  BY <1>2, <1>5, IdleType DEF Clients, Page
<1>8. /\ caught \in Clients /\ caught.th = c.th /\ caught.journal = c.journal
      /\ caught.page.session = c.page.session
  BY <1>3, <1>5, ZenonT(60) DEF Clients, Page
<1>9. /\ failed \in Clients /\ failed.th = Idle /\ failed.journal = c.journal
      /\ failed.page.session = c.page.session
  BY <1>4, <1>8, IdleType DEF Clients, Page
<1>10. /\ HasKept(free, s, x) /\ HasKept(done, s, x) /\ HasKept(failed, s, x)
  BY <1>6, <1>7, <1>9, IdleKeeps
<1>11. HasKept(Recover(caught, "caught"), s, x)
  <2>1. Keeps(caught, s)
    BY <1>8 DEF Keeps
  <2>. QED  BY <2>1, RecoverKeeps
<1>12. \A status \in {"terminal_error", "recovering"} :
         HasKept([free EXCEPT !.page = [@ EXCEPT !.status = status, !.failure = "told"]], s, x)
  <2>1. TAKE status \in {"terminal_error", "recovering"}
  <2>2. PICK e : e = [free EXCEPT !.page = [@ EXCEPT !.status = status, !.failure = "told"]]
    OBVIOUS
  <2>3. /\ e \in Clients /\ e.th = Idle /\ e.journal = c.journal
        /\ e.page.session = c.page.session
    BY <1>6, <2>2 DEF Clients, Page
  <2>. QED  BY <2>2, <2>3, IdleKeeps
<1>13. c.th.fn \in {"load", "action", "caught", "resume", "countdown"}
  BY <1>5 DEF Clients, Thread
<1>14. CASE c.th.fn = "countdown"
  BY <1>2, <1>10, <1>14 DEF Throw
<1>15. CASE c.th.fn = "caught"
  BY <1>1, <1>10, <1>15 DEF Throw
<1>16. CASE c.th.fn \in {"load", "resume"}
  BY <1>1, <1>12, <1>16 DEF Throw
<1>17. CASE c.th.fn = "action"
  BY <1>3, <1>4, <1>10, <1>11, <1>17 DEF Throw
<1>. QED  BY <1>13, <1>14, <1>15, <1>16, <1>17

LEMMA AfterScoreKeeps ==
  ASSUME NEW c, NEW s, Keeps(c, s), NEW x, game \in {"spin", "card"}
  PROVE  HasKept(Verified(c), s, x) /\ HasKept(AfterScore(c), s, x)
<1>1. HasKept(Return(c), s, x)
  BY ReturnKeeps
<1>2. HasKept(Verified(c), s, x)
  <2>1. PICK status : status = IF c.th.fn = "action" THEN "result" ELSE Rested(c.th.cooling, "result")
    OBVIOUS
  <2>2. PICK e : e = [c EXCEPT !.page = [@ EXCEPT !.status = status, !.failure = None]]
    OBVIOUS
  <2>3. e \in Clients /\ e.th = c.th /\ e.journal = c.journal /\ e.page.session = c.page.session
    BY <2>1, <2>2 DEF Rested, Keeps, Clients, Page
  <2>4. HasKept(Return(e), s, x)
    BY <2>3, ReturnKeeps DEF Keeps
  <2>. QED  BY <2>1, <2>2, <2>4 DEF Verified
<1>3. HasKept(Await(c, "proof", c.page.outcome, None), s, x)
  <2>1. c.page.outcome \in MaybeSession
    BY DEF Keeps, Clients, Page
  <2>. QED  BY <2>1, AwaitKeeps DEF Reads, MaybeAnswer
<1>. QED  BY <1>1, <1>2, <1>3 DEF AfterScore

LEMMA ScoredKeeps ==
  ASSUME NEW c, NEW s, Keeps(c, s), NEW x, game \in {"spin", "card"}, NEW id \in MaybeSession
  PROVE  HasKept(Scored(c, id), s, x)
<1>1. PICK e : e = [c EXCEPT !.page.score = id, !.journal.pending = None]
  OBVIOUS
<1>2. /\ e \in Clients /\ e.th = c.th /\ e.page.session = c.page.session
      /\ e.journal.seed = c.journal.seed
  BY <1>1 DEF Keeps, Clients, Page, Journal
<1>3. Keeps(e, s)
  BY <1>2 DEF Keeps
<1>. QED  BY <1>1, <1>3, AfterScoreKeeps DEF Scored

LEMMA SubmitFinalScoreKeeps ==
  ASSUME NEW c, NEW s, Keeps(c, s), NEW x, game \in {"spin", "card"}
  PROVE  HasKept(SubmitFinalScore(c), s, x)
<1>1. CASE c.page.session = None \/ c.page.outcome = None
  BY <1>1, AfterScoreKeeps DEF SubmitFinalScore
<1>2. CASE ~(c.page.session = None \/ c.page.outcome = None)
  <2>1. PICK e : e = [c EXCEPT !.journal.pending = "submit_score"]
    OBVIOUS
  <2>2. e \in Clients /\ e.page = c.page /\ e.th = c.th /\ e.journal.seed = c.journal.seed
    BY <2>1 DEF Keeps, Clients, Journal
  <2>3. c.page.session.id \in MaybeSession
    BY <1>2 DEF Keeps, Clients, Page, MaybeSession, Known
  <2>4. HasKept(Await(e, "score", c.page.session.id, None), s, x)
    BY <2>2, <2>3, AwaitKeeps DEF Keeps, Request, MaybeAnswer
  <2>. QED  BY <1>2, <2>1, <2>4 DEF SubmitFinalScore
<1>. QED  BY <1>1, <1>2

LEMMA RecoveredSpinKeeps ==
  ASSUME NEW c, NEW s, Keeps(c, s), NEW x, game = "spin", NEW r \in Reply
  PROVE  HasKept(RecoveredSpin(c, r), s, x)
<1>1. PICK a : a = Adopt(c, r)
  OBVIOUS
<1>2. PICK d : d = IF r.state = None THEN a
                   ELSE [a EXCEPT !.journal.commitment = IF r.state.proof THEN r.state.id ELSE None]
  OBVIOUS
<1>3. r.state # None => r.state \in State
  BY DEF Reply
<1>4. a \in Clients /\ a.th.fn = c.th.fn /\ a.journal = c.journal
  BY <1>1, AdoptFacts DEF Keeps
<1>5. d \in Clients /\ d.th = a.th /\ d.journal.seed = c.journal.seed
  BY <1>2, <1>3, <1>4 DEF Clients, Journal, State, MaybeSession
<1>6. CASE ~Completed(r.state)
  <2>1. PICK e : e = [d EXCEPT !.page = [@ EXCEPT !.status = StatusOf(r), !.failure = None]]
    OBVIOUS
  <2>2. e \in Clients /\ e.th = a.th /\ e.journal = d.journal
    BY <1>5, <2>1, StatusFacts DEF Clients, Page
  <2>3. HasKept(Return(e), s, x)
    BY <1>4, <1>5, <2>2, ReturnKeeps DEF Keeps
  <2>. QED  BY <1>1, <1>2, <1>6, <2>1, <2>3 DEF RecoveredSpin
<1>7. CASE Completed(r.state)
  <2>1. PICK e : e = [d EXCEPT !.page.outcome = r.state.id]
    OBVIOUS
  <2>2. r.state.id \in MaybeSession /\ r.state.score \in BOOLEAN
    BY <1>3, <1>7 DEF Completed, State, MaybeSession
  <2>3. e \in Clients /\ e.th = a.th /\ e.journal = d.journal
    BY <1>5, <2>1, <2>2 DEF Clients, Page
  <2>4. HasKept(AfterScore(e), s, x) /\ HasKept(SubmitFinalScore(e), s, x)
    BY <1>4, <1>5, <2>3, AfterScoreKeeps, SubmitFinalScoreKeeps DEF Keeps
  <2>. QED  BY <1>1, <1>2, <1>7, <2>1, <2>2, <2>4 DEF RecoveredSpin
<1>. QED  BY <1>6, <1>7

\* The card shows the choice to be resumed, if the state r names its session.
LEMMA RecoveredCardFacts ==
  ASSUME NEW c \in Clients, NEW r \in Reply
  PROVE  \E e : /\ RecoveredCard(c, r) = Conclude(e, r.state)
                /\ e \in Clients /\ e.th.fn = c.th.fn /\ e.th.choice = c.th.choice
                /\ e.page.choice = ResumedChoice(r.state, c.journal)
                /\ e.page.status = StatusOf(r)
                /\ (e.page.session = None <=> r.state = None)
                /\ (e.page.session # None => e.page.session.id = r.state.id)
                /\ (Active(e.page) <=> InProgress(r.state))
                /\ (~Completed(r.state) => e.page.outcome = None)
                /\ e.journal.choice = c.journal.choice
                /\ (InProgress(r.state) => e.journal.pending = c.journal.pending)
<1>1. PICK a : a = Adopt(c, r)
  OBVIOUS
<1>2. PICK choice : choice = ResumedChoice(r.state, c.journal)
  OBVIOUS
<1>3. PICK outcome : outcome = IF Completed(r.state) THEN r.state.id ELSE None
  OBVIOUS
<1>4. PICK pending : pending = IF r.state = None \/ InProgress(r.state) THEN c.journal.pending ELSE None
  OBVIOUS
<1>5. PICK pg : pg = [a.page EXCEPT !.choice = choice, !.status = StatusOf(r), !.outcome = outcome,
                                    !.failure = None]
  OBVIOUS
<1>6. PICK e : e = [a EXCEPT !.page = pg, !.journal.pending = pending]
  OBVIOUS
<1>7. r.state # None => r.state \in State
  BY DEF Reply
<1>8. choice \in MaybeAnswer
  BY <1>2 DEF ResumedChoice, MaybeAnswer, Clients, Journal
<1>9. outcome \in MaybeSession
  BY <1>3, <1>7 DEF Completed, State, MaybeSession
<1>10. /\ a \in Clients /\ a.journal = c.journal /\ a.th.fn = c.th.fn /\ a.th.choice = c.th.choice
       /\ (a.page.session = None <=> r.state = None)
       /\ (a.page.session # None => a.page.session.id = r.state.id)
       /\ (Active(a.page) <=> InProgress(r.state))
  BY <1>1, AdoptFacts
<1>11. /\ pg \in Page /\ pg.session = a.page.session /\ pg.choice = choice
       /\ pg.status = StatusOf(r) /\ pg.outcome = outcome
  BY <1>5, <1>8, <1>9, <1>10, StatusFacts DEF Clients, Page
<1>12. pending \in Request \cup {None, "create_session", "submit_score"}
  BY <1>4 DEF Clients, Journal
<1>13. /\ e \in Clients /\ e.page = pg /\ e.th = a.th /\ e.journal.choice = c.journal.choice
       /\ e.journal.pending = pending
  BY <1>6, <1>10, <1>11, <1>12 DEF Clients, Journal
<1>14. RecoveredCard(c, r) = Conclude(e, r.state)
  BY <1>1, <1>2, <1>3, <1>4, <1>5, <1>6 DEF RecoveredCard
<1>. QED  BY <1>2, <1>3, <1>4, <1>10, <1>11, <1>13, <1>14 DEF Active

LEMMA RecoveredCardKeeps ==
  ASSUME NEW c, NEW s, Keeps(c, s), NEW x, game = "card", NEW r \in Reply,
         r.state # None => r.state.id \in DOMAIN sessions
  PROVE  HasKept(RecoveredCard(c, r), s, x)
<1>1. PICK e : /\ RecoveredCard(c, r) = Conclude(e, r.state)
               /\ e \in Clients /\ e.th.fn = c.th.fn /\ e.th.choice = c.th.choice
               /\ (e.page.session = None <=> r.state = None)
               /\ (e.page.session # None => e.page.session.id = r.state.id)
  BY RecoveredCardFacts DEF Keeps
<1>2. Keeps(e, s)
  BY <1>1 DEF Keeps
<1>. QED  BY <1>1, <1>2, SubmitFinalScoreKeeps, ReturnKeeps DEF Conclude

LEMMA CreatedKeeps ==
  ASSUME NEW c, NEW s, Keeps(c, s), NEW x, game \in {"spin", "card"}, NEW id \in Sessions,
         game = "spin" => c.seed # None,
         game = "card" => id \in DOMAIN sessions /\ c.th.choice # None
                          /\ (~x => c.page.choice = c.th.choice)
  PROVE  HasKept(Created(c, id), s, x)
<1>1. PICK known : known = [id |-> id, status |-> "active", proof |-> FALSE]
  OBVIOUS
<1>2. PICK d : d = [c EXCEPT !.page.session = known]
  OBVIOUS
<1>3. known \in Known /\ known # None /\ known.id = id
  <2>1. known \in Known /\ known.id = id
    BY <1>1 DEF Known
  <2>. QED  BY <2>1, NoneAssumption
<1>4. /\ d \in Clients /\ d.th = c.th /\ d.journal = c.journal /\ d.seed = c.seed
      /\ d.page.session = known /\ d.page.choice = c.page.choice
  BY <1>2, <1>3 DEF Keeps, Clients, Page
<1>5. CASE game = "spin"
  <2>1. PICK e : e = [d EXCEPT !.journal.pending = "commit"]
    OBVIOUS
  <2>2. /\ e \in Clients /\ e.th = c.th /\ e.page = d.page /\ e.seed = c.seed
        /\ e.journal.seed = c.journal.seed
    BY <1>4, <2>1 DEF Clients, Journal, Request
  <2>3. Keeps(e, s) /\ e.page.session # None
    BY <1>3, <1>4, <1>5, <2>2 DEF Keeps
  <2>4. HasKept(Spin(e), s, x)
    BY <1>5, <2>2, <2>3, SpinKeeps
  <2>. QED  BY <1>1, <1>2, <1>5, <2>1, <2>4 DEF Created
<1>6. CASE game = "card"
  <2>1. PICK e : e = [d EXCEPT !.journal = [@ EXCEPT !.choice = c.th.choice, !.pending = "play"]]
    OBVIOUS
  <2>2. c.th.choice \in MaybeAnswer
    BY DEF Keeps, Clients, Thread
  <2>3. /\ e \in Clients /\ e.th = c.th /\ e.page = d.page
        /\ e.journal.choice = c.th.choice /\ e.journal.pending = "play"
    BY <1>4, <2>1, <2>2 DEF Clients, Journal, Request
  <2>4. PICK f : f = Await(e, "play", id, c.th.choice)
    OBVIOUS
  <2>5. "play" \in Request \cup Reads /\ id \in MaybeSession
    BY DEF Request, MaybeSession
  <2>6. /\ f \in Clients /\ f.page = d.page /\ f.journal = e.journal /\ f.th.fn = c.th.fn
        /\ f.th.at = "play" /\ f.th.session = id /\ f.th.answer = c.th.choice
        /\ f.th.choice = c.th.choice /\ f.th.reply = None
    BY <2>2, <2>3, <2>4, <2>5, AwaitFacts
  <2>7. Named(f.page, f.th)
    BY <1>3, <1>4, <1>6, <2>6 DEF Keeps, Named
  <2>8. ~x => Chosen(f.page, f.journal, f.th)
    BY <1>3, <1>4, <1>6, <2>3, <2>6 DEF Chosen
  <2>9. HasKept(f, s, x)
    BY <1>6, <2>6, <2>7, <2>8 DEF HasKept
  <2>. QED  BY <1>1, <1>2, <1>6, <2>1, <2>4, <2>9 DEF Created
<1>. QED  BY <1>5, <1>6

LEMMA PlayedKeeps ==
  ASSUME NEW c, NEW s, Keeps(c, s), NEW x, game \in {"spin", "card"}, NEW id \in MaybeSession
  PROVE  HasKept(Played(c, id), s, x)
<1>1. PICK d : d = [c EXCEPT !.page.outcome = id, !.journal.pending = "submit_score"]
  OBVIOUS
<1>2. /\ d \in Clients /\ d.th = c.th /\ d.page.session = c.page.session
      /\ d.journal.seed = c.journal.seed
  BY <1>1 DEF Keeps, Clients, Page, Journal
<1>3. CASE game = "spin"
  <2>1. Keeps(d, s)
    BY <1>2 DEF Keeps
  <2>. QED  BY <1>1, <1>3, <2>1, SubmitFinalScoreKeeps DEF Played
<1>4. CASE game = "card"
  <2>1. PICK e : e = [d EXCEPT !.page = [@ EXCEPT !.choice = None, !.status = "result", !.failure = None]]
    OBVIOUS
  <2>2. /\ e \in Clients /\ e.th = c.th /\ e.page.session = c.page.session
        /\ e.journal = d.journal
    BY <1>2, <2>1, ZenonT(60) DEF Clients, Page, MaybeAnswer
  <2>3. Keeps(e, s)
    BY <1>2, <2>2 DEF Keeps
  <2>4. HasKept(Await(e, "reward", None, None), s, x)
    BY <2>3, AwaitKeeps DEF Reads, AsksState, MaybeSession, MaybeAnswer
  <2>. QED  BY <1>1, <1>4, <2>1, <2>4 DEF Played
<1>. QED  BY <1>3, <1>4

LEMMA SubmittedKeeps ==
  ASSUME NEW c, NEW s, Keeps(c, s), NEW x, game \in {"spin", "card"}, NEW r \in Reply,
         c.th.fn # "idle"
  PROVE  HasKept(Submitted(c, r), s, x) /\ HasKept(Reread(c, r), s, x)
<1>1. r.id \in MaybeSession /\ r.code \in Code /\ (r.state # None => r.state.id \in MaybeSession)
  BY DEF Reply, State, MaybeSession
<1>2. \A code : HasKept(Throw(c, code), s, x)
  BY ThrowKeeps
<1>3. HasKept(Scored(c, r.id), s, x) /\ (r.state # None => HasKept(Scored(c, r.state.id), s, x))
  BY <1>1, ScoredKeeps
<1>4. PICK e : e = [c EXCEPT !.th.error = r.code]
  OBVIOUS
<1>5. /\ e \in Clients /\ e.page = c.page /\ e.journal = c.journal /\ e.th.fn = c.th.fn
      /\ e.th.choice = c.th.choice
  BY <1>1, <1>4 DEF Keeps, Clients, Thread
<1>6. HasKept(Await(e, "rescore", None, None), s, x)
  BY <1>5, AwaitKeeps DEF Keeps, Reads, AsksState, MaybeSession, MaybeAnswer
<1>7. HasKept(Submitted(c, r), s, x)
  BY <1>2, <1>3, <1>4, <1>6 DEF Submitted
<1>8. HasKept(Reread(c, r), s, x)
  BY <1>2, <1>3 DEF Reread
<1>. QED  BY <1>7, <1>8

\* The answer r is read, whatever was asked.
LEMMA ResumeKeeps ==
  ASSUME NEW c, NEW s, Keeps(c, s), NEW x, game \in {"spin", "card"}, NEW r \in Reply,
         c.th.fn # "idle", c.th.at # "idle",
         c.th.at = "create" /\ r.code = "ok" => r.id # None,
         c.th.at \in {"commit", "evaluate", "proof"} => game = "spin",
         game = "spin" => c.seed # None,
         game = "card" =>
           /\ c.th.at = "create" /\ r.code = "ok" => r.id \in DOMAIN sessions
           /\ c.th.at = "create" => c.th.choice # None
           /\ r.state # None => r.state.id \in DOMAIN sessions
           /\ ~x => Chosen(c.page, c.journal, c.th)
  PROVE  HasKept(Resume(c, r), s, x)
<1>1. r.id \in MaybeSession
  BY DEF Reply
<1>2. HasKept(Throw(c, r.code), s, x)
  BY ThrowKeeps
<1>3. CASE c.th.at = "score"
  BY <1>3, SubmittedKeeps DEF Resume
<1>4. CASE c.th.at = "rescore"
  BY <1>4, SubmittedKeeps DEF Resume
<1>5. CASE c.th.at \notin {"score", "rescore"} /\ r.code # "ok"
  BY <1>2, <1>5 DEF Resume
<1>6. CASE c.th.at = "recover" /\ r.code = "ok"
  <2>1. HasKept(Return(c), s, x)
    BY ReturnKeeps
  <2>2. HasKept(Recovered(c, r), s, x)
    BY RecoveredSpinKeeps, RecoveredCardKeeps DEF Recovered
  <2>. QED  BY <1>6, <2>1, <2>2 DEF Resume
<1>7. CASE c.th.at = "create" /\ r.code = "ok"
  <2>1. r.id \in Sessions
    BY <1>1, <1>7 DEF MaybeSession
  <2>2. game = "card" => c.th.choice # None /\ (~x => c.page.choice = c.th.choice)
    BY <1>7 DEF Chosen
  <2>. QED  BY <1>7, <2>1, <2>2, CreatedKeeps DEF Resume
<1>8. CASE c.th.at = "commit" /\ r.code = "ok"
  <2>1. PICK e : e = [c EXCEPT !.journal.commitment = r.id]
    OBVIOUS
  <2>2. /\ e \in Clients /\ e.page = c.page /\ e.th = c.th /\ e.seed = c.seed
        /\ e.journal.seed = c.journal.seed
    BY <1>1, <2>1 DEF Keeps, Clients, Journal
  <2>3. Keeps(e, s)
    BY <2>2 DEF Keeps
  <2>4. HasKept(Evaluate(e, r.id), s, x)
    BY <1>1, <1>8, <2>2, <2>3, EvaluateKeeps
  <2>. QED  BY <1>8, <2>1, <2>4 DEF Resume
<1>9. CASE c.th.at \in {"play", "evaluate"} /\ r.code = "ok"
  BY <1>1, <1>9, PlayedKeeps DEF Resume
<1>10. CASE c.th.at = "reward" /\ r.code = "ok"
  BY <1>10, SubmitFinalScoreKeeps DEF Resume
<1>11. CASE c.th.at = "proof" /\ r.code = "ok"
  <2>1. PICK e : e = [c EXCEPT !.journal.pending = None]
    OBVIOUS
  <2>2. /\ e \in Clients /\ e.page = c.page /\ e.th = c.th /\ e.journal.seed = c.journal.seed
    BY <2>1 DEF Keeps, Clients, Journal
  <2>3. Keeps(e, s)
    BY <2>2 DEF Keeps
  <2>. QED  BY <1>11, <2>1, <2>3, AfterScoreKeeps DEF Resume
<1>12. c.th.at \in Request \cup Reads
  BY DEF Keeps, Clients, Thread
<1>. QED
  BY <1>3, <1>4, <1>5, <1>6, <1>7, <1>8, <1>9, <1>10, <1>11, <1>12 DEF Request, Reads, AsksState

------------------------------------------------------------------------------
(***************************************************************************)
(* A client Follows a play x that is on its way to a session that is not   *)
(* over: it keeps to the choice of x until it knows what became of it.     *)
(***************************************************************************)
Follows(c, x) == Agrees(c.page, c.journal, x) /\ Heeds(c.th, x)

LEMMA IdleHeeds ==
  ASSUME NEW x
  PROVE  Heeds(Idle, x)
BY DEF Idle, Heeds

LEMMA RecoverFollows ==
  ASSUME NEW c \in Clients, NEW fn \in Functions \cup {"countdown"}, NEW x,
         Agrees(c.page, c.journal, x), fn \in {"resume", "action"} => c.th.choice = x.answer
  PROVE  Follows(Recover(c, fn), x)
<1>1. PICK d : d = Recover(c, fn)
  OBVIOUS
<1>2. /\ d.journal = c.journal /\ d.page.session = c.page.session /\ d.page.choice = c.page.choice
      /\ d.page.status = "recovering"
      /\ d.th.fn = fn /\ d.th.at = "recover" /\ d.th.reply = None /\ d.th.choice = c.th.choice
  BY <1>1, RecoverFacts
<1>3. Follows(d, x)
  BY <1>2 DEF Follows, Agrees, Heeds
<1>. QED  BY <1>1, <1>3

LEMMA ThrowFollows ==
  ASSUME NEW c \in Clients, NEW x, Agrees(c.page, c.journal, x), NEW code, c.th.fn # "idle"
  PROVE  Follows(Throw(c, code), x)
<1>1. PICK free : free = [c EXCEPT !.th = Idle, !.page.busy = FALSE]
  OBVIOUS
<1>2. PICK done : done = [c EXCEPT !.th = Idle,
                                   !.page.failure = IF @ = "told" THEN @ ELSE "unheard"]
  OBVIOUS
<1>3. PICK caught : caught = [c EXCEPT !.cancels = game = "spin",
                                       !.page = [@ EXCEPT
                           !.status = IF code = "session_expired" THEN "expired" ELSE "recovering",
                           !.failure = "told"]]
  OBVIOUS
<1>4. PICK failed : failed = [caught EXCEPT !.th = Idle, !.page.busy = FALSE]
  OBVIOUS
<1>5. /\ free \in Clients /\ free.th = Idle /\ free.journal = c.journal
      /\ free.page.session = c.page.session /\ free.page.choice = c.page.choice
      /\ free.page.status = c.page.status
  BY <1>1, IdleType DEF Clients, Page
<1>6. /\ done.th = Idle /\ done.journal = c.journal
      /\ done.page.session = c.page.session /\ done.page.choice = c.page.choice
      /\ done.page.status = c.page.status
  BY <1>2, IdleType DEF Clients, Page
<1>7. /\ caught \in Clients /\ caught.journal = c.journal
      /\ caught.page.session = c.page.session /\ caught.page.choice = c.page.choice
      /\ caught.page.status \in {"expired", "recovering"}
  BY <1>3, ZenonT(60) DEF Clients, Page
<1>8. /\ failed.th = Idle /\ failed.journal = c.journal
      /\ failed.page.session = c.page.session /\ failed.page.choice = c.page.choice
      /\ failed.page.status \in {"expired", "recovering"}
  BY <1>4, <1>7 DEF Clients, Page
<1>9. Follows(free, x) /\ Follows(done, x) /\ Follows(failed, x)
  BY <1>5, <1>6, <1>8, IdleHeeds DEF Follows, Agrees
<1>10. Follows(Recover(caught, "caught"), x)
  <2>1. Agrees(caught.page, caught.journal, x)
    BY <1>7 DEF Agrees
  <2>. QED  BY <1>7, <2>1, RecoverFollows DEF Functions
<1>11. \A status \in {"terminal_error", "recovering"} :
         Follows([free EXCEPT !.page = [@ EXCEPT !.status = status, !.failure = "told"]], x)
  <2>1. TAKE status \in {"terminal_error", "recovering"}
  <2>2. PICK e : e = [free EXCEPT !.page = [@ EXCEPT !.status = status, !.failure = "told"]]
    OBVIOUS
  <2>3. /\ e.th = Idle /\ e.journal = c.journal
        /\ e.page.session = c.page.session /\ e.page.choice = c.page.choice
        /\ e.page.status = status
    BY <1>5, <2>2 DEF Clients, Page
  <2>4. Follows(e, x)
    BY <2>3, IdleHeeds DEF Follows, Agrees
  <2>. QED  BY <2>2, <2>4
<1>12. c.th.fn \in {"load", "action", "caught", "resume", "countdown"}
  BY DEF Clients, Thread
<1>13. CASE c.th.fn = "countdown"
  BY <1>2, <1>9, <1>13 DEF Throw
<1>14. CASE c.th.fn = "caught"
  BY <1>1, <1>9, <1>14 DEF Throw
<1>15. CASE c.th.fn \in {"load", "resume"}
  BY <1>1, <1>11, <1>15 DEF Throw
<1>16. CASE c.th.fn = "action"
  BY <1>3, <1>4, <1>9, <1>10, <1>16 DEF Throw
<1>. QED  BY <1>12, <1>13, <1>14, <1>15, <1>16

LEMMA RecoveredCardFollows ==
  ASSUME NEW c \in Clients, NEW x, Follows(c, x), NEW r \in Reply, c.th.fn \notin {"idle", "action"},
         r.state # None, r.state.id = x.session, r.state.status = "active", game = "card"
  PROVE  Follows(RecoveredCard(c, r), x)
<1>1. InProgress(r.state) /\ ~Completed(r.state)
  BY DEF InProgress, Completed
<1>2. PICK e : /\ RecoveredCard(c, r) = Conclude(e, r.state)
               /\ e \in Clients /\ e.th.fn = c.th.fn /\ e.th.choice = c.th.choice
               /\ e.page.choice = ResumedChoice(r.state, c.journal)
               /\ e.page.session # None /\ e.page.session.id = r.state.id
               /\ Active(e.page)
               /\ e.page.outcome = None
               /\ e.journal.choice = c.journal.choice
               /\ e.journal.pending = c.journal.pending
  BY <1>1, RecoveredCardFacts
<1>3. e.page.choice = x.answer
  BY <1>2 DEF ResumedChoice, Follows, Agrees
<1>4. Agrees(e.page, e.journal, x)
  BY <1>2, <1>3 DEF Follows, Agrees
<1>5. RecoveredCard(c, r) = Return(e)
  BY <1>1, <1>2 DEF Conclude
<1>6. PICK done : done = [e EXCEPT !.th = Idle]
  OBVIOUS
<1>7. PICK free : free = [done EXCEPT !.page.busy = FALSE]
  OBVIOUS
<1>8. done \in Clients /\ done.th = Idle /\ done.journal = e.journal /\ done.page = e.page
  BY <1>2, <1>6, IdleType DEF Clients
<1>9. /\ free.th = Idle /\ free.journal = e.journal
      /\ free.page.session = e.page.session /\ free.page.choice = e.page.choice
  BY <1>7, <1>8 DEF Clients, Page
<1>10. Follows(done, x) /\ Follows(free, x)
  BY <1>3, <1>4, <1>8, <1>9, IdleHeeds DEF Follows, Agrees
<1>11. CASE c.th.fn = "resume"
  <2>1. PICK d : d = PlayChoice(e, e.th.choice)
    OBVIOUS
  <2>2. PICK v : v = e.th.choice
    OBVIOUS
  <2>3. v = x.answer /\ v \in MaybeAnswer
    BY <1>2, <1>11, <2>2 DEF Follows, Heeds, Clients, Thread
  <2>4. /\ d.th.reply = None /\ d.journal.choice = v /\ d.journal.pending = "play"
        /\ d.page.choice = v /\ d.page.session = e.page.session
        /\ d.th.fn = "action" /\ d.th.at = "play" /\ d.th.choice = v
    BY <1>2, <2>1, <2>2, <2>3, PlayChoiceFacts
  <2>5. Follows(d, x)
    BY <1>2, <2>3, <2>4 DEF Follows, Agrees, Heeds
  <2>6. Return(e) = d
    BY <1>2, <1>11, <2>1 DEF Return
  <2>. QED  BY <1>5, <2>5, <2>6
<1>12. CASE c.th.fn # "resume"
  <2>1. Return(e) \in {done, free}
    BY <1>2, <1>6, <1>7, <1>12 DEF Return
  <2>. QED  BY <1>5, <1>10, <2>1
<1>. QED  BY <1>11, <1>12

LEMMA ResumeFollows ==
  ASSUME NEW c \in Clients, NEW x, Follows(c, x), c.th.reply # None, ~c.th.stale,
         c.th.fn # "idle", c.th.at # "idle", c.th.fn = "action" => c.th.at # "recover",
         ~(c.th.at = "create" /\ c.th.reply.code = "ok"), game = "card"
  PROVE  Follows(Resume(c, c.th.reply), x)
<1>1. PICK r \in Reply : r = c.th.reply
  BY DEF Clients, Thread
<1>2. c.th.at \in {"recover", "create", "play"}
  BY DEF Follows, Heeds
<1>3. CASE r.code # "ok"
  <2>1. Resume(c, r) = Throw(c, r.code)
    BY <1>2, <1>3 DEF Resume
  <2>. QED  BY <1>1, <2>1, ThrowFollows DEF Follows
<1>4. CASE r.code = "ok"
  <2>1. /\ c.th.at = "recover" /\ r.state # None /\ r.state.id = x.session
        /\ r.state.status = "active"
    BY <1>1, <1>2, <1>4 DEF Follows, Heeds
  <2>2. Resume(c, r) = RecoveredCard(c, r)
    BY <1>4, <2>1 DEF Resume, Recovered
  <2>. QED  BY <1>1, <2>1, <2>2, RecoveredCardFollows
<1>. QED  BY <1>3, <1>4

------------------------------------------------------------------------------
(***************************************************************************)
(* The steps of the page keep AnswerInv.                                   *)
(***************************************************************************)
LEMMA RunSeed ==
  ASSUME PageInv, SeedInv, NEW t \in Threads, NEW d, Run(t, d), UNCHANGED late,
         game \in {"spin", "card"}, HasKept(d, journal.seed, crossed')
  PROVE  SeedInv'
<1>. SUFFICES ASSUME game = "spin"
              PROVE  /\ \A l \in late : Drawn(l, journal')
                     /\ \A u \in Threads : Drawn(thread'[u], journal') /\ thread'[u].fn # "resume"
  BY DEF SeedInv, Drawn, Run
<1>1. journal' = d.journal /\ thread'[t] = d.th
  BY DEF Run
<1>2. \A l \in late : Drawn(l, journal')
  BY <1>1 DEF SeedInv, Drawn, HasKept
<1>3. ASSUME NEW u \in Threads
      PROVE  Drawn(thread'[u], journal') /\ thread'[u].fn # "resume"
  <2>1. CASE u = t
    BY <1>1, <2>1 DEF HasKept
  <2>2. CASE u # t
    <3>1. /\ thread'[u].fn = thread[u].fn /\ thread'[u].at = thread[u].at
          /\ thread'[u].answer = thread[u].answer
      BY <2>2, OtherThread
    <3>. QED  BY <1>1, <3>1 DEF SeedInv, Drawn, HasKept
  <2>. QED  BY <2>1, <2>2
<1>. QED  BY <1>2, <1>3

\* What is on its way to an open session after t has run: what was, and what t asks.
LEMMA RunLive ==
  ASSUME PageInv, NEW t \in Threads, NEW d, Run(t, d), UNCHANGED <<serverVars, late>>,
         ~crossed', NEW x \in Live'
  PROVE  \/ x \in Live /\ x \in late
         \/ /\ d.th.at \in {"play", "evaluate"}
            /\ x.at = d.th.at /\ x.session = d.th.session /\ x.answer = d.th.answer
<1>1. x \in late \/ x \in Given(Threads)'
  BY DEF Live, OnTheirWay
<1>2. x.at \in {"play", "evaluate"} /\ sessions[x.session].status = "active"
  BY DEF Live, OnTheirWay, Open, serverVars
<1>3. CASE x \in late
  BY <1>2, <1>3 DEF Live, OnTheirWay, Open
<1>4. CASE x \in Given(Threads)'
  <2>1. PICK u \in Threads : /\ thread'[u].at # "idle"
                             /\ x = [at |-> thread'[u].at, session |-> thread'[u].session,
                                     answer |-> thread'[u].answer]
    BY <1>4 DEF Given, Unanswered
  <2>2. u = t
    BY <2>1, OtherThread, IdleType
  <2>3. thread'[t] = d.th
    BY DEF Run
  <2>. QED  BY <1>2, <2>1, <2>2, <2>3
<1>. QED  BY <1>1, <1>3, <1>4

LEMMA RunChoice ==
  ASSUME PageInv, ChoiceInv, NEW t \in Threads, NEW d, Run(t, d), UNCHANGED <<serverVars, late>>,
         game \in {"spin", "card"}, HasKept(d, journal.seed, crossed'), AtWork(t, d.th),
         game = "card" /\ ~crossed' => \A x \in Live : x \in late => Follows(d, x)
  PROVE  ChoiceInv'
<1>1. /\ page' = d.page /\ journal' = d.journal /\ thread'[t] = d.th /\ game' = game
      /\ sessions' = sessions /\ late' = late
  BY DEF Run, serverVars
<1>. SUFFICES ASSUME game = "card" PROVE ChoiceInv'
  BY <1>1 DEF ChoiceInv
<1>2. d.th.reply = None /\ Named(d.page, d.th) /\ (~crossed' => Chosen(d.page, d.journal, d.th))
  BY DEF HasKept
<1>3. \A l \in late : GivenUp(l)
  BY DEF ChoiceInv
<1>4. ASSUME NEW u \in Threads
      PROVE  Named(page', thread'[u]) /\ Replied(thread'[u])
  <2>1. CASE u = t
    BY <1>1, <1>2, <2>1 DEF Replied
  <2>2. CASE u # t
    <3>1. /\ thread'[u].fn = thread[u].fn /\ thread'[u].at = thread[u].at
          /\ thread'[u].reply = thread[u].reply /\ thread'[u].session = thread[u].session
          /\ thread'[u].answer = thread[u].answer /\ thread'[u].choice = thread[u].choice
      BY <2>2, OtherThread
    <3>. QED  BY <1>1, <1>2, <3>1 DEF ChoiceInv, Named, Replied
  <2>. QED  BY <2>1, <2>2
<1>5. ASSUME ~crossed', NEW u \in Threads
      PROVE  Chosen(page', journal', thread'[u])
  <2>1. CASE u = t
    BY <1>1, <1>2, <1>5, <2>1
  <2>2. CASE u # t
    <3>1. thread'[u].at = "idle"
      BY <1>5, <2>2, OtherThread, IdleType
    <3>. QED  BY <3>1 DEF Chosen
  <2>. QED  BY <2>1, <2>2
<1>6. ASSUME ~crossed', NEW x \in Live'
      PROVE  /\ Agrees(page', journal', x)
             /\ \A u \in Threads : Heeds(thread'[u], x) /\ thread'[u].reply = None
  <2>1. Follows(d, x)
    <3>1. CASE x \in Live /\ x \in late
      BY <1>6, <3>1
    <3>2. CASE /\ d.th.at \in {"play", "evaluate"}
               /\ x.at = d.th.at /\ x.session = d.th.session /\ x.answer = d.th.answer
      <4>1. d.th.at = "play"
        BY <3>2 DEF AtWork
      <4>2. Agrees(d.page, d.journal, x)
        BY <1>2, <1>6, <3>2, <4>1 DEF Chosen, Agrees
      <4>3. Heeds(d.th, x)
        BY <1>2, <1>6, <3>2, <4>1 DEF Chosen, Heeds
      <4>. QED  BY <4>2, <4>3 DEF Follows
    <3>. QED  BY <1>6, <3>1, <3>2, RunLive
  <2>2. \A u \in Threads : Heeds(thread'[u], x) /\ thread'[u].reply = None
    <3>1. Heeds(Idle, x) /\ Idle.reply = None
      BY IdleHeeds DEF Idle
    <3>2. \A u \in Threads : u # t => thread'[u] = Idle
      BY <1>6, OtherThread
    <3>. QED  BY <1>1, <1>2, <2>1, <3>1, <3>2 DEF Follows
  <2>. QED  BY <1>1, <2>1, <2>2 DEF Follows
<1>7. (\A l \in late : GivenUp(l))'
  BY <1>1, <1>3 DEF GivenUp
<1>8. (\A u \in Threads : Named(page, thread[u]) /\ Replied(thread[u]))'
  BY <1>1, <1>4 DEF Named, Replied
<1>9. (~crossed => \A u \in Threads : Chosen(page, journal, thread[u]))'
  BY <1>5 DEF Chosen
<1>10. (~crossed => \A x \in Live : /\ Agrees(page, journal, x)
                                    /\ \A u \in Threads :
                                         /\ Heeds(thread[u], x)
                                         /\ ~(thread[u].at = "create" /\ thread[u].reply # None
                                                /\ thread[u].reply.code = "ok"))'
  BY <1>6 DEF Agrees, Heeds
<1>. QED  BY <1>7, <1>8, <1>9, <1>10 DEF ChoiceInv

LEMMA RunAnswered ==
  ASSUME PageInv, PageInv', AnswerInv, NEW t \in Threads, NEW d, Run(t, d),
         UNCHANGED <<serverVars, late>>, game \in {"spin", "card"},
         HasKept(d, journal.seed, crossed'),
         game = "card" /\ ~crossed' => \A x \in Live : x \in late => Follows(d, x)
  PROVE  AnswerInv'
<1>1. AtWork(t, d.th)
  <2>1. thread'[t] = d.th /\ game' = game
    BY DEF Run
  <2>2. AtWork(t, thread[t])'
    BY DEF PageInv
  <2>. QED  BY <2>1, <2>2 DEF AtWork
<1>. QED  BY <1>1, RunSeed, RunChoice DEF AnswerInv

LEMMA SkillAnswers ==
  ASSUME game = "skill", game' = game
  PROVE  AnswerInv'
BY DEF AnswerInv, SeedInv, ChoiceInv

\* What a function meets of AnswerInv.
LEMMA ClientKeeps ==
  ASSUME PageInv, AnswerInv, NEW t \in Threads, NEW c \in Clients, c.th = thread[t],
         c.page.session = page.session, c.journal = journal
  PROVE  Keeps(c, journal.seed)
BY DEF AnswerInv, SeedInv, ChoiceInv, Named, Keeps

LEMMA ContinueAnswers ==
  ASSUME PageInv, PageInv', AnswerInv, NEW t \in Threads, Continue(t), game \in {"spin", "card"}
  PROVE  AnswerInv'
<1>1. PICK seed \in IF game = "spin" THEN Answers ELSE {None} :
        Run(t, Resume(Client(t, seed), thread[t].reply))
  BY DEF Continue
<1>2. PICK c : c = Client(t, seed)
  OBVIOUS
<1>3. PICK x \in BOOLEAN : x = crossed' /\ (crossed => x)
  BY <1>1, RunCrosses
<1>4. seed \in MaybeAnswer /\ (game = "spin" => seed # None)
  BY <1>1, NoneIsNot DEF MaybeAnswer
<1>5. c \in Clients
  BY <1>2, <1>3, <1>4, ClientRuns
<1>6. /\ c.page = page /\ c.journal = journal /\ c.th = thread[t] /\ c.seed = seed
  BY <1>2 DEF Client
<1>7. PICK r : r = thread[t].reply
  OBVIOUS
<1>8. r # None /\ thread[t] # Idle
  BY <1>7 DEF Continue, Idle
<1>9. r \in Reply /\ thread[t].fn # "idle" /\ thread[t].at # "idle"
  BY <1>7, <1>8, ThreadFacts DEF Thread
<1>10. AtWork(t, thread[t]) /\ (~crossed => ~thread[t].stale)
  BY DEF PageInv, Counts
<1>11. Keeps(c, journal.seed)
  BY <1>5, <1>6, ClientKeeps
<1>12. PICK d : d = Resume(c, r)
  OBVIOUS
<1>13. HasKept(d, journal.seed, x)
  <2>1. game = "card" =>
          /\ c.th.at = "create" /\ r.code = "ok" => r.id \in DOMAIN sessions
          /\ c.th.at = "create" => c.th.choice # None
          /\ r.state # None => r.state.id \in DOMAIN sessions
          /\ ~x => Chosen(c.page, c.journal, c.th)
    BY <1>3, <1>6, <1>7, <1>8 DEF AnswerInv, ChoiceInv, Named, Replied
  <2>2. c.th.at = "create" /\ r.code = "ok" => r.id # None
    BY <1>6, <1>7, <1>8, <1>10 DEF AtWork
  <2>3. c.th.at \in {"commit", "evaluate", "proof"} => game = "spin"
    BY <1>6, <1>10 DEF AtWork
  <2>. QED  BY <1>4, <1>6, <1>9, <1>11, <1>12, <2>1, <2>2, <2>3, ResumeKeeps
<1>14. ASSUME game = "card", ~crossed', NEW y \in Live
       PROVE  Follows(d, y)
  <2>1. /\ Agrees(page, journal, y) /\ Heeds(thread[t], y)
        /\ ~(thread[t].at = "create" /\ thread[t].reply # None /\ thread[t].reply.code = "ok")
    BY <1>3, <1>14 DEF AnswerInv, ChoiceInv
  <2>2. Follows(c, y)
    BY <1>6, <2>1 DEF Follows
  <2>3. c.th.fn = "action" => c.th.at # "recover"
    BY <1>6, <1>10 DEF AtWork
  <2>4. Follows(Resume(c, c.th.reply), y)
    BY <1>3, <1>5, <1>6, <1>7, <1>8, <1>9, <1>10, <1>14, <2>1, <2>2, <2>3, ResumeFollows
  <2>. QED  BY <1>6, <1>7, <1>12, <2>4
<1>15. Run(t, d) /\ UNCHANGED <<serverVars, late>>
  BY <1>1, <1>2, <1>7, <1>12 DEF Continue
<1>. QED  BY <1>3, <1>13, <1>14, <1>15, RunAnswered

LEMMA SpinClickedAnswers ==
  ASSUME PageInv, PageInv', AnswerInv, NEW seed \in Answers, SpinClicked(seed)
  PROVE  AnswerInv'
<1>0. PICK p : p = Press(Client("main", seed))
  OBVIOUS
<1>1. PICK c : c = [p EXCEPT !.page.failure = None]
  OBVIOUS
<1>2. seed \in MaybeAnswer /\ seed # None /\ ~page.busy /\ game = "spin" /\ "main" \in Threads
  BY NoneIsNot DEF MaybeAnswer, SpinClicked, Threads
<1>3. PICK x \in BOOLEAN : x = crossed'
  BY RunCrosses DEF SpinClicked, Click
<1>4. /\ c \in Clients /\ c.journal = journal /\ c.seed = seed /\ c.page.session = page.session
      /\ c.th = [Idle EXCEPT !.fn = "action"]
  <2>1. /\ p \in Clients /\ p.journal = journal /\ p.seed = seed /\ p.page.session = page.session
        /\ p.th = [Idle EXCEPT !.fn = "action"]
    BY <1>0, <1>2, <1>3, PressRuns
  <2>2. /\ c \in Clients /\ c.th = p.th /\ c.page.session = p.page.session
        /\ c.journal = p.journal /\ c.seed = p.seed
    BY <1>1, <2>1 DEF Clients, Page
  <2>. QED  BY <2>1, <2>2
<1>5. c.th.fn = "action"
  BY <1>4 DEF Idle
<1>6. PICK e : e = [c EXCEPT !.cancels = TRUE]
  OBVIOUS
<1>7. e \in Clients /\ e.th = c.th /\ e.journal = c.journal
  BY <1>4, <1>6 DEF Clients
<1>8. Keeps(c, journal.seed) /\ Keeps(e, journal.seed)
  BY <1>2, <1>4, <1>5, <1>7 DEF Keeps
<1>9. PICK d : d = IF Active(page) THEN Spin(c) ELSE Create(e)
  OBVIOUS
<1>10. HasKept(d, journal.seed, x)
  <2>1. Active(page) => HasKept(Spin(c), journal.seed, x)
    BY <1>2, <1>4, <1>8, SpinKeeps DEF Active
  <2>2. HasKept(Create(e), journal.seed, x)
    BY <1>2, <1>8, CreateKeeps
  <2>. QED  BY <1>9, <2>1, <2>2
<1>11. Run("main", d) /\ UNCHANGED <<serverVars, late>>
  BY <1>0, <1>1, <1>6, <1>9 DEF SpinClicked, Click
<1>. QED  BY <1>2, <1>3, <1>10, <1>11, RunAnswered

\* A choice is offered only while none is under way.
LEMMA ChooseAnswers ==
  ASSUME PageInv, PageInv', AnswerInv, NEW v \in Answers, Choose(v)
  PROVE  AnswerInv'
<1>1. PICK c : c = Client("main", None)
  OBVIOUS
<1>2. PICK x \in BOOLEAN : x = crossed' /\ (crossed => x)
  BY RunCrosses DEF Choose, Click
<1>3. /\ None \in MaybeAnswer /\ "main" \in Threads /\ game = "card"
      /\ page.choice = None /\ Offered
  BY DEF MaybeAnswer, Threads, Choose, CanChoose
<1>4. c \in Clients /\ c.page = page /\ c.journal = journal /\ c.th = thread["main"]
  <2>1. c \in Clients
    BY <1>1, <1>2, <1>3, ClientRuns
  <2>. QED  BY <1>1, <2>1 DEF Client
<1>5. PICK d : d = PlayChoice(c, v)
  OBVIOUS
<1>6. HasKept(d, journal.seed, x)
  BY <1>3, <1>4, <1>5, ClientKeeps, PlayChoiceKeeps
<1>7. ~crossed' => Live = {}
  BY <1>2, <1>3 DEF AnswerInv, ChoiceInv, Agrees, Offered
<1>8. Run("main", d) /\ UNCHANGED <<serverVars, late>>
  BY <1>1, <1>5 DEF Choose, Click
<1>. QED  BY <1>2, <1>3, <1>6, <1>7, <1>8, RunAnswered

LEMMA ResumeClickedAnswers ==
  ASSUME PageInv, PageInv', AnswerInv, ResumeClicked
  PROVE  AnswerInv'
<1>1. PICK c : c = Client("main", None)
  OBVIOUS
<1>2. PICK x \in BOOLEAN : x = crossed' /\ (crossed => x)
  BY RunCrosses DEF ResumeClicked, Click
<1>3. /\ None \in MaybeAnswer /\ "main" \in Threads /\ game = "card"
      /\ page.choice # None /\ page.choice \in MaybeAnswer
  BY DEF MaybeAnswer, Threads, ResumeClicked, HasPendingChoice, PageInv, Types, Page
<1>4. c \in Clients /\ c.page = page /\ c.journal = journal
  <2>1. c \in Clients
    BY <1>1, <1>2, <1>3, ClientRuns
  <2>. QED  BY <1>1, <2>1 DEF Client
<1>5. PICK e : e = [c EXCEPT !.page.busy = TRUE, !.th.choice = page.choice]
  OBVIOUS
<1>6. /\ e \in Clients /\ e.journal = journal /\ e.th.choice = page.choice
      /\ e.page.session = page.session /\ e.page.choice = page.choice
      /\ e.page.status = page.status
  BY <1>3, <1>4, <1>5, ZenonT(60) DEF Clients, Page, Thread
<1>7. PICK d : d = Recover(e, "resume")
  OBVIOUS
<1>8. HasKept(d, journal.seed, x)
  <2>1. Keeps(e, journal.seed)
    BY <1>3, <1>6 DEF Keeps, AnswerInv, ChoiceInv, Named
  <2>. QED  BY <1>3, <1>6, <1>7, <2>1, RecoverKeeps
<1>9. ASSUME ~crossed', NEW y \in Live
      PROVE  Follows(d, y)
  <2>1. Agrees(page, journal, y)
    BY <1>2, <1>3, <1>9 DEF AnswerInv, ChoiceInv
  <2>2. Agrees(e.page, e.journal, y) /\ e.th.choice = y.answer
    BY <1>3, <1>6, <2>1 DEF Agrees
  <2>. QED  BY <1>6, <1>7, <2>2, RecoverFollows DEF Functions
<1>10. Run("main", d) /\ UNCHANGED <<serverVars, late>>
  BY <1>1, <1>5, <1>7 DEF ResumeClicked, Click
<1>. QED  BY <1>2, <1>3, <1>8, <1>9, <1>10, RunAnswered

LEMMA CountdownEndsAnswers ==
  ASSUME PageInv, PageInv', AnswerInv, CountdownEnds, game \in {"spin", "card"}
  PROVE  AnswerInv'
<1>1. PICK c : c = Client("timer", None)
  OBVIOUS
<1>2. PICK x \in BOOLEAN : x = crossed' /\ (crossed => x)
  BY RunCrosses DEF CountdownEnds
<1>3. None \in MaybeAnswer /\ "timer" \in Threads
  BY DEF MaybeAnswer, Threads
<1>4. c \in Clients /\ c.page = page /\ c.journal = journal /\ c.th = thread["timer"]
  <2>1. c \in Clients
    BY <1>1, <1>2, <1>3, ClientRuns
  <2>. QED  BY <1>1, <2>1 DEF Client
<1>5. PICK d : d = Recover(c, "countdown")
  OBVIOUS
<1>6. HasKept(d, journal.seed, x)
  BY <1>3, <1>4, <1>5, ClientKeeps, RecoverKeeps
<1>7. ASSUME game = "card", ~crossed', NEW y \in Live
      PROVE  Follows(d, y)
  <2>1. Agrees(c.page, c.journal, y)
    BY <1>2, <1>4, <1>7 DEF AnswerInv, ChoiceInv
  <2>. QED  BY <1>4, <1>5, <2>1, RecoverFollows
<1>8. Run("timer", d) /\ UNCHANGED <<serverVars, late>>
  BY <1>1, <1>5 DEF CountdownEnds
<1>. QED  BY <1>2, <1>3, <1>6, <1>7, <1>8, RunAnswered

LEMMA PreviewEndsAnswers ==
  ASSUME PageInv, AnswerInv, PreviewEnds
  PROVE  AnswerInv'
<1>1. PICK pg : pg = [page EXCEPT !.phase = "input", !.preview = FALSE, !.failure = None]
  OBVIOUS
<1>2. pg.session = page.session /\ pg.choice = page.choice /\ pg.status = page.status
  BY <1>1 DEF PageInv, Types, Page
<1>3. page' = pg /\ UNCHANGED <<serverVars, game, late, journal, thread, crossed>>
  BY <1>1 DEF PreviewEnds
<1>4. Live' = Live
  BY <1>3 DEF Live, OnTheirWay, Open, Given, Unanswered, serverVars
<1>5. SeedInv'
  BY <1>3 DEF AnswerInv, SeedInv, Drawn
<1>6. ChoiceInv'
  BY <1>2, <1>3, <1>4 DEF AnswerInv, ChoiceInv, Named, Replied, GivenUp, Chosen, Agrees, Heeds, serverVars
<1>. QED  BY <1>5, <1>6 DEF AnswerInv

------------------------------------------------------------------------------
(***************************************************************************)
(* The steps of the server and the network keep AnswerInv: no session of   *)
(* those there are becomes active again.                                   *)
(***************************************************************************)
Shrinks(S) ==
  /\ DOMAIN sessions \subseteq DOMAIN S
  /\ \A s \in DOMAIN sessions : S[s].status = "active" => sessions[s].status = "active"

LEMMA SameShrinks == Shrinks(sessions)
BY DEF Shrinks

LEMMA ChangedShrinks ==
  ASSUME WellFormed(sessions, cooling), NEW s, NEW v,
         s \in DOMAIN sessions /\ v.status = "active" => sessions[s].status = "active"
  PROVE  Shrinks([sessions EXCEPT ![s] = v])
<1>1. PICK S : S = [sessions EXCEPT ![s] = v]
  OBVIOUS
<1>2. sessions = [i \in 1 .. Len(sessions) |-> sessions[i]] /\ DOMAIN sessions = 1 .. Len(sessions)
  BY DEF WellFormed
<1>3. S = [i \in 1 .. Len(sessions) |-> IF i = s THEN v ELSE sessions[i]]
  BY <1>1, <1>2
<1>4. Shrinks(S)
  BY <1>2, <1>3 DEF Shrinks
<1>. QED  BY <1>1, <1>4

LEMMA FinalizedShrinks ==
  ASSUME WellFormed(sessions, cooling), NEW s
  PROVE  Shrinks(Finalized(s))
<1>1. PICK v : v = [sessions[s] EXCEPT !.status = "expired"]
  OBVIOUS
<1>2. s \in DOMAIN sessions => v.status = "expired"
  <2>1. s \in DOMAIN sessions => sessions[s] \in SessionRecord
    BY DEF WellFormed
  <2>. QED  BY <1>1, <2>1 DEF SessionRecord
<1>3. PICK T : T = [sessions EXCEPT ![s] = v]
  OBVIOUS
<1>4. Shrinks(T)
  BY <1>2, <1>3, ChangedShrinks
<1>5. Finalized(s) = T \/ Finalized(s) = sessions
  BY <1>1, <1>3 DEF Finalized
<1>. QED  BY <1>4, <1>5, SameShrinks

\* A call that is served tells what became of the sessions there were.
Tells(e, at, s) ==
  /\ Shrinks(e.sessions)
  /\ at = "create" /\ e.code = "ok" =>
       /\ e.id \in DOMAIN e.sessions
       /\ \A i \in DOMAIN sessions : e.sessions[i].status # "active"
  /\ at = "play" /\ e.code = "ok" /\ s \in DOMAIN sessions => e.sessions[s].status # "active"
  /\ at \in AsksState =>
       LET r == Recoverable(e.sessions) IN
       /\ r # None => r.id \in DOMAIN e.sessions
       /\ \A i \in DOMAIN sessions : e.sessions[i].status = "active" =>
            r # None /\ r.id = i /\ r.status = "active"

LEMMA RefuseTells ==
  ASSUME NEW code, NEW at, NEW s, at \notin AsksState, code # "ok"
  PROVE  Tells(Refuse(code), at, s)
BY SameShrinks DEF Tells, Refuse

LEMMA ElapsedTells ==
  ASSUME WellFormed(sessions, cooling), NEW i, NEW at, NEW s, at \notin AsksState
  PROVE  Tells(Elapsed(i), at, s)
<1>1. Elapsed(i).sessions = Finalized(i) /\ Elapsed(i).code = "session_expired"
  BY DEF Elapsed, Refuse
<1>. QED  BY <1>1, FinalizedShrinks DEF Tells

LEMMA AcceptTells ==
  ASSUME NEW S, Shrinks(S), NEW i, NEW at, NEW s, at \notin AsksState \cup {"create"},
         at = "play" /\ s \in DOMAIN sessions => S[s].status # "active"
  PROVE  Tells(Accept(S, i), at, s)
<1>1. Accept(S, i).sessions = S
  BY DEF Accept
<1>. QED  BY <1>1 DEF Tells

LEMMA GetStateTells ==
  ASSUME WellFormed(sessions, cooling), NEW at \in AsksState, NEW s
  PROVE  Tells(GetState, at, s)
<1>1. PICK S : S = Finalized(Latest)
  OBVIOUS
<1>2. WellFormed(S, cooling) /\ Len(S) = Latest /\ DOMAIN S = DOMAIN sessions
  BY <1>1, FinalizedFacts
<1>3. GetState.sessions = S
  BY <1>1 DEF GetState, Accept
<1>4. PICK r : r = Recoverable(S)
  OBVIOUS
<1>5. r \in State \cup {None}
  BY <1>3, <1>4, GetStateResult DEF Result
<1>6. r # None => r.id \in DOMAIN S
  <2>1. ASSUME S # <<>> PROVE r.id \in DOMAIN S
    <3>1. r.id = Len(S)
      BY <1>4, <2>1 DEF Recoverable
    <3>2. Len(S) \in DOMAIN S
      BY <1>2, <2>1 DEF WellFormed
    <3>. QED  BY <3>1, <3>2
  <2>. QED  BY <1>4, <2>1 DEF Recoverable
<1>7. ASSUME NEW i \in DOMAIN sessions, S[i].status = "active"
      PROVE  r # None /\ r.id = i /\ r.status = "active"
  <2>1. i \in 1 .. Len(S) /\ Len(S) \in Nat /\ S # <<>>
    BY <1>2, <1>7 DEF WellFormed
  <2>2. i = Len(S)
    BY <1>2, <1>7, <2>1 DEF WellFormed
  <2>3. r = [id |-> Len(S), status |-> S[Len(S)].status, proof |-> S[Len(S)].proof,
             score |-> S[Len(S)].score = "recorded"]
    BY <1>4, <2>1 DEF Recoverable
  <2>4. r.id = i /\ r.status = "active"
    BY <1>7, <2>2, <2>3
  <2>5. r \in State
    <3>1. S[i] \in SessionRecord /\ i \in Sessions
      BY <1>2, <2>1, NoneIsNot DEF WellFormed, Sessions
    <3>. QED  BY <1>7, <2>2, <2>3, <3>1 DEF SessionRecord, State
  <2>. QED  BY <2>4, <2>5, NoneAssumption
<1>8. Shrinks(S)
  BY <1>1, FinalizedShrinks
<1>. QED  BY <1>3, <1>4, <1>6, <1>7, <1>8 DEF Tells, AsksState

LEMMA CreateSessionTells ==
  ASSUME WellFormed(sessions, cooling), NEW s
  PROVE  Tells(CreateSession, "create", s)
<1>1. CASE sessions # <<>> /\ sessions[Latest].status = "active"
  BY <1>1, RefuseTells DEF CreateSession, AsksState
<1>2. CASE ~(sessions # <<>> /\ sessions[Latest].status = "active") /\ cooling
  BY <1>2, RefuseTells DEF CreateSession, AsksState
<1>3. CASE ~(sessions # <<>> /\ sessions[Latest].status = "active") /\ ~cooling
  <2>1. PICK F : F = Finalized(Latest)
    OBVIOUS
  <2>2. PICK S : S = Append(F, NewSession)
    OBVIOUS
  <2>3. WellFormed(F, cooling) /\ Len(F) = Latest /\ DOMAIN F = DOMAIN sessions
    BY <2>1, FinalizedFacts
  <2>4. F \in Seq(SessionRecord) /\ NewSession \in SessionRecord /\ Latest \in Nat
    BY <2>3 DEF WellFormed, NewSession, SessionRecord
  <2>5. DOMAIN S = 1 .. Latest + 1 /\ DOMAIN sessions = 1 .. Latest
        /\ \A i \in 1 .. Latest : S[i] = F[i]
    BY <2>2, <2>3, <2>4
  <2>6. CreateSession.sessions = S /\ CreateSession.id = Latest + 1
    BY <1>3, <2>1, <2>2 DEF CreateSession, Accept
  <2>7. WellFormed(S, CreateSession.cooling)
    BY <2>6, CreateSessionResult DEF Result
  <2>8. \A i \in DOMAIN sessions : S[i].status # "active"
    <3>1. Len(S) = Latest + 1
      BY <2>2, <2>3, <2>4
    <3>. QED  BY <2>4, <2>5, <2>7, <3>1 DEF WellFormed
  <2>9. Shrinks(S) /\ Latest + 1 \in DOMAIN S
    BY <2>4, <2>5, <2>8 DEF Shrinks
  <2>. QED  BY <2>6, <2>8, <2>9 DEF Tells, AsksState
<1>. QED  BY <1>1, <1>2, <1>3

LEMMA CommitFairnessTells ==
  ASSUME WellFormed(sessions, cooling), NEW s
  PROVE  Tells(CommitFairness(s), "commit", s)
<1>1. PICK v : v = [sessions[s] EXCEPT !.proof = TRUE]
  OBVIOUS
<1>2. PICK S : S = [sessions EXCEPT ![s] = v]
  OBVIOUS
<1>3. s \in DOMAIN sessions => v.status = sessions[s].status
  <2>1. s \in DOMAIN sessions => sessions[s] \in SessionRecord
    BY DEF WellFormed
  <2>. QED  BY <1>1, <2>1 DEF SessionRecord
<1>4. Shrinks(S)
  BY <1>2, <1>3, ChangedShrinks
<1>5. /\ Tells(Accept(S, s), "commit", s) /\ Tells(Elapsed(s), "commit", s)
      /\ Tells(Refuse("invalid_transition"), "commit", s)
  BY <1>4, AcceptTells, ElapsedTells, RefuseTells DEF AsksState
<1>. QED  BY <1>1, <1>2, <1>5 DEF CommitFairness

LEMMA PlaySessionTells ==
  ASSUME WellFormed(sessions, cooling), NEW s, NEW a, NEW replays, NEW at \in {"play", "evaluate"}
  PROVE  Tells(PlaySession(s, a, replays), at, s)
<1>1. PICK v : v = [sessions[s] EXCEPT !.status = "completed", !.answer = a]
  OBVIOUS
<1>2. PICK S : S = [sessions EXCEPT ![s] = v]
  OBVIOUS
<1>3. s \in DOMAIN sessions => v.status = "completed"
  <2>1. s \in DOMAIN sessions => sessions[s] \in SessionRecord
    BY DEF WellFormed
  <2>. QED  BY <1>1, <2>1 DEF SessionRecord
<1>4. Shrinks(S)
  BY <1>2, <1>3, ChangedShrinks
<1>5. s \in DOMAIN sessions => S[s].status # "active"
  BY <1>2, <1>3
<1>6. S = [sessions EXCEPT ![s].status = "completed", ![s].answer = a]
  BY <1>1, <1>2 DEF WellFormed
<1>7. /\ Tells(Accept(S, s), at, s) /\ Tells(Elapsed(s), at, s)
      /\ Tells(Refuse("invalid_transition"), at, s) /\ Tells(Refuse("idempotency_conflict"), at, s)
  BY <1>4, <1>5, AcceptTells, ElapsedTells, RefuseTells DEF AsksState
<1>8. sessions[s].status = "completed" => Tells(Accept(sessions, s), at, s)
  BY SameShrinks, AcceptTells DEF AsksState
<1>. QED  BY <1>6, <1>7, <1>8 DEF PlaySession

LEMMA SubmitScoreTells ==
  ASSUME WellFormed(sessions, cooling), NEW s
  PROVE  Tells(SubmitScore(s), "score", s)
<1>1. PICK v : v = [sessions[s] EXCEPT !.score = "recorded"]
  OBVIOUS
<1>2. PICK S : S = [sessions EXCEPT ![s] = v]
  OBVIOUS
<1>3. s \in DOMAIN sessions => v.status = sessions[s].status
  <2>1. s \in DOMAIN sessions => sessions[s] \in SessionRecord
    BY DEF WellFormed
  <2>. QED  BY <1>1, <2>1 DEF SessionRecord
<1>4. Shrinks(S)
  BY <1>2, <1>3, ChangedShrinks
<1>5. /\ Tells(Accept(S, s), "score", s) /\ Tells(Refuse("invalid_transition"), "score", s)
      /\ Tells(Refuse("leaderboard_period_closed"), "score", s)
  BY <1>4, AcceptTells, RefuseTells DEF AsksState
<1>. QED  BY <1>1, <1>2, <1>5 DEF SubmitScore

LEMMA EffectTells ==
  ASSUME WellFormed(sessions, cooling), NEW at \in Request \cup Reads, NEW s, NEW a
  PROVE  Tells(Effect(at, s, a), at, s)
<1>1. CASE at \in AsksState
  BY <1>1, GetStateTells DEF Effect, AsksState
<1>2. CASE at = "create"
  BY <1>2, CreateSessionTells DEF Effect, AsksState
<1>3. CASE at = "commit"
  BY <1>3, CommitFairnessTells DEF Effect, AsksState
<1>4. CASE at \in {"evaluate", "play"}
  BY <1>4, PlaySessionTells DEF Effect, AsksState
<1>5. CASE at = "score"
  BY <1>5, SubmitScoreTells DEF Effect, AsksState
<1>6. CASE at = "proof"
  BY <1>6, AcceptTells, SameShrinks DEF Effect, AsksState
<1>. QED  BY <1>1, <1>2, <1>3, <1>4, <1>5, <1>6 DEF Request, Reads

\* What is on its way in a card's game are plays of sessions that exist.
LEMMA PlaysAreNamed ==
  ASSUME PageInv, ChoiceInv, game = "card", NEW x \in OnTheirWay
  PROVE  x.at = "play" /\ x.session \in DOMAIN sessions /\ x.answer # None
<1>1. CASE x \in late
  BY <1>1 DEF OnTheirWay, ChoiceInv, GivenUp
<1>2. CASE x \in Given(Threads)
  <2>1. PICK u \in Threads : x = [at |-> thread[u].at, session |-> thread[u].session,
                                  answer |-> thread[u].answer]
    BY <1>2 DEF Given
  <2>2. thread[u].at # "evaluate"
    BY DEF PageInv, AtWork
  <2>3. x.at = "play"
    BY <2>1, <2>2 DEF OnTheirWay
  <2>. QED  BY <2>1, <2>3 DEF ChoiceInv, Named
<1>. QED  BY <1>1, <1>2 DEF OnTheirWay

\* What the page has given up, it had asked.
LEMMA GivenFacts ==
  ASSUME PageInv, AnswerInv, NEW l \in Given(Threads)
  PROVE  /\ game = "spin" => Drawn(l, journal)
         /\ game = "card" => GivenUp(l)
<1>1. PICK u \in Threads : l = [at |-> thread[u].at, session |-> thread[u].session,
                                answer |-> thread[u].answer]
  BY DEF Given
<1>2. game = "spin" => Drawn(thread[u], journal)
  BY DEF AnswerInv, SeedInv
<1>3. game = "card" => thread[u].at # "evaluate" /\ Named(page, thread[u])
  BY DEF AnswerInv, ChoiceInv, PageInv, AtWork
<1>. QED  BY <1>1, <1>2, <1>3 DEF Drawn, Named, GivenUp

\* The threads keep what they ask, and at most get answers.
LEMMA NewsAnswers ==
  ASSUME PageInv, AnswerInv, UNCHANGED <<game, journal, page, crossed>>, Shrinks(sessions'),
         late' \subseteq late \cup Given(Threads), OnTheirWay' \subseteq OnTheirWay,
         \A u \in Threads :
           /\ thread'[u].fn = thread[u].fn /\ thread'[u].at = thread[u].at
           /\ thread'[u].session = thread[u].session /\ thread'[u].answer = thread[u].answer
           /\ thread'[u].choice = thread[u].choice,
         game = "card" =>
           \A u \in Threads : thread'[u].reply # None =>
             /\ thread'[u].at = "create" /\ thread'[u].reply.code = "ok" =>
                  thread'[u].reply.id \in DOMAIN sessions'
             /\ thread'[u].reply.state # None => thread'[u].reply.state.id \in DOMAIN sessions',
         game = "card" /\ ~crossed =>
           \A x \in Live : sessions'[x.session].status = "active" =>
             \A u \in Threads :
               /\ Heeds(thread'[u], x)
               /\ ~(thread'[u].at = "create" /\ thread'[u].reply # None
                      /\ thread'[u].reply.code = "ok")
  PROVE  AnswerInv'
<1>1. SeedInv'
  <2>1. game = "spin" => \A l \in late' : Drawn(l, journal)
    BY GivenFacts DEF AnswerInv, SeedInv
  <2>. QED  BY <2>1 DEF AnswerInv, SeedInv, Drawn
<1>2. ASSUME game = "card" PROVE ChoiceInv'
  <2>1. \A l \in late' : GivenUp(l)
    BY <1>2, GivenFacts DEF AnswerInv, ChoiceInv
  <2>2. DOMAIN sessions \subseteq DOMAIN sessions'
    BY DEF Shrinks
  <2>3. (\A l \in late : GivenUp(l))'
    BY <2>1, <2>2 DEF GivenUp
  <2>4. (\A u \in Threads : Named(page, thread[u]) /\ Replied(thread[u]))'
    BY <1>2, <2>2 DEF AnswerInv, ChoiceInv, Named, Replied
  <2>5. (~crossed => \A u \in Threads : Chosen(page, journal, thread[u]))'
    BY <1>2 DEF AnswerInv, ChoiceInv, Chosen
  <2>6. ASSUME NEW x \in Live'
        PROVE  x \in Live /\ sessions'[x.session].status = "active"
    <3>1. x \in OnTheirWay /\ sessions'[x.session].status = "active"
      BY <2>6 DEF Live, Open
    <3>2. x.session \in DOMAIN sessions
      BY <1>2, <3>1, PlaysAreNamed DEF AnswerInv
    <3>. QED  BY <3>1, <3>2 DEF Shrinks, Live, Open
  <2>7. ASSUME ~crossed, NEW x \in Live'
        PROVE  /\ Agrees(page, journal, x)
               /\ \A u \in Threads :
                    /\ Heeds(thread'[u], x)
                    /\ ~(thread'[u].at = "create" /\ thread'[u].reply # None
                           /\ thread'[u].reply.code = "ok")
    BY <1>2, <2>6, <2>7 DEF AnswerInv, ChoiceInv
  <2>8. (~crossed => \A x \in Live : /\ Agrees(page, journal, x)
                                     /\ \A u \in Threads :
                                          /\ Heeds(thread[u], x)
                                          /\ ~(thread[u].at = "create" /\ thread[u].reply # None
                                                 /\ thread[u].reply.code = "ok"))'
    BY <2>7 DEF Agrees, Heeds
  <2>. QED  BY <2>3, <2>4, <2>5, <2>8 DEF ChoiceInv
<1>. QED  BY <1>1, <1>2 DEF AnswerInv, ChoiceInv

\* Only the server moves.
LEMMA ServerAnswers ==
  ASSUME PageInv, AnswerInv, UNCHANGED <<game, journal, page, thread, crossed>>,
         Shrinks(sessions'), late' \subseteq late
  PROVE  AnswerInv'
<1>1. Given(Threads)' = Given(Threads)
  BY DEF Given, Unanswered
<1>2. OnTheirWay' \subseteq OnTheirWay
  BY <1>1 DEF OnTheirWay
<1>3. game = "card" => \A u \in Threads : Replied(thread[u])
  BY DEF AnswerInv, ChoiceInv
<1>4. game = "card" /\ ~crossed =>
        \A x \in Live : \A u \in Threads :
          /\ Heeds(thread[u], x)
          /\ ~(thread[u].at = "create" /\ thread[u].reply # None /\ thread[u].reply.code = "ok")
  BY DEF AnswerInv, ChoiceInv
<1>. QED  BY <1>2, <1>3, <1>4, NewsAnswers DEF Replied, Shrinks

\* Thread t gets the answer r.
LEMMA AnswerAnswers ==
  ASSUME PageInv, AnswerInv, NEW t \in Threads, NEW r \in Reply, Answer(t, r),
         UNCHANGED <<game, journal, page, crossed>>, Shrinks(sessions'),
         late' \subseteq late \cup Given({t}),
         game = "card" =>
           /\ thread[t].at = "create" /\ r.code = "ok" => r.id \in DOMAIN sessions'
           /\ r.state # None => r.state.id \in DOMAIN sessions',
         game = "card" /\ ~crossed =>
           \A x \in Live : sessions'[x.session].status = "active" =>
             /\ ~(thread[t].at = "create" /\ r.code = "ok")
             /\ thread[t].at \in {"recover", "play"} /\ r.code = "ok" =>
                  thread[t].at = "recover" /\ r.state # None /\ r.state.id = x.session
                    /\ r.state.status = "active"
  PROVE  AnswerInv'
<1>1. PICK th : th = [thread[t] EXCEPT !.reply = r]
  OBVIOUS
<1>2. /\ th.fn = thread[t].fn /\ th.at = thread[t].at /\ th.session = thread[t].session
      /\ th.answer = thread[t].answer /\ th.choice = thread[t].choice /\ th.reply = r
  BY <1>1, ThreadFacts DEF Thread
<1>3. thread' = [thread EXCEPT ![t] = th] /\ thread \in [Threads -> Thread]
  BY <1>1 DEF Answer, PageInv, Types
<1>4. thread'[t] = th /\ \A u \in Threads : u # t => thread'[u] = thread[u]
  BY <1>3
<1>5. r # None
  BY NoneAssumption
<1>6. \A u \in Threads : /\ thread'[u].fn = thread[u].fn /\ thread'[u].at = thread[u].at
                         /\ thread'[u].session = thread[u].session
                         /\ thread'[u].answer = thread[u].answer
                         /\ thread'[u].choice = thread[u].choice
  BY <1>2, <1>4
<1>7. Given({t}) \subseteq Given(Threads)
  BY DEF Given
<1>8. Given(Threads)' \subseteq Given(Threads)
  <2>1. \A u \in Threads : Unanswered(u)' => Unanswered(u)
    BY <1>2, <1>4, <1>5 DEF Unanswered
  <2>. QED  BY <1>6, <2>1 DEF Given
<1>9. OnTheirWay' \subseteq OnTheirWay
  BY <1>7, <1>8 DEF OnTheirWay
<1>10. game = "card" =>
         \A u \in Threads : thread'[u].reply # None =>
           /\ thread'[u].at = "create" /\ thread'[u].reply.code = "ok" =>
                thread'[u].reply.id \in DOMAIN sessions'
           /\ thread'[u].reply.state # None => thread'[u].reply.state.id \in DOMAIN sessions'
  <2>1. game = "card" => \A u \in Threads : Replied(thread[u])
    BY DEF AnswerInv, ChoiceInv
  <2>. QED  BY <1>2, <1>4, <2>1 DEF Replied, Shrinks
<1>11. ASSUME game = "card", ~crossed, NEW x \in Live, sessions'[x.session].status = "active",
              NEW u \in Threads
       PROVE  /\ Heeds(thread'[u], x)
              /\ ~(thread'[u].at = "create" /\ thread'[u].reply # None
                     /\ thread'[u].reply.code = "ok")
  <2>1. /\ Heeds(thread[u], x)
        /\ ~(thread[u].at = "create" /\ thread[u].reply # None /\ thread[u].reply.code = "ok")
    BY <1>11 DEF AnswerInv, ChoiceInv
  <2>2. CASE u # t
    BY <1>4, <2>1, <2>2
  <2>3. CASE u = t
    BY <1>2, <1>4, <1>11, <2>1, <2>3 DEF Heeds
  <2>. QED  BY <2>2, <2>3
<1>. QED  BY <1>6, <1>7, <1>9, <1>10, <1>11, NewsAnswers

LEMMA ServeAnswers ==
  ASSUME PageInv, AnswerInv, NEW t \in Threads, Serve(t)
  PROVE  AnswerInv'
<1>1. WellFormed(sessions, cooling)
  BY ServerWellFormed DEF PageInv, Types
<1>2. PICK at : at = thread[t].at
  OBVIOUS
<1>3. PICK s : s = thread[t].session
  OBVIOUS
<1>4. at \in Request \cup Reads /\ s \in MaybeSession /\ thread[t].answer \in MaybeAnswer
  BY <1>2, <1>3, ThreadFacts DEF Serve, Unanswered, Thread
<1>5. PICK e : e = Effect(at, s, thread[t].answer)
  OBVIOUS
<1>6. Result(e, at) /\ Tells(e, at, s)
  BY <1>1, <1>4, <1>5, EffectResult, EffectTells
<1>7. PICK state : state = IF at \in AsksState THEN Recoverable(e.sessions) ELSE None
  OBVIOUS
<1>8. PICK r : r = [code |-> e.code, id |-> e.id, cooling |-> e.cooling, state |-> state]
  OBVIOUS
<1>9. r \in Reply /\ r.code = e.code /\ r.id = e.id /\ r.state = state
  BY <1>6, <1>7, <1>8 DEF Result, Reply
<1>10. Answer(t, r) /\ sessions' = e.sessions /\ UNCHANGED <<game, late, journal, page, crossed>>
  BY <1>2, <1>3, <1>5, <1>7, <1>8 DEF Serve, Take
<1>11. Shrinks(sessions')
  BY <1>6, <1>10 DEF Tells
<1>12. /\ at = "create" /\ r.code = "ok" => r.id \in DOMAIN sessions'
       /\ r.state # None => r.state.id \in DOMAIN sessions'
  BY <1>6, <1>7, <1>9, <1>10 DEF Tells
<1>13. ASSUME game = "card", ~crossed, NEW x \in Live, sessions'[x.session].status = "active"
       PROVE  /\ ~(at = "create" /\ r.code = "ok")
              /\ at \in {"recover", "play"} /\ r.code = "ok" =>
                   at = "recover" /\ r.state # None /\ r.state.id = x.session
                     /\ r.state.status = "active"
  <2>1. x.session \in DOMAIN sessions
    BY <1>13, PlaysAreNamed DEF AnswerInv, Live
  <2>2. ~(at = "create" /\ r.code = "ok")
    BY <1>6, <1>9, <1>10, <1>13, <2>1 DEF Tells
  <2>3. CASE at = "recover"
    BY <1>6, <1>7, <1>9, <1>10, <1>13, <2>1, <2>3 DEF Tells, AsksState
  <2>4. CASE at = "play"
    <3>1. s = x.session
      BY <1>2, <1>3, <1>13, <2>4 DEF AnswerInv, ChoiceInv, Chosen, Agrees
    <3>2. r.code # "ok"
      BY <1>6, <1>9, <1>10, <1>13, <2>1, <2>4, <3>1 DEF Tells
    <3>. QED  BY <2>4, <3>2
  <2>. QED  BY <2>2, <2>3, <2>4
<1>. QED  BY <1>2, <1>9, <1>10, <1>11, <1>12, <1>13, AnswerAnswers

\* An error tells nothing of the sessions.
LEMMA ErrorAnswers ==
  ASSUME PageInv, AnswerInv, NEW t \in Threads, NEW code \in Code \ {"ok"}, Answer(t, Error(code)),
         UNCHANGED <<serverVars, game, journal, page, crossed>>, late' \subseteq late \cup Given({t})
  PROVE  AnswerInv'
<1>1. Error(code) \in Reply /\ Error(code).code = code /\ Error(code).state = None
  BY ErrorType DEF Error
<1>2. Shrinks(sessions')
  BY SameShrinks DEF serverVars
<1>. QED  BY <1>1, <1>2, AnswerAnswers

LEMMA LostAnswers ==
  ASSUME PageInv, AnswerInv, NEW t \in Threads, Lose(t) \/ Fail(t)
  PROVE  AnswerInv'
<1>1. CASE Lose(t)
  <2>1. PICK code : code = IF thread[t].at \in Reads THEN "network" ELSE "lost"
    OBVIOUS
  <2>2. code \in Code \ {"ok"}
    BY <2>1 DEF Code
  <2>3. /\ Answer(t, Error(code)) /\ late' \subseteq late \cup Given({t})
        /\ UNCHANGED <<serverVars, game, journal, page, crossed>>
    BY <1>1, <2>1 DEF Lose
  <2>. QED  BY <2>2, <2>3, ErrorAnswers
<1>2. CASE Fail(t)
  <2>1. "http_503" \in Code \ {"ok"}
    BY DEF Code
  <2>. QED  BY <1>2, <2>1, ErrorAnswers DEF Fail
<1>. QED  BY <1>1, <1>2

LEMMA TimeAnswers ==
  ASSUME PageInv, AnswerInv, Time(PassExpiry) \/ Time(CoolDown) \/ Time(CloseWeek)
  PROVE  AnswerInv'
<1>1. WellFormed(sessions, cooling)
  BY ServerWellFormed DEF PageInv, Types
<1>2. CASE PassExpiry
  <2>1. PICK v : v = [sessions[Latest] EXCEPT !.status = "due"]
    OBVIOUS
  <2>2. sessions' = [sessions EXCEPT ![Latest] = v]
    BY <1>2, <2>1 DEF PassExpiry
  <2>3. Latest \in DOMAIN sessions => v.status = "due"
    BY <1>1, <2>1 DEF WellFormed, SessionRecord
  <2>4. Shrinks(sessions')
    BY <1>1, <2>2, <2>3, ChangedShrinks
  <2>. QED  BY <2>4, ServerAnswers DEF Time
<1>3. CASE CoolDown
  BY <1>3, SameShrinks, ServerAnswers DEF Time, CoolDown
<1>4. CASE CloseWeek
  <2>1. PICK v : v = [sessions[Latest] EXCEPT !.score = "closed"]
    OBVIOUS
  <2>2. sessions' = [sessions EXCEPT ![Latest] = v]
    BY <1>4, <2>1 DEF CloseWeek
  <2>3. Latest \in DOMAIN sessions => v.status = sessions[Latest].status
    BY <1>1, <2>1 DEF WellFormed, SessionRecord
  <2>4. Shrinks(sessions')
    BY <1>1, <2>2, <2>3, ChangedShrinks
  <2>. QED  BY <2>4, ServerAnswers DEF Time
<1>. QED  BY <1>2, <1>3, <1>4 DEF Time

LEMMA ServeLateAnswers ==
  ASSUME PageInv, AnswerInv, NEW l \in late, ServeLate(l)
  PROVE  AnswerInv'
<1>1. WellFormed(sessions, cooling)
  BY ServerWellFormed DEF PageInv, Types
<1>2. l.at \in Request
  BY DEF PageInv, Types
<1>3. Tells(Effect(l.at, l.session, l.answer), l.at, l.session)
  BY <1>1, <1>2, EffectTells
<1>4. Shrinks(sessions')
  BY <1>3 DEF Tells, ServeLate, Take
<1>. QED  BY <1>4, ServerAnswers DEF ServeLate

\* A reload gives up what was asked, and the journal remembers it.
LEMMA ReloadAnswers ==
  ASSUME PageInv, AnswerInv, Reload
  PROVE  AnswerInv'
<1>1. /\ page' = NewPage /\ thread' = Loaded /\ late' = late \cup Given(Threads)
      /\ UNCHANGED <<serverVars, game, journal, crossed>>
  BY DEF Reload
<1>2. NewPage.session = None /\ NewPage.choice = None /\ NewPage.status = "recovering"
  BY DEF NewPage
<1>3. \A u \in Threads : /\ thread'[u].at \in {"recover", "idle"} /\ thread'[u].reply = None
                         /\ thread'[u].fn \in {"load", "idle"}
  BY <1>1, LoadedFacts DEF Idle, Threads
<1>4. SeedInv'
  BY <1>1, <1>3, GivenFacts DEF AnswerInv, SeedInv, Drawn
<1>5. ASSUME game = "card" PROVE ChoiceInv'
  <2>1. \A l \in late' : GivenUp(l)
    BY <1>1, <1>5, GivenFacts DEF AnswerInv, ChoiceInv
  <2>2. (\A l \in late : GivenUp(l))'
    BY <1>1, <2>1 DEF serverVars, GivenUp
  <2>3. (\A u \in Threads : Named(page, thread[u]) /\ Replied(thread[u]))'
    BY <1>1, <1>2, <1>3 DEF Named, Replied
  <2>4. (~crossed => \A u \in Threads : Chosen(page, journal, thread[u]))'
    BY <1>3 DEF Chosen
  <2>5. Live' \subseteq Live
    <3>1. Given(Threads)' = {}
      BY <1>3 DEF Given, Unanswered, Reads, AsksState
    <3>2. OnTheirWay' \subseteq OnTheirWay
      BY <1>1, <3>1 DEF OnTheirWay
    <3>. QED  BY <1>1, <3>2 DEF Live, Open, serverVars
  <2>6. ASSUME ~crossed, NEW x \in Live'
        PROVE  Agrees(page', journal', x) /\ \A u \in Threads : Heeds(thread'[u], x)
    <3>1. Agrees(page, journal, x)
      BY <1>5, <2>5, <2>6 DEF AnswerInv, ChoiceInv
    <3>. QED  BY <1>1, <1>2, <1>3, <3>1 DEF Agrees, Heeds
  <2>7. (~crossed => \A x \in Live : /\ Agrees(page, journal, x)
                                     /\ \A u \in Threads :
                                          /\ Heeds(thread[u], x)
                                          /\ ~(thread[u].at = "create" /\ thread[u].reply # None
                                                 /\ thread[u].reply.code = "ok"))'
    BY <1>1, <1>3, <2>6 DEF Agrees, Heeds
  <2>. QED  BY <2>2, <2>3, <2>4, <2>7 DEF ChoiceInv
<1>. QED  BY <1>1, <1>4, <1>5 DEF AnswerInv, ChoiceInv

LEMMA InitAnswers ==
  ASSUME Init
  PROVE  AnswerInv
<1>1. /\ late = {} /\ page.session = None
      /\ \A u \in Threads : /\ thread[u].at \in {"recover", "idle"} /\ thread[u].reply = None
                            /\ thread[u].fn \in {"load", "idle"}
  BY LoadedFacts DEF Init, Idle, NewPage, Threads
<1>2. OnTheirWay = {}
  BY <1>1 DEF OnTheirWay, Given, Unanswered, Reads, AsksState
<1>. QED
  BY <1>1, <1>2 DEF AnswerInv, SeedInv, ChoiceInv, Drawn, Named, Replied, Chosen, Live

LEMMA NextAnswers ==
  ASSUME PageInv, PageInv', AnswerInv, [Next]_vars
  PROVE  AnswerInv'
<1>1. game \in {"spin", "card", "skill"}
  BY GameAssumption DEF PageInv, Types
<1>2. CASE \E v \in Answers : SpinClicked(v) \/ Choose(v) \/ EnterActions(v)
  BY <1>2, SpinClickedAnswers, ChooseAnswers, SkillAnswers DEF EnterActions
<1>3. CASE ResumeClicked \/ PreviewEnds
  BY <1>3, ResumeClickedAnswers, PreviewEndsAnswers
<1>4. CASE Start \/ Submit
  BY <1>4, SkillAnswers DEF Start, Submit, Click, Run
<1>5. CASE CountdownEnds
  BY <1>1, <1>5, CountdownEndsAnswers, SkillAnswers DEF CountdownEnds, Run
<1>6. CASE \E t \in Threads : Continue(t)
  BY <1>1, <1>6, ContinueAnswers, SkillAnswers DEF Continue, Run
<1>7. CASE \E t \in Threads : Serve(t) \/ Lose(t) \/ Fail(t)
  BY <1>7, ServeAnswers, LostAnswers
<1>8. CASE \E l \in late : ServeLate(l)
  BY <1>8, ServeLateAnswers
<1>9. CASE Time(PassExpiry) \/ Time(CoolDown) \/ Time(CloseWeek)
  BY <1>9, TimeAnswers
<1>10. CASE Reload
  BY <1>10, ReloadAnswers
<1>11. CASE UNCHANGED vars
  BY <1>11, SameShrinks, ServerAnswers DEF vars, serverVars
<1>. QED
  BY <1>2, <1>3, <1>4, <1>5, <1>6, <1>7, <1>8, <1>9, <1>10, <1>11 DEF Next

LEMMA OneAnswerCounts ==
  ASSUME PageInv, AnswerInv
  PROVE  OneAnswer
<1>. SUFFICES ASSUME game \in {"spin", "card"}, ~crossed, NEW x \in OnTheirWay, NEW y \in OnTheirWay,
                     x.session = y.session, sessions[x.session].status = "active"
              PROVE  x.answer = y.answer
  BY DEF OneAnswer
<1>1. CASE game = "spin"
  <2>1. ASSUME NEW z \in OnTheirWay PROVE z.answer = journal.seed
    <3>1. Drawn(z, journal)
      BY <1>1, GivenFacts DEF OnTheirWay, AnswerInv, SeedInv
    <3>. QED  BY <3>1 DEF OnTheirWay, Drawn
  <2>. QED  BY <2>1
<1>2. CASE game = "card"
  <2>1. x \in Live /\ y \in Live
    BY DEF Live, Open
  <2>. QED  BY <1>2, <2>1 DEF AnswerInv, ChoiceInv, Agrees
<1>. QED  BY <1>1, <1>2

\* One answer counts: whatever was lost, comes late or is done again after a reload, the
\* server never gets to see two choices or client seeds for a session that is not over,
\* for any number of sessions, answers and disturbances.
THEOREM AnswersAreOne == Spec => []OneAnswer
<1>1. Init => PageInv /\ AnswerInv
  BY InitPageInv, InitAnswers
<1>2. PageInv /\ AnswerInv /\ [Next]_vars => (PageInv /\ AnswerInv)'
  BY NextPageInv, NextAnswers
<1>3. PageInv /\ AnswerInv => OneAnswer
  BY OneAnswerCounts
<1>. QED  BY <1>1, <1>2, <1>3, PTL DEF Spec

------------------------------------------------------------------------------
(***************************************************************************)
(* The message of an error.  While the page shows that it recovers, no     *)
(* error was told and the digits cannot be entered, some function owes it  *)
(* the next status: a recover() whose answer counts or, on the wheel, what *)
(* follows it up to the proof.  In Calm, w tells whether the function that *)
(* runs owes it, and o whether the other one does.                         *)
(***************************************************************************)
Owing == {"load", "resume", "countdown"}
Owes(th) == th.fn \in Owing /\ IF th.at = "recover" THEN ~th.stale ELSE game = "spin"
OnItsWay(th) == th.fn \in Owing /\ game = "spin"

Entry(pg) == game = "skill" /\ pg.phase = "input"
Mute(pg) == pg.status = "recovering" /\ pg.failure = None /\ ~Entry(pg)
Spoken(pg) == pg.status = "terminal_error" => pg.failure = "told" \/ Entry(pg)

CalmInv == Spoken(page) /\ (Mute(page) => \E t \in Threads : Owes(thread[t]))

Calm(c, o, w) == Spoken(c.page) /\ (Mute(c.page) => w \/ (o /\ ~c.cancels))
Settles(d, o) == Calm(d, o, Owes(d.th))

\* A status of its own settles the page.
Shown(c) == c \in Clients /\ c.page.status \notin {"recovering", "terminal_error"}

LEMMA ShownIsCalm ==
  ASSUME NEW c, Shown(c), NEW o, NEW w
  PROVE  Calm(c, o, w)
BY DEF Shown, Calm, Spoken, Mute

LEMMA AwaitSettles ==
  ASSUME NEW c \in Clients, NEW o, Calm(c, o, OnItsWay(c.th)), NEW at, at # "recover", NEW s, NEW a
  PROVE  Settles(Await(c, at, s, a), o)
<1>1. PICK th : th = [c.th EXCEPT !.at = at, !.session = s, !.answer = a, !.reply = None]
  OBVIOUS
<1>2. PICK d : d = [c EXCEPT !.th = th]
  OBVIOUS
<1>3. th.at = at /\ th.fn = c.th.fn
  BY <1>1 DEF Clients, Thread
<1>4. d.page = c.page /\ d.cancels = c.cancels /\ d.th = th
  BY <1>2 DEF Clients
<1>5. Settles(d, o)
  BY <1>3, <1>4 DEF Settles, Calm, Owes, OnItsWay
<1>. QED  BY <1>1, <1>2, <1>5 DEF Await

LEMMA RecoverSettles ==
  ASSUME NEW c \in Clients, NEW o, NEW fn \in Owing \cup {"caught"},
         fn = "caught" => c.page.failure = "told"
  PROVE  Settles(Recover(c, fn), o)
<1>1. PICK d : d = Recover(c, fn)
  OBVIOUS
<1>2. /\ d.page.status = "recovering" /\ d.page.failure = c.page.failure
      /\ d.th.fn = fn /\ d.th.at = "recover" /\ ~d.th.stale
  BY <1>1, RecoverFacts DEF Functions, Owing
<1>3. Settles(d, o)
  BY <1>2, NoneAssumption DEF Settles, Calm, Spoken, Mute, Owes
<1>. QED  BY <1>1, <1>3

LEMMA EvaluateSettles ==
  ASSUME NEW c \in Clients, NEW o, Calm(c, o, OnItsWay(c.th)), NEW proof
  PROVE  Settles(Evaluate(c, proof), o)
<1>1. PICK seed : seed = IF c.journal.seed # None THEN c.journal.seed ELSE c.seed
  OBVIOUS
<1>2. PICK e : e = [c EXCEPT !.journal = [@ EXCEPT !.seed = seed, !.pending = "evaluate"]]
  OBVIOUS
<1>3. seed \in MaybeAnswer
  BY <1>1 DEF Clients, Journal
<1>4. e \in Clients /\ e.page = c.page /\ e.th = c.th /\ e.cancels = c.cancels
  BY <1>2, <1>3 DEF Clients, Journal, Request
<1>5. Settles(Await(e, "evaluate", proof, seed), o)
  BY <1>4, AwaitSettles DEF Calm
<1>. QED  BY <1>1, <1>2, <1>5 DEF Evaluate

LEMMA SpinSettles ==
  ASSUME NEW c \in Clients, NEW o, Calm(c, o, OnItsWay(c.th))
  PROVE  Settles(Spin(c), o)
BY AwaitSettles, EvaluateSettles DEF Spin

LEMMA CreateSettles ==
  ASSUME NEW c \in Clients, NEW o, Calm(c, o, OnItsWay(c.th))
  PROVE  Settles(Create(c), o)
<1>1. PICK pg : pg = [c.page EXCEPT !.outcome = None, !.score = None]
  OBVIOUS
<1>2. PICK e : e = [c EXCEPT !.page = pg, !.journal.pending = "create_session"]
  OBVIOUS
<1>3. /\ pg \in Page /\ pg.status = c.page.status /\ pg.failure = c.page.failure
      /\ pg.phase = c.page.phase
  BY <1>1 DEF Clients, Page, MaybeSession
<1>4. e \in Clients /\ e.page = pg /\ e.th = c.th /\ e.cancels = c.cancels
  BY <1>2, <1>3 DEF Clients, Journal
<1>5. Calm(e, o, OnItsWay(e.th))
  BY <1>3, <1>4 DEF Calm, Spoken, Mute, Entry
<1>6. Settles(Await(e, "create", None, None), o)
  BY <1>4, <1>5, AwaitSettles
<1>. QED  BY <1>1, <1>2, <1>6 DEF Create

LEMMA PlayChoiceSettles ==
  ASSUME NEW c \in Clients, NEW v \in MaybeAnswer, NEW o
  PROVE  Settles(PlayChoice(c, v), o)
<1>1. PICK d : d = PlayChoice(c, v)
  OBVIOUS
<1>2. CASE Active(c.page)
  <2>1. Shown(d)
    BY <1>1, <1>2, PlayChoiceFacts DEF Shown
  <2>. QED  BY <1>1, <2>1, ShownIsCalm DEF Settles
<1>3. CASE ~Active(c.page)
  <2>1. PICK e : d = Create(e) /\ e \in Clients /\ e.page.status = "submitting"
    BY <1>1, <1>3, PlayChoiceFacts
  <2>2. Calm(e, o, OnItsWay(e.th))
    BY <2>1, ShownIsCalm DEF Shown
  <2>. QED  BY <1>1, <2>1, <2>2, CreateSettles
<1>. QED  BY <1>2, <1>3

LEMMA ReturnSettles ==
  ASSUME NEW c \in Clients, NEW o, Calm(c, o, FALSE)
  PROVE  Settles(Return(c), o)
<1>1. PICK done : done = [c EXCEPT !.th = Idle]
  OBVIOUS
<1>2. PICK free : free = [done EXCEPT !.page.busy = FALSE]
  OBVIOUS
<1>3. done.page = c.page /\ done.cancels = c.cancels /\ done \in Clients
  BY <1>1, IdleType DEF Clients
<1>4. /\ free.page.status = c.page.status /\ free.page.failure = c.page.failure
      /\ free.page.phase = c.page.phase /\ free.cancels = c.cancels
  BY <1>2, <1>3 DEF Clients, Page
<1>5. Settles(done, o) /\ Settles(free, o)
  BY <1>3, <1>4 DEF Settles, Calm, Spoken, Mute, Entry
<1>6. Settles(PlayChoice(c, c.th.choice), o)
  BY PlayChoiceSettles DEF Clients, Thread
<1>. QED  BY <1>1, <1>2, <1>5, <1>6 DEF Return

\* An error is told or, of a countdown's recover(), known not to be.
LEMMA ThrowSettles ==
  ASSUME NEW c \in Clients, c.th.fn # "idle", NEW o, Calm(c, o, Owes(c.th)), NEW code
  PROVE  Settles(Throw(c, code), o)
<1>1. PICK free : free = [c EXCEPT !.th = Idle, !.page.busy = FALSE]
  OBVIOUS
<1>2. PICK done : done = [c EXCEPT !.th = Idle,
                                   !.page.failure = IF @ = "told" THEN @ ELSE "unheard"]
  OBVIOUS
<1>3. PICK caught : caught = [c EXCEPT !.cancels = game = "spin",
                                       !.page = [@ EXCEPT
                           !.status = IF code = "session_expired" THEN "expired" ELSE "recovering",
                           !.failure = "told"]]
  OBVIOUS
<1>4. PICK failed : failed = [caught EXCEPT !.th = Idle, !.page.busy = FALSE]
  OBVIOUS
<1>5. /\ free \in Clients /\ free.page.status = c.page.status /\ free.page.failure = c.page.failure
      /\ free.page.phase = c.page.phase /\ free.cancels = c.cancels
  BY <1>1, IdleType DEF Clients, Page
<1>6. /\ done.page.status = c.page.status /\ done.page.phase = c.page.phase
      /\ done.page.failure \in {"told", "unheard"}
      /\ c.page.failure = "told" => done.page.failure = "told"
  BY <1>2 DEF Clients, Page
<1>7. caught \in Clients /\ caught.page.failure = "told"
  BY <1>3, ZenonT(60) DEF Clients, Page
<1>8. failed.page.failure = "told"
  BY <1>4, <1>7 DEF Clients, Page
<1>9. Settles(done, o) /\ Settles(failed, o)
  BY <1>6, <1>8, NoneAssumption DEF Settles, Calm, Spoken, Mute, Entry
<1>10. Settles(Recover(caught, "caught"), o)
  BY <1>7, RecoverSettles
<1>11. ASSUME NEW status
       PROVE  Settles([free EXCEPT !.page = [@ EXCEPT !.status = status, !.failure = "told"]], o)
  <2>1. PICK e : e = [free EXCEPT !.page = [@ EXCEPT !.status = status, !.failure = "told"]]
    OBVIOUS
  <2>2. e.page.failure = "told"
    BY <1>5, <2>1 DEF Clients, Page
  <2>3. Settles(e, o)
    BY <2>2, NoneAssumption DEF Settles, Calm, Spoken, Mute
  <2>. QED  BY <2>1, <2>3
<1>12. c.th.fn \in {"load", "action", "caught", "resume", "countdown"}
  BY DEF Clients, Thread
<1>13. CASE c.th.fn = "countdown"
  BY <1>2, <1>9, <1>13 DEF Throw
<1>14. CASE c.th.fn = "caught"
  <2>1. Calm(free, o, FALSE)
    BY <1>5, <1>14 DEF Calm, Spoken, Mute, Entry, Owes, Owing
  <2>2. Settles(free, o)
    BY <2>1 DEF Settles, Calm
  <2>. QED  BY <1>1, <1>14, <2>2 DEF Throw
<1>15. CASE c.th.fn \in {"load", "resume"}
  BY <1>1, <1>11, <1>15 DEF Throw
<1>16. CASE c.th.fn = "action"
  BY <1>3, <1>4, <1>9, <1>10, <1>16 DEF Throw
<1>. QED  BY <1>12, <1>13, <1>14, <1>15, <1>16

LEMMA VerifiedSettles ==
  ASSUME NEW c \in Clients, NEW o
  PROVE  Settles(Verified(c), o)
<1>1. PICK status : status = IF c.th.fn = "action" THEN "result" ELSE Rested(c.th.cooling, "result")
  OBVIOUS
<1>2. PICK e : e = [c EXCEPT !.page = [@ EXCEPT !.status = status, !.failure = None]]
  OBVIOUS
<1>3. status \in {"result", "cooldown"}
  BY <1>1 DEF Rested
<1>4. e \in Clients /\ e.page.status = status
  BY <1>2, <1>3 DEF Clients, Page
<1>5. Settles(Return(e), o)
  BY <1>3, <1>4, ShownIsCalm, ReturnSettles DEF Shown
<1>. QED  BY <1>1, <1>2, <1>5 DEF Verified

LEMMA SubmitFinalScoreSettles ==
  ASSUME NEW c \in Clients, NEW o, Calm(c, o, OnItsWay(c.th))
  PROVE  Settles(AfterScore(c), o) /\ Settles(SubmitFinalScore(c), o)
<1>1. Settles(AfterScore(c), o)
  <2>1. CASE game # "spin"
    <3>1. Calm(c, o, FALSE)
      BY <2>1 DEF Calm, OnItsWay
    <3>. QED  BY <2>1, <3>1, ReturnSettles DEF AfterScore
  <2>2. CASE game = "spin"
    BY <2>2, VerifiedSettles, AwaitSettles DEF AfterScore
  <2>. QED  BY <2>1, <2>2
<1>2. PICK e : e = [c EXCEPT !.journal.pending = "submit_score"]
  OBVIOUS
<1>3. e \in Clients /\ e.page = c.page /\ e.th = c.th /\ e.cancels = c.cancels
  BY <1>2 DEF Clients, Journal
<1>4. Settles(Await(e, "score", c.page.session.id, None), o)
  BY <1>3, AwaitSettles DEF Calm
<1>. QED  BY <1>1, <1>2, <1>4 DEF SubmitFinalScore

LEMMA ScoredSettles ==
  ASSUME NEW c \in Clients, NEW o, Calm(c, o, OnItsWay(c.th)), NEW s \in MaybeSession
  PROVE  Settles(Scored(c, s), o)
<1>1. PICK e : e = [c EXCEPT !.page.score = s, !.journal.pending = None]
  OBVIOUS
<1>2. /\ e \in Clients /\ e.th = c.th /\ e.cancels = c.cancels /\ e.page.status = c.page.status
      /\ e.page.failure = c.page.failure /\ e.page.phase = c.page.phase
  BY <1>1 DEF Clients, Page, Journal
<1>3. Calm(e, o, OnItsWay(e.th))
  BY <1>2 DEF Calm, Spoken, Mute, Entry
<1>. QED  BY <1>1, <1>2, <1>3, SubmitFinalScoreSettles DEF Scored

LEMMA SubmittedSettles ==
  ASSUME NEW c \in Clients, c.th.fn # "idle", c.th.at \in {"score", "rescore"}, NEW o,
         Calm(c, o, Owes(c.th)), NEW r \in Reply
  PROVE  Settles(Submitted(c, r), o) /\ Settles(Reread(c, r), o)
<1>1. r.id \in MaybeSession /\ r.code \in Code /\ (r.state # None => r.state.id \in MaybeSession)
  BY DEF Reply, State, MaybeSession
<1>2. Calm(c, o, OnItsWay(c.th))
  BY DEF Calm, Owes, OnItsWay
<1>3. Settles(Scored(c, r.id), o) /\ (r.state # None => Settles(Scored(c, r.state.id), o))
  BY <1>1, <1>2, ScoredSettles
<1>4. \A code : Settles(Throw(c, code), o)
  BY ThrowSettles
<1>5. PICK e : e = [c EXCEPT !.th.error = r.code]
  OBVIOUS
<1>6. e \in Clients /\ e.page = c.page /\ e.th.fn = c.th.fn /\ e.cancels = c.cancels
  BY <1>1, <1>5 DEF Clients, Thread
<1>7. Settles(Await(e, "rescore", None, None), o)
  BY <1>2, <1>6, AwaitSettles DEF Calm, OnItsWay
<1>. QED  BY <1>3, <1>4, <1>5, <1>7 DEF Submitted, Reread

\* What recover() finds settles the page, at once or when the proof of a spin is there.
LEMMA RecoveredSettles ==
  ASSUME NEW c \in Clients, NEW o, Calm(c, o, Owes(c.th)), NEW r \in Reply,
         game \in {"spin", "card", "skill"}
  PROVE  Settles(Recovered(c, r), o)
<1>1. ASSUME NEW e, Shown(e) PROVE Settles(Conclude(e, r.state), o)
  BY <1>1, ShownIsCalm, SubmitFinalScoreSettles, ReturnSettles DEF Conclude, Shown
<1>2. CASE game = "card"
  <2>1. PICK e : RecoveredCard(c, r) = Conclude(e, r.state) /\ e \in Clients /\ e.page.status = StatusOf(r)
    BY RecoveredCardFacts
  <2>. QED  BY <1>1, <1>2, <2>1, StatusFacts DEF Recovered, Shown
<1>3. CASE game = "skill"
  <2>1. PICK e : RecoveredSkill(c, r) = Conclude(e, r.state) /\ e \in Clients /\ e.page.status = StatusOf(r)
    BY RecoveredSkillFacts
  <2>. QED  BY <1>1, <1>3, <2>1, StatusFacts DEF Recovered, Shown
<1>4. CASE game = "spin"
  <2>1. PICK a : a = Adopt(c, r)
    OBVIOUS
  <2>2. PICK d : d = IF r.state = None THEN a
                     ELSE [a EXCEPT !.journal.commitment = IF r.state.proof THEN r.state.id ELSE None]
    OBVIOUS
  <2>3. r.state # None => r.state \in State
    BY DEF Reply
  <2>4. /\ a \in Clients /\ a.th.fn = c.th.fn /\ a.cancels = c.cancels
        /\ a.page.status = c.page.status /\ a.page.failure = c.page.failure
        /\ a.page.phase = c.page.phase
    BY <2>1, AdoptFacts
  <2>5. d \in Clients /\ d.page = a.page /\ d.th = a.th /\ d.cancels = a.cancels
    BY <2>2, <2>3, <2>4 DEF Clients, Journal, State, MaybeSession
  <2>6. CASE ~Completed(r.state)
    <3>1. PICK e : e = [d EXCEPT !.page = [@ EXCEPT !.status = StatusOf(r), !.failure = None]]
      OBVIOUS
    <3>2. Shown(e)
      BY <2>5, <3>1, StatusFacts, ZenonT(60) DEF Shown, Clients, Page
    <3>3. Settles(Return(e), o)
      BY <3>2, ShownIsCalm, ReturnSettles DEF Shown
    <3>. QED  BY <1>4, <2>1, <2>2, <2>6, <3>1, <3>3 DEF Recovered, RecoveredSpin
  <2>7. CASE Completed(r.state)
    <3>1. PICK e : e = [d EXCEPT !.page.outcome = r.state.id]
      OBVIOUS
    <3>2. r.state.id \in MaybeSession /\ r.state.score \in BOOLEAN
      BY <2>3, <2>7 DEF Completed, State, MaybeSession
    <3>3. /\ e \in Clients /\ e.th = d.th /\ e.cancels = d.cancels /\ e.page.status = d.page.status
          /\ e.page.failure = d.page.failure /\ e.page.phase = d.page.phase
      BY <2>5, <3>1, <3>2 DEF Clients, Page
    <3>4. Calm(e, o, OnItsWay(e.th))
      BY <1>4, <2>4, <2>5, <3>3 DEF Calm, Spoken, Mute, Entry, Owes, OnItsWay
    <3>5. Settles(AfterScore(e), o) /\ Settles(SubmitFinalScore(e), o)
      BY <3>3, <3>4, SubmitFinalScoreSettles
    <3>. QED  BY <1>4, <2>1, <2>2, <2>7, <3>1, <3>2, <3>5 DEF Recovered, RecoveredSpin
  <2>. QED  BY <2>6, <2>7
<1>. QED  BY <1>2, <1>3, <1>4

LEMMA CreatedSettles ==
  ASSUME NEW c \in Clients, NEW o, Calm(c, o, OnItsWay(c.th)), NEW s \in Sessions,
         game \in {"spin", "card", "skill"}
  PROVE  Settles(Created(c, s), o)
<1>1. PICK known : known = [id |-> s, status |-> "active", proof |-> FALSE]
  OBVIOUS
<1>2. PICK d : d = [c EXCEPT !.page.session = known]
  OBVIOUS
<1>3. /\ d \in Clients /\ d.th = c.th /\ d.cancels = c.cancels /\ d.page.status = c.page.status
      /\ d.page.failure = c.page.failure /\ d.page.phase = c.page.phase
  BY <1>1, <1>2 DEF Clients, Page, Known
<1>4. Calm(d, o, OnItsWay(d.th))
  BY <1>3 DEF Calm, Spoken, Mute, Entry
<1>5. CASE game = "spin"
  <2>1. PICK e : e = [d EXCEPT !.journal.pending = "commit"]
    OBVIOUS
  <2>2. e \in Clients /\ e.th = d.th /\ e.page = d.page /\ e.cancels = d.cancels
    BY <1>3, <2>1 DEF Clients, Journal, Request
  <2>3. Settles(Spin(e), o)
    BY <1>4, <2>2, SpinSettles DEF Calm
  <2>. QED  BY <1>1, <1>2, <1>5, <2>1, <2>3 DEF Created
<1>6. CASE game = "card"
  <2>1. PICK e : e = [d EXCEPT !.journal = [@ EXCEPT !.choice = c.th.choice, !.pending = "play"]]
    OBVIOUS
  <2>2. c.th.choice \in MaybeAnswer
    BY DEF Clients, Thread
  <2>3. e \in Clients /\ e.th = d.th /\ e.page = d.page /\ e.cancels = d.cancels
    BY <1>3, <2>1, <2>2 DEF Clients, Journal, Request
  <2>4. Settles(Await(e, "play", s, c.th.choice), o)
    BY <1>4, <2>3, AwaitSettles DEF Calm
  <2>. QED  BY <1>1, <1>2, <1>6, <2>1, <2>4 DEF Created
<1>7. CASE game = "skill"
  <2>1. PICK pg : pg = [d.page EXCEPT !.actions = None, !.status = "ready", !.failure = None,
                                      !.phase = "preview", !.preview = TRUE]
    OBVIOUS
  <2>2. PICK e : e = [d EXCEPT !.journal.pending = "play", !.page = pg]
    OBVIOUS
  <2>3. d.page \in Page /\ d.journal \in Journal
    BY <1>3 DEF Clients
  <2>4. pg \in Page /\ pg.status = "ready"
    BY <2>1, <2>3 DEF Page, MaybeAnswer
  <2>5. Shown(e)
    BY <1>3, <2>2, <2>3, <2>4 DEF Shown, Clients, Journal, Request
  <2>6. Settles(Return(e), o)
    BY <2>5, ShownIsCalm, ReturnSettles DEF Shown
  <2>. QED  BY <1>1, <1>2, <1>7, <2>1, <2>2, <2>6 DEF Created
<1>. QED  BY <1>5, <1>6, <1>7

LEMMA PlayedSettles ==
  ASSUME NEW c \in Clients, NEW o, Calm(c, o, OnItsWay(c.th)), NEW s \in MaybeSession,
         game \in {"spin", "card", "skill"}
  PROVE  Settles(Played(c, s), o)
<1>1. PICK d : d = [c EXCEPT !.page.outcome = s, !.journal.pending = "submit_score"]
  OBVIOUS
<1>2. /\ d \in Clients /\ d.th = c.th /\ d.cancels = c.cancels /\ d.page.status = c.page.status
      /\ d.page.failure = c.page.failure /\ d.page.phase = c.page.phase
  BY <1>1 DEF Clients, Page, Journal
<1>3. CASE game = "spin"
  <2>1. Calm(d, o, OnItsWay(d.th))
    BY <1>2 DEF Calm, Spoken, Mute, Entry
  <2>. QED  BY <1>1, <1>2, <1>3, <2>1, SubmitFinalScoreSettles DEF Played
<1>4. CASE game = "card"
  <2>1. PICK e : e = [d EXCEPT !.page = [@ EXCEPT !.choice = None, !.status = "result", !.failure = None]]
    OBVIOUS
  <2>2. e.page \in Page /\ e.page.status = "result"
    <3>1. PICK pg : pg = [d.page EXCEPT !.choice = None, !.status = "result", !.failure = None]
      OBVIOUS
    <3>2. d \in Clients
      BY <1>2
    <3>3. d.page \in Page /\ e.page = pg
      BY <2>1, <3>1, <3>2 DEF Clients
    <3>4. pg \in Page /\ pg.status = "result"
      BY <3>1, <3>3 DEF Page, MaybeAnswer
    <3>. QED  BY <3>3, <3>4
  <2>3. Shown(e)
    BY <1>2, <2>1, <2>2 DEF Shown, Clients
  <2>4. Settles(Await(e, "reward", None, None), o)
    BY <2>3, ShownIsCalm, AwaitSettles DEF Shown
  <2>. QED  BY <1>1, <1>4, <2>1, <2>4 DEF Played
<1>5. CASE game = "skill"
  <2>1. PICK e : e = [d EXCEPT !.page = [@ EXCEPT !.phase = "result", !.status = "result",
                                                  !.failure = None]]
    OBVIOUS
  <2>2. Shown(e)
    BY <1>2, <2>1, ZenonT(60) DEF Shown, Clients, Page
  <2>3. Settles(Await(e, "reward", None, None), o)
    BY <2>2, ShownIsCalm, AwaitSettles DEF Shown
  <2>. QED  BY <1>1, <1>5, <2>1, <2>3 DEF Played
<1>. QED  BY <1>3, <1>4, <1>5

LEMMA ResumeSettles ==
  ASSUME NEW c \in Clients, c.th.fn # "idle", c.th.at # "idle", NEW o, Calm(c, o, Owes(c.th)),
         NEW r \in Reply, r.code = "ok" /\ c.th.at = "create" => r.id # None,
         game \in {"spin", "card", "skill"}
  PROVE  Settles(Resume(c, r), o)
<1>1. CASE c.th.at \in {"score", "rescore"}
  BY <1>1, SubmittedSettles DEF Resume
<1>2. CASE c.th.at \notin {"score", "rescore"} /\ r.code # "ok"
  BY <1>2, ThrowSettles DEF Resume
<1>3. CASE c.th.at = "recover" /\ r.code = "ok"
  <2>1. c.th.stale => Calm(c, o, FALSE)
    BY <1>3 DEF Calm, Owes
  <2>. QED  BY <1>3, <2>1, ReturnSettles, RecoveredSettles DEF Resume
<1>4. CASE c.th.at \notin {"score", "rescore", "recover"} /\ r.code = "ok"
  <2>1. Calm(c, o, OnItsWay(c.th))
    BY <1>4 DEF Calm, Owes, OnItsWay
  <2>2. r.id \in MaybeSession
    BY DEF Reply
  <2>3. CASE c.th.at = "create"
    <3>1. r.id \in Sessions
      BY <1>4, <2>2, <2>3 DEF MaybeSession
    <3>. QED  BY <1>4, <2>1, <2>3, <3>1, CreatedSettles DEF Resume
  <2>4. CASE c.th.at = "commit"
    <3>1. PICK e : e = [c EXCEPT !.journal.commitment = r.id]
      OBVIOUS
    <3>2. e \in Clients /\ e.page = c.page /\ e.th = c.th /\ e.cancels = c.cancels
      BY <2>2, <3>1 DEF Clients, Journal
    <3>3. Settles(Evaluate(e, r.id), o)
      BY <2>1, <3>2, EvaluateSettles DEF Calm
    <3>. QED  BY <1>4, <2>4, <3>1, <3>3 DEF Resume
  <2>5. CASE c.th.at \in {"play", "evaluate"}
    BY <1>4, <2>1, <2>2, <2>5, PlayedSettles DEF Resume
  <2>6. CASE c.th.at = "reward"
    BY <1>4, <2>1, <2>6, SubmitFinalScoreSettles DEF Resume
  <2>7. CASE c.th.at = "proof"
    <3>1. PICK e : e = [c EXCEPT !.journal.pending = None]
      OBVIOUS
    <3>2. e \in Clients
      BY <3>1 DEF Clients, Journal
    <3>3. Settles(Verified(e), o)
      BY <3>2, VerifiedSettles
    <3>. QED  BY <1>4, <2>7, <3>1, <3>3 DEF Resume
  <2>8. c.th.at \in Request \cup Reads
    BY DEF Clients, Thread
  <2>. QED  BY <1>4, <2>3, <2>4, <2>5, <2>6, <2>7, <2>8 DEF Request, Reads, AsksState
<1>. QED  BY <1>1, <1>2, <1>3, <1>4

\* Thread t has run: the other one owes what it owed, unless t has cancelled it.
LEMMA RunCalm ==
  ASSUME PageInv, NEW t \in Threads, NEW d, Run(t, d),
         Settles(d, \E u \in Threads \ {t} : Owes(thread[u]))
  PROVE  CalmInv'
<1>1. page' = d.page /\ thread'[t] = d.th /\ game' = game
  BY DEF Run
<1>2. ASSUME NEW u \in Threads \ {t}, Owes(thread[u]), ~d.cancels
      PROVE  Owes(thread'[u])
  <2>1. PICK th : th = [thread[u] EXCEPT !.stale = @ \/ (d.cancels /\ thread[u].fn # "idle")]
    OBVIOUS
  <2>2. thread[u] \in Thread
    BY ThreadFacts
  <2>3. th.fn = thread[u].fn /\ th.at = thread[u].at /\ (th.stale <=> thread[u].stale)
    BY <1>2, <2>1, <2>2 DEF Thread
  <2>4. thread'[u] = th
    BY <2>1 DEF Run
  <2>. QED  BY <1>2, <2>3, <2>4 DEF Owes
<1>3. Mute(d.page) => Owes(d.th) \/ \E u \in Threads \ {t} : Owes(thread'[u])
  BY <1>2 DEF Settles, Calm
<1>4. (Spoken(page))' /\ ((Mute(page))' => \E u \in Threads : Owes(thread'[u]))
  BY <1>1, <1>3 DEF Settles, Calm, Spoken, Mute, Entry
<1>. QED  BY <1>1, <1>4 DEF CalmInv, Owes, Spoken, Mute, Entry

\* A function goes on, or a countdown starts one.
LEMMA FunctionCalm ==
  ASSUME PageInv, CalmInv, CountdownEnds \/ \E t \in Threads : Continue(t)
  PROVE  CalmInv'
<1>1. crossed \in BOOLEAN /\ None \in MaybeAnswer /\ "timer" \in Threads
  BY DEF PageInv, Types, MaybeAnswer, Threads
<1>2. CASE CountdownEnds
  <2>1. PICK c : c = Client("timer", None)
    OBVIOUS
  <2>2. c \in Clients
    BY <1>1, <2>1, ClientRuns
  <2>3. Run("timer", Recover(c, "countdown"))
    BY <1>2, <2>1 DEF CountdownEnds
  <2>4. \A o : Settles(Recover(c, "countdown"), o)
    BY <2>2, RecoverSettles DEF Owing
  <2>. QED  BY <1>1, <2>3, <2>4, RunCalm
<1>3. ASSUME NEW t \in Threads, Continue(t)
      PROVE  CalmInv'
  <2>1. PICK seed \in IF game = "spin" THEN Answers ELSE {None} :
          Run(t, Resume(Client(t, seed), thread[t].reply))
    BY <1>3 DEF Continue
  <2>2. PICK c : c = Client(t, seed)
    OBVIOUS
  <2>3. seed \in MaybeAnswer /\ game \in {"spin", "card", "skill"}
    BY GameAssumption DEF MaybeAnswer, PageInv, Types
  <2>4. c \in Clients /\ c.page = page /\ c.th = thread[t] /\ c.cancels = FALSE
    <3>1. c \in Clients
      BY <1>1, <2>2, <2>3, ClientRuns
    <3>. QED  BY <2>2, <3>1 DEF Client
  <2>5. PICK r : r = thread[t].reply
    OBVIOUS
  <2>6. r # None /\ thread[t] # Idle
    BY <1>3, <2>5 DEF Continue, Idle
  <2>7. r \in Reply /\ thread[t].fn # "idle" /\ thread[t].at # "idle" /\ AtWork(t, thread[t])
    BY <2>5, <2>6, ThreadFacts DEF Thread
  <2>8. PICK o \in BOOLEAN : o = \E u \in Threads \ {t} : Owes(thread[u])
    OBVIOUS
  <2>9. Calm(c, o, Owes(c.th))
    BY <2>4, <2>8 DEF CalmInv, Calm
  <2>10. Settles(Resume(c, r), o)
    BY <2>3, <2>4, <2>5, <2>6, <2>7, <2>9, ResumeSettles DEF AtWork
  <2>11. Run(t, Resume(c, r))
    BY <2>1, <2>2, <2>5
  <2>. QED  BY <2>8, <2>10, <2>11, RunCalm
<1>. QED  BY <1>2, <1>3

\* What a control starts settles the page: it submits, or recovers to play.
LEMMA VisitorCalm ==
  ASSUME PageInv, \/ \E v \in Answers : SpinClicked(v) \/ Choose(v)
                  \/ ResumeClicked \/ Start \/ Submit
  PROVE  CalmInv'
<1>1. /\ crossed \in BOOLEAN /\ None \in MaybeAnswer /\ "main" \in Threads
      /\ page.choice \in MaybeAnswer /\ ~page.busy
  BY DEF PageInv, Types, Page, MaybeAnswer, Threads, SpinClicked, Choose, CanChoose, ResumeClicked,
         Start, CanStart, Submit, CanSubmit
<1>2. ASSUME NEW d, \A o : Settles(d, o), Run("main", d)
      PROVE  CalmInv'
  BY <1>1, <1>2, RunCalm
<1>3. ASSUME NEW c, Shown(c) PROVE \A o : Calm(c, o, OnItsWay(c.th))
  BY <1>3, ShownIsCalm
<1>4. ASSUME NEW v \in Answers, SpinClicked(v) PROVE CalmInv'
  <2>1. PICK p : p = Press(Client("main", v))
    OBVIOUS
  <2>2. PICK c : c = [p EXCEPT !.page.failure = None]
    OBVIOUS
  <2>3. p \in Clients /\ p.page.status = "submitting"
    BY <1>1, <2>1, PressRuns DEF MaybeAnswer
  <2>4. Shown(c)
    BY <2>2, <2>3 DEF Shown, Clients, Page
  <2>5. PICK e : e = [c EXCEPT !.cancels = TRUE]
    OBVIOUS
  <2>6. Shown(e)
    BY <2>4, <2>5 DEF Shown, Clients
  <2>7. \A o : Settles(Spin(c), o) /\ Settles(Create(e), o)
    BY <1>3, <2>4, <2>6, SpinSettles, CreateSettles DEF Shown
  <2>8. Run("main", IF Active(page) THEN Spin(c) ELSE Create(e))
    BY <1>4, <2>1, <2>2, <2>5 DEF SpinClicked, Click
  <2>. QED  BY <1>2, <2>7, <2>8
<1>5. ASSUME NEW v \in Answers, Choose(v) PROVE CalmInv'
  <2>1. Client("main", None) \in Clients
    BY <1>1, ClientRuns
  <2>2. \A o : Settles(PlayChoice(Client("main", None), v), o)
    BY <2>1, PlayChoiceSettles DEF MaybeAnswer
  <2>3. Run("main", PlayChoice(Client("main", None), v))
    BY <1>5 DEF Choose, Click
  <2>. QED  BY <1>2, <2>2, <2>3
<1>6. CASE ResumeClicked
  <2>1. PICK c : c = Client("main", None)
    OBVIOUS
  <2>2. c \in Clients
    BY <1>1, <2>1, ClientRuns
  <2>3. PICK e : e = [c EXCEPT !.page.busy = TRUE, !.th.choice = page.choice]
    OBVIOUS
  <2>4. e \in Clients
    BY <1>1, <2>2, <2>3, ZenonT(60) DEF Clients, Page, Thread
  <2>5. \A o : Settles(Recover(e, "resume"), o)
    BY <2>4, RecoverSettles DEF Owing
  <2>6. Run("main", Recover(e, "resume"))
    BY <1>6, <2>1, <2>3 DEF ResumeClicked, Click
  <2>. QED  BY <1>2, <2>5, <2>6
<1>7. PICK p : p = Press(Client("main", None))
  OBVIOUS
<1>8. p \in Clients /\ p.page.status = "submitting"
  BY <1>1, <1>7, PressRuns
<1>9. CASE Start
  <2>1. PICK e : e = [p EXCEPT !.page.phase = "intro", !.page.locked = FALSE]
    OBVIOUS
  <2>2. Shown(e)
    BY <1>8, <2>1 DEF Shown, Clients, Page
  <2>3. \A o : Settles(Create(e), o)
    BY <1>3, <2>2, CreateSettles DEF Shown
  <2>4. Run("main", Create(e))
    BY <1>7, <1>9, <2>1 DEF Start, Click
  <2>. QED  BY <1>2, <2>3, <2>4
<1>10. CASE Submit
  <2>1. PICK e : e = [p EXCEPT !.journal = [@ EXCEPT !.actions = page.actions, !.pending = "play"]]
    OBVIOUS
  <2>2. page.actions \in MaybeAnswer
    BY DEF PageInv, Types, Page
  <2>3. Shown(e)
    BY <1>8, <2>1, <2>2 DEF Shown, Clients, Journal, Request
  <2>4. \A o : Settles(Await(e, "play", page.session.id, page.actions), o)
    BY <1>3, <2>3, AwaitSettles DEF Shown
  <2>5. Run("main", Await(e, "play", page.session.id, page.actions))
    BY <1>7, <1>10, <2>1 DEF Submit, Click
  <2>. QED  BY <1>2, <2>4, <2>5
<1>. QED  BY <1>4, <1>5, <1>6, <1>9, <1>10

\* A page that is loaded is owed its first status.
LEMMA LoadedCalm ==
  ASSUME page' = NewPage, thread' = Loaded
  PROVE  CalmInv'
<1>1. (\E t \in Threads : Owes(thread[t]))'
  <2>1. "main" \in Threads /\ thread'["main"] = Loading
    BY DEF Threads, Loaded
  <2>2. Loading.fn = "load" /\ Loading.at = "recover" /\ ~Loading.stale
    BY DEF Loading, Idle
  <2>. QED  BY <2>1, <2>2 DEF Owes, Owing
<1>2. (Spoken(page))'
  BY DEF Spoken, NewPage
<1>. QED  BY <1>1, <1>2 DEF CalmInv

\* Nothing else changes what the page shows or a function owes, but for the digits.
LEMMA StillCalm ==
  ASSUME CalmInv, game' = game,
         \A t \in Threads : /\ thread'[t].fn = thread[t].fn /\ thread'[t].at = thread[t].at
                            /\ thread'[t].stale = thread[t].stale,
         \/ page'.status = page.status /\ page'.failure = page.failure /\ page'.phase = page.phase
         \/ game = "skill" /\ page'.phase = "input"
  PROVE  CalmInv'
<1>1. \A t \in Threads : Owes(thread[t]) => (Owes(thread[t]))'
  BY DEF Owes
<1>2. (Spoken(page))'
  BY DEF CalmInv, Spoken, Entry
<1>3. (Mute(page))' => Mute(page)
  BY DEF Mute, Entry
<1>. QED  BY <1>1, <1>2, <1>3 DEF CalmInv

LEMMA NextCalm ==
  ASSUME PageInv, CalmInv, [Next]_vars
  PROVE  CalmInv'
<1>1. CASE \/ \E v \in Answers : SpinClicked(v) \/ Choose(v)
           \/ ResumeClicked \/ Start \/ Submit
  BY <1>1, VisitorCalm
<1>2. CASE CountdownEnds \/ \E t \in Threads : Continue(t)
  BY <1>2, FunctionCalm
<1>3. CASE (\E v \in Answers : EnterActions(v)) \/ PreviewEnds
  <2>1. page \in Page
    BY DEF PageInv, Types
  <2>2. CASE PreviewEnds
    <3>1. page'.phase = "input" /\ game = "skill"
      BY <2>1, <2>2 DEF PreviewEnds, Page
    <3>. QED  BY <2>2, <3>1, StillCalm DEF PreviewEnds
  <2>3. ASSUME NEW v \in Answers, EnterActions(v) PROVE CalmInv'
    <3>1. page'.status = page.status /\ page'.failure = page.failure /\ page'.phase = page.phase
      BY <2>1, <2>3 DEF EnterActions, Page
    <3>. QED  BY <2>3, <3>1, StillCalm DEF EnterActions
  <2>. QED  BY <1>3, <2>2, <2>3
<1>4. ASSUME NEW t \in Threads, Serve(t) \/ Lose(t) \/ Fail(t)
      PROVE  CalmInv'
  <2>1. PICK r : Answer(t, r)
    BY <1>4 DEF Serve, Lose, Fail
  <2>2. DOMAIN thread = Threads /\ thread[t] \in Thread
    BY ThreadFacts
  <2>3. PICK th : th = [thread[t] EXCEPT !.reply = r]
    OBVIOUS
  <2>4. th.fn = thread[t].fn /\ th.at = thread[t].at /\ th.stale = thread[t].stale
    BY <2>2, <2>3 DEF Thread
  <2>5. thread' = [thread EXCEPT ![t] = th]
    BY <2>1, <2>3 DEF Answer
  <2>6. \A u \in Threads : /\ thread'[u].fn = thread[u].fn /\ thread'[u].at = thread[u].at
                           /\ thread'[u].stale = thread[u].stale
    BY <2>2, <2>4, <2>5
  <2>. QED  BY <1>4, <2>6, StillCalm DEF Serve, Lose, Fail
<1>5. CASE Reload
  BY <1>5, LoadedCalm DEF Reload
<1>6. CASE \/ \E l \in late : ServeLate(l)
           \/ Time(PassExpiry) \/ Time(CoolDown) \/ Time(CloseWeek)
           \/ UNCHANGED vars
  BY <1>6, StillCalm DEF ServeLate, Time, vars
<1>. QED  BY <1>1, <1>2, <1>3, <1>4, <1>5, <1>6 DEF Next

\* A page at rest is not submitting, and only a page on which functions crossed rests
\* in a cooldown without a countdown.  No function is left to owe it a status.
LEMMA DeadEnds ==
  ASSUME PageInv, CalmInv
  PROVE  OnlyKnownDeadEnds
<1>. SUFFICES ASSUME AtRest
              PROVE  Control \/ SaysFailed \/ CountdownFailed \/ CountdownFailedUnseen
                     \/ ExpiredForGood \/ ChoiceWithoutSession \/ PlayedLocally
  BY DEF OnlyKnownDeadEnds
<1>1. thread["main"].fn = "idle" /\ page.busy = FALSE
  BY DEF AtRest, Threads, PageInv, Types, Page
<1>2. page.status # "submitting"
  BY <1>1 DEF PageInv, Submitting
<1>3. page.status \in {"ready", "cooldown", "recovering", "result", "expired", "terminal_error"}
  BY <1>2 DEF PageInv, Types, Page
<1>4. Leads(page, crossed) /\ game \in {"spin", "card", "skill"}
  BY GameAssumption DEF PageInv, Types
<1>5. CASE page.status \in {"recovering", "terminal_error"}
  <2>1. ~Mute(page) /\ Spoken(page)
    BY DEF CalmInv, AtRest, Owes, Owing
  <2>2. page.failure \in {None, "told", "unheard"}
    BY DEF PageInv, Types, Page
  <2>. QED
    BY <1>5, <2>1, <2>2 DEF Mute, Spoken, Entry, Control, SaysFailed, CountdownFailed
<1>6. CASE page.status = "cooldown"
  BY <1>4, <1>6 DEF Leads, Control, CountdownFailedUnseen
<1>7. CASE page.status \in {"ready", "result"}
  <2>1. CASE game = "spin"
    BY <1>7, <2>1 DEF Control, Offered
  <2>2. CASE game = "card"
    BY <1>1, <1>4, <1>7, <2>2
       DEF Leads, Control, Offered, CanChoose, HasPendingChoice, ChoiceWithoutSession
  <2>3. CASE game = "skill"
    BY <1>1, <1>4, <1>7, <2>3 DEF Leads, Control, Offered, CanStart, PlayedLocally
  <2>. QED  BY <1>4, <2>1, <2>2, <2>3
<1>8. CASE page.status = "expired"
  BY <1>8 DEF ExpiredForGood
<1>. QED  BY <1>3, <1>5, <1>6, <1>7, <1>8

\* The page has no dead ends but the five that are named: at rest it offers a control,
\* counts down to one or shows the message of an error, whatever was lost, comes late
\* or crosses, for any number of sessions, answers and disturbances.
THEOREM NoOtherDeadEnds == Spec => []OnlyKnownDeadEnds
<1>1. Init => PageInv /\ CalmInv
  <2>1. Init => CalmInv
    <3>1. "main" \in Threads /\ Loading.fn = "load" /\ Loading.at = "recover" /\ ~Loading.stale
      BY DEF Threads, Loading, Idle
    <3>. QED  BY <3>1 DEF Init, CalmInv, Owes, Owing, Spoken, NewPage, Loaded
  <2>. QED  BY <2>1, InitPageInv
<1>2. PageInv /\ CalmInv /\ [Next]_vars => (PageInv /\ CalmInv)'
  BY NextPageInv, NextCalm
<1>3. PageInv /\ CalmInv => OnlyKnownDeadEnds
  BY DeadEnds
<1>. QED  BY <1>1, <1>2, <1>3, PTL DEF Spec

------------------------------------------------------------------------------
(***************************************************************************)
(* What is played is given.  The digits of a round go out with the round's *)
(* submission and with nothing else: a function of the skill check that    *)
(* goes on does not come to play.                                          *)
(***************************************************************************)
Entered(x) == x.at # "evaluate" /\ (x.at = "play" => x.answer # None)

RoundInv ==
  game = "skill" =>
    /\ \A l \in late : Entered(l)
    /\ \A t \in Threads : Entered(thread[t]) /\ thread[t].fn # "resume"

\* A client whose function ends somewhere else than at play.
Whole(c) ==
  /\ c = [page |-> c.page, journal |-> c.journal, th |-> c.th, cancels |-> c.cancels,
          seed |-> c.seed]
  /\ c.th \in Thread /\ c.th.fn # "resume"

Waits(d) == d.th.at \notin {"play", "evaluate"} /\ d.th.fn # "resume"

LEMMA AwaitWaits ==
  ASSUME NEW c, Whole(c), NEW at, at \notin {"play", "evaluate"}, NEW s, NEW a
  PROVE  Waits(Await(c, at, s, a))
<1>1. PICK th : th = [c.th EXCEPT !.at = at, !.session = s, !.answer = a, !.reply = None]
  OBVIOUS
<1>2. th.at = at /\ th.fn = c.th.fn
  BY <1>1 DEF Whole, Thread
<1>3. Await(c, at, s, a).th = th
  BY <1>1 DEF Await, Whole
<1>. QED  BY <1>2, <1>3 DEF Waits, Whole

\* A function that ends leaves the thread idle.
LEMMA IdleWaits ==
  ASSUME NEW d, d.th = Idle
  PROVE  Waits(d)
BY DEF Waits, Idle

LEMMA RecoverWaits ==
  ASSUME NEW c, Whole(c), NEW fn \in {"caught", "countdown"}
  PROVE  Waits(Recover(c, fn))
<1>1. PICK th : th = [c.th EXCEPT !.fn = fn, !.stale = FALSE]
  OBVIOUS
<1>2. th \in Thread /\ th.fn = fn
  BY <1>1 DEF Whole, Thread
<1>3. PICK e : e = [c EXCEPT !.th = [@ EXCEPT !.fn = fn, !.stale = FALSE],
                             !.page = [@ EXCEPT !.status = "recovering", !.countdown = FALSE,
                                                !.preview = FALSE]]
  OBVIOUS
<1>4. Whole(e)
  BY <1>1, <1>2, <1>3 DEF Whole
<1>5. Waits(Await(e, "recover", None, None))
  BY <1>4, AwaitWaits
<1>. QED  BY <1>3, <1>5 DEF Recover

LEMMA CreateWaits ==
  ASSUME NEW c, Whole(c)
  PROVE  Waits(Create(c))
<1>1. PICK e : e = [c EXCEPT !.page = [@ EXCEPT !.outcome = None, !.score = None],
                             !.journal.pending = "create_session"]
  OBVIOUS
<1>2. Whole(e)
  BY <1>1 DEF Whole
<1>3. Waits(Await(e, "create", None, None))
  BY <1>2, AwaitWaits
<1>. QED  BY <1>1, <1>3 DEF Create

LEMMA ReturnWaits ==
  ASSUME NEW c, Whole(c)
  PROVE  Waits(Return(c))
<1>1. PICK done : done = [c EXCEPT !.th = Idle]
  OBVIOUS
<1>2. PICK free : free = [done EXCEPT !.page.busy = FALSE]
  OBVIOUS
<1>3. done.th = Idle /\ free.th = Idle
  BY <1>1, <1>2 DEF Whole
<1>4. Return(c) = done \/ Return(c) = free
  BY <1>1, <1>2 DEF Return, Whole
<1>. QED  BY <1>3, <1>4, IdleWaits

LEMMA ThrowWaits ==
  ASSUME NEW c, Whole(c), c.th.fn # "idle", NEW code
  PROVE  Waits(Throw(c, code))
<1>1. PICK free : free = [c EXCEPT !.th = Idle, !.page.busy = FALSE]
  OBVIOUS
<1>2. PICK caught : caught = [c EXCEPT !.cancels = game = "spin",
                                       !.page = [@ EXCEPT
                           !.status = IF code = "session_expired" THEN "expired" ELSE "recovering",
                           !.failure = "told"]]
  OBVIOUS
<1>3. PICK done : done = [c EXCEPT !.th = Idle,
                                   !.page.failure = IF @ = "told" THEN @ ELSE "unheard"]
  OBVIOUS
<1>4. free.th = Idle /\ done.th = Idle /\ Whole(caught)
  BY <1>1, <1>2, <1>3 DEF Whole
<1>5. PICK e : e = [free EXCEPT !.page = [@ EXCEPT !.status = "terminal_error", !.failure = "told"]]
  OBVIOUS
<1>6. PICK g : g = [caught EXCEPT !.th = Idle, !.page.busy = FALSE]
  OBVIOUS
<1>7. e.th = Idle
  BY <1>1, <1>5 DEF Whole
<1>8. g.th = Idle
  BY <1>4, <1>6 DEF Whole
<1>9. Waits(free) /\ Waits(done) /\ Waits(e) /\ Waits(g) /\ Waits(Recover(caught, "caught"))
  BY <1>4, <1>7, <1>8, IdleWaits, RecoverWaits
<1>10. c.th.fn \in {"load", "action", "caught", "countdown"}
  BY DEF Whole, Thread
<1>11. CASE c.th.fn \in {"load", "caught", "countdown"}
  BY <1>1, <1>3, <1>5, <1>9, <1>11 DEF Throw
<1>12. CASE c.th.fn = "action"
  BY <1>2, <1>6, <1>9, <1>12 DEF Throw
<1>. QED  BY <1>10, <1>11, <1>12

LEMMA SubmitFinalScoreWaits ==
  ASSUME NEW c, Whole(c), game = "skill"
  PROVE  Waits(SubmitFinalScore(c)) /\ Waits(AfterScore(c))
<1>1. PICK e : e = [c EXCEPT !.journal.pending = "submit_score"]
  OBVIOUS
<1>2. Whole(e)
  BY <1>1 DEF Whole
<1>3. Waits(Await(e, "score", c.page.session.id, None)) /\ Waits(Return(c))
  BY <1>2, AwaitWaits, ReturnWaits
<1>. QED  BY <1>1, <1>3 DEF SubmitFinalScore, AfterScore

LEMMA SubmittedWaits ==
  ASSUME NEW c, Whole(c), c.th.fn # "idle", game = "skill", NEW r \in Reply
  PROVE  Waits(Submitted(c, r)) /\ Waits(Reread(c, r))
<1>1. ASSUME NEW s PROVE Waits(Scored(c, s))
  <2>1. PICK e : e = [c EXCEPT !.page.score = s, !.journal.pending = None]
    OBVIOUS
  <2>2. Whole(e)
    BY <2>1 DEF Whole
  <2>. QED  BY <2>1, <2>2, SubmitFinalScoreWaits DEF Scored
<1>2. PICK e : e = [c EXCEPT !.th.error = r.code]
  OBVIOUS
<1>3. PICK th : th = [c.th EXCEPT !.error = r.code]
  OBVIOUS
<1>4. th \in Thread /\ th.fn = c.th.fn
  BY <1>3 DEF Whole, Thread, Reply
<1>5. Whole(e)
  BY <1>2, <1>3, <1>4 DEF Whole
<1>6. Waits(Await(e, "rescore", None, None))
  BY <1>5, AwaitWaits
<1>7. \A code : Waits(Throw(c, code))
  BY ThrowWaits
<1>. QED  BY <1>1, <1>2, <1>6, <1>7 DEF Submitted, Reread

LEMMA RecoveredSkillWaits ==
  ASSUME NEW c, Whole(c), game = "skill", NEW r \in Reply
  PROVE  Waits(RecoveredSkill(c, r))
<1>1. PICK th : th = [c.th EXCEPT !.cooling = r.cooling]
  OBVIOUS
<1>2. th \in Thread /\ th.fn = c.th.fn
  BY <1>1 DEF Whole, Thread, Reply
<1>3. PICK a : a = Adopt(c, r)
  OBVIOUS
<1>4. Whole(a)
  BY <1>1, <1>2, <1>3 DEF Adopt, Whole
<1>5. \E pg : RecoveredSkill(c, r) = Conclude([a EXCEPT !.page = pg], r.state)
  BY <1>3 DEF RecoveredSkill
<1>6. ASSUME NEW pg PROVE Whole([a EXCEPT !.page = pg])
  BY <1>4 DEF Whole
<1>. QED  BY <1>5, <1>6, SubmitFinalScoreWaits, ReturnWaits DEF Conclude

LEMMA ResumeWaits ==
  ASSUME NEW c, Whole(c), c.th.fn # "idle", c.th.at # "idle", game = "skill", NEW r \in Reply,
         c.th.at \in {"commit", "evaluate", "proof"} => game = "spin"
  PROVE  Waits(Resume(c, r))
<1>1. CASE c.th.at \in {"score", "rescore"} \/ r.code # "ok"
  BY <1>1, SubmittedWaits, ThrowWaits DEF Resume
<1>2. CASE c.th.at = "recover" /\ r.code = "ok"
  BY <1>2, ReturnWaits, RecoveredSkillWaits DEF Resume, Recovered
<1>3. CASE c.th.at = "create" /\ r.code = "ok"
  <2>1. PICK known : known = [id |-> r.id, status |-> "active", proof |-> FALSE]
    OBVIOUS
  <2>2. PICK d : d = [c EXCEPT !.page.session = known]
    OBVIOUS
  <2>3. PICK e : e = [d EXCEPT !.journal.pending = "play",
                               !.page = [@ EXCEPT !.actions = None, !.status = "ready", !.failure = None,
                                                  !.phase = "preview", !.preview = TRUE]]
    OBVIOUS
  <2>4. Whole(e)
    <3>1. Whole(d)
      BY <2>2 DEF Whole
    <3>. QED  BY <2>3, <3>1 DEF Whole
  <2>5. Created(c, r.id) = Return(e)
    BY <2>1, <2>2, <2>3 DEF Created
  <2>6. Resume(c, r) = Created(c, r.id)
    BY <1>3 DEF Resume
  <2>. QED  BY <2>4, <2>5, <2>6, ReturnWaits
<1>4. CASE c.th.at = "play" /\ r.code = "ok"
  <2>1. PICK d : d = [c EXCEPT !.page.outcome = r.id, !.journal.pending = "submit_score"]
    OBVIOUS
  <2>2. PICK e : e = [d EXCEPT !.page = [@ EXCEPT !.phase = "result", !.status = "result",
                                              !.failure = None]]
    OBVIOUS
  <2>3. Whole(e)
    <3>1. Whole(d)
      BY <2>1 DEF Whole
    <3>. QED  BY <2>2, <3>1 DEF Whole
  <2>4. Played(c, r.id) = Await(e, "reward", None, None)
    BY <2>1, <2>2 DEF Played
  <2>5. Resume(c, r) = Played(c, r.id)
    BY <1>4 DEF Resume
  <2>. QED  BY <2>3, <2>4, <2>5, AwaitWaits
<1>5. CASE c.th.at = "reward" /\ r.code = "ok"
  BY <1>5, SubmitFinalScoreWaits DEF Resume
<1>6. c.th.at \in Request \cup Reads
  BY DEF Whole, Thread
<1>. QED  BY <1>1, <1>2, <1>3, <1>4, <1>5, <1>6 DEF Request, Reads, AsksState

\* Thread t has run, and has not come to play or plays what was entered.
LEMMA RunRounds ==
  ASSUME PageInv, RoundInv, game = "skill", NEW t \in Threads, NEW d, Run(t, d),
         Entered(d.th) /\ d.th.fn # "resume", late' = late
  PROVE  RoundInv'
<1>1. \A l \in late : Entered(l)
  BY DEF RoundInv
<1>2. ASSUME NEW u \in Threads
      PROVE  Entered(thread'[u]) /\ thread'[u].fn # "resume"
  <2>1. CASE u = t
    BY <2>1 DEF Run
  <2>2. CASE u # t
    BY <2>2, OtherThread DEF RoundInv, Entered
  <2>. QED  BY <2>1, <2>2
<1>. QED  BY <1>1, <1>2 DEF RoundInv, Entered

LEMMA ClientIsWhole ==
  ASSUME NEW c \in Clients, c.th.fn # "resume"
  PROVE  Whole(c)
BY DEF Clients, Whole

LEMMA VisitorRounds ==
  ASSUME PageInv, RoundInv, game = "skill", Start \/ Submit
  PROVE  RoundInv'
<1>1. PICK c : c = Press(Client("main", None))
  OBVIOUS
<1>2. "main" \in Threads /\ None \in MaybeAnswer /\ ~page.busy
  BY DEF Threads, MaybeAnswer, Start, CanStart, Submit, CanSubmit
<1>3. c \in Clients /\ c.th = [Idle EXCEPT !.fn = "action"]
  BY <1>1, <1>2, PressRuns
<1>4. c.th.fn = "action"
  BY <1>3 DEF Idle
<1>5. Whole(c)
  BY <1>3, <1>4, ClientIsWhole
<1>6. CASE Start
  <2>1. PICK e : e = [c EXCEPT !.page.phase = "intro", !.page.locked = FALSE]
    OBVIOUS
  <2>2. Whole(e)
    BY <1>5, <2>1 DEF Whole
  <2>3. Waits(Create(e))
    BY <2>2, CreateWaits
  <2>4. Run("main", Create(e)) /\ late' = late
    BY <1>1, <1>6, <2>1 DEF Start, Click
  <2>. QED  BY <1>2, <2>3, <2>4, RunRounds DEF Waits, Entered
<1>7. CASE Submit
  <2>1. PICK e : e = [c EXCEPT !.journal = [@ EXCEPT !.actions = page.actions, !.pending = "play"]]
    OBVIOUS
  <2>2. Whole(e) /\ e.th = c.th
    BY <1>5, <2>1 DEF Whole
  <2>3. PICK d : d = Await(e, "play", page.session.id, page.actions)
    OBVIOUS
  <2>4. d.th.at = "play" /\ d.th.answer = page.actions /\ d.th.fn = "action"
    <3>1. PICK th : th = [e.th EXCEPT !.at = "play", !.session = page.session.id,
                                      !.answer = page.actions, !.reply = None]
      OBVIOUS
    <3>2. th.at = "play" /\ th.answer = page.actions /\ th.fn = "action"
      BY <1>4, <2>2, <3>1 DEF Whole, Thread
    <3>3. d.th = th
      BY <2>2, <2>3, <3>1 DEF Await, Whole
    <3>. QED  BY <3>2, <3>3
  <2>5. Run("main", d) /\ late' = late /\ page.actions # None
    BY <1>1, <1>7, <2>1, <2>3 DEF Submit, CanSubmit, Click
  <2>. QED  BY <1>2, <2>4, <2>5, RunRounds DEF Entered
<1>. QED  BY <1>6, <1>7

LEMMA FunctionRounds ==
  ASSUME PageInv, RoundInv, game = "skill", CountdownEnds \/ \E t \in Threads : Continue(t)
  PROVE  RoundInv'
<1>1. ASSUME NEW t \in Threads, NEW c, c = Client(t, None)
      PROVE  c.th = thread[t] /\ Whole(c)
  <2>1. thread[t] \in Thread /\ thread[t].fn # "resume"
    BY ThreadFacts DEF RoundInv
  <2>. QED  BY <1>1, <2>1 DEF Client, Whole
<1>2. CASE CountdownEnds
  <2>1. PICK c : c = Client("timer", None)
    OBVIOUS
  <2>2. Whole(c) /\ "timer" \in Threads
    BY <1>1, <2>1 DEF Threads
  <2>3. Run("timer", Recover(c, "countdown")) /\ late' = late
    BY <1>2, <2>1 DEF CountdownEnds
  <2>4. Waits(Recover(c, "countdown"))
    BY <2>2, RecoverWaits
  <2>. QED  BY <2>2, <2>3, <2>4, RunRounds DEF Waits, Entered
<1>3. ASSUME NEW t \in Threads, Continue(t)
      PROVE  RoundInv'
  <2>1. PICK c : c = Client(t, None)
    OBVIOUS
  <2>2. c.th = thread[t] /\ Whole(c)
    BY <1>1, <2>1
  <2>3. PICK r : r = thread[t].reply
    OBVIOUS
  <2>4. r # None /\ thread[t] # Idle
    BY <1>3, <2>3 DEF Continue, Idle
  <2>5. r \in Reply /\ thread[t].fn # "idle" /\ thread[t].at # "idle" /\ AtWork(t, thread[t])
    BY <2>3, <2>4, ThreadFacts DEF Thread
  <2>6. Waits(Resume(c, r))
    BY <2>2, <2>5, ResumeWaits DEF AtWork
  <2>7. Run(t, Resume(c, r)) /\ late' = late
    BY <1>3, <2>1, <2>3 DEF Continue
  <2>. QED  BY <2>6, <2>7, RunRounds DEF Waits, Entered
<1>. QED  BY <1>2, <1>3

\* The server, the network and the page's loading leave what the functions ask.
LEMMA OtherRounds ==
  ASSUME PageInv, RoundInv, late' \subseteq late \cup Given(Threads), game' = game,
         \/ \A u \in Threads : /\ thread'[u].fn = thread[u].fn /\ thread'[u].at = thread[u].at
                               /\ thread'[u].answer = thread[u].answer
         \/ thread' = Loaded
  PROVE  RoundInv'
<1>. SUFFICES ASSUME game = "skill" PROVE RoundInv'
  BY DEF RoundInv
<1>1. \A l \in Given(Threads) : Entered(l)
  BY DEF Given, RoundInv, Entered
<1>2. \A l \in late' : Entered(l)
  BY <1>1 DEF RoundInv
<1>3. \A u \in Threads : Entered(thread'[u]) /\ thread'[u].fn # "resume"
  <2>1. CASE thread' = Loaded
    BY <2>1 DEF Loaded, Loading, Idle, Entered
  <2>2. CASE \A u \in Threads : /\ thread'[u].fn = thread[u].fn /\ thread'[u].at = thread[u].at
                                /\ thread'[u].answer = thread[u].answer
    BY <2>2 DEF RoundInv, Entered
  <2>. QED  BY <2>1, <2>2
<1>. QED  BY <1>2, <1>3 DEF RoundInv, Entered

LEMMA NextRounds ==
  ASSUME PageInv, RoundInv, [Next]_vars
  PROVE  RoundInv'
<1>1. CASE game # "skill"
  <2>1. game' = game
    BY DEF Next, SpinClicked, Choose, EnterActions, ResumeClicked, Start, Submit, PreviewEnds,
           CountdownEnds, Continue, Serve, Lose, Fail, ServeLate, Time, Reload, Click, Run, vars
  <2>. QED  BY <1>1, <2>1 DEF RoundInv
<1>2. CASE game = "skill"
  <2>1. CASE Start \/ Submit
    BY <1>2, <2>1, VisitorRounds
  <2>2. CASE CountdownEnds \/ \E t \in Threads : Continue(t)
    BY <1>2, <2>2, FunctionRounds
  <2>3. CASE \E v \in Answers : SpinClicked(v) \/ Choose(v)
    BY <1>2, <2>3 DEF SpinClicked, Choose
  <2>4. CASE ResumeClicked
    BY <1>2, <2>4 DEF ResumeClicked
  <2>5. CASE \E v \in Answers : EnterActions(v)
    BY <2>5, OtherRounds DEF EnterActions
  <2>6. CASE PreviewEnds
    BY <2>6, OtherRounds DEF PreviewEnds
  <2>7. ASSUME NEW t \in Threads, Serve(t) \/ Lose(t) \/ Fail(t)
        PROVE  RoundInv'
    <3>1. PICK r : Answer(t, r)
      BY <2>7 DEF Serve, Lose, Fail
    <3>2. \A u \in Threads : /\ thread'[u].fn = thread[u].fn /\ thread'[u].at = thread[u].at
                             /\ thread'[u].answer = thread[u].answer
      <4>1. DOMAIN thread = Threads /\ thread[t] \in Thread
        BY <2>7, ThreadFacts
      <4>2. PICK th : th = [thread[t] EXCEPT !.reply = r]
        OBVIOUS
      <4>3. th.fn = thread[t].fn /\ th.at = thread[t].at /\ th.answer = thread[t].answer
        BY <4>1, <4>2 DEF Thread
      <4>4. thread' = [thread EXCEPT ![t] = th]
        BY <3>1, <4>2 DEF Answer
      <4>. QED  BY <4>1, <4>3, <4>4
    <3>3. late' \subseteq late \cup Given(Threads) /\ game' = game
      BY <2>7 DEF Serve, Lose, Fail, Given
    <3>. QED  BY <3>2, <3>3, OtherRounds
  <2>8. CASE \E l \in late : ServeLate(l)
    BY <2>8, OtherRounds DEF ServeLate
  <2>9. CASE Time(PassExpiry) \/ Time(CoolDown) \/ Time(CloseWeek)
    BY <2>9, OtherRounds DEF Time
  <2>10. CASE Reload
    BY <2>10, OtherRounds DEF Reload
  <2>11. CASE UNCHANGED vars
    BY <2>11, OtherRounds DEF vars
  <2>. QED
    BY <2>1, <2>2, <2>3, <2>4, <2>5, <2>6, <2>7, <2>8, <2>9, <2>10, <2>11 DEF Next
<1>. QED  BY <1>1, <1>2

------------------------------------------------------------------------------
(***************************************************************************)
(* The server of the pages keeps the contract that GameSessions            *)
(* implements.  A session is the play of the request that made it; one     *)
(* that is due is still active, and no reward is claimed.                  *)
(***************************************************************************)
NoPlay == [state |-> "absent", player |-> None, game |-> None, answer |-> None,
           reward |-> "absent"]

PlayOf(s, g) ==
  [state |-> IF s.status = "due" THEN "active" ELSE s.status, player |-> "visitor", game |-> g,
   answer |-> s.answer, reward |-> IF s.status = "completed" THEN "issued" ELSE "absent"]

LifeOf(S, g) == [r \in Sessions |-> IF r \in DOMAIN S THEN PlayOf(S[r], g) ELSE NoPlay]

Life == LifeOf(sessions, game)

Contract == INSTANCE SessionContract WITH
  Players <- {"visitor"}, Requests <- Sessions, Intents <- Answers, life <- Life

\* The play that starts.
LEMMA NewPlay ==
  ASSUME NEW g
  PROVE  [NoPlay EXCEPT !.state = "active", !.player = "visitor", !.game = g]
           = [state |-> "active", player |-> "visitor", game |-> g, answer |-> None,
              reward |-> "absent"]
<1>1. PICK n : n = [NoPlay EXCEPT !.state = "active", !.player = "visitor", !.game = g]
  OBVIOUS
<1>2. n = [state |-> "active", player |-> "visitor", game |-> g, answer |-> None,
           reward |-> "absent"]
  BY <1>1 DEF NoPlay
<1>. QED  BY <1>1, <1>2

\* One session changes, in what the contract does not show or to v.
LEMMA ChangedLife ==
  ASSUME WellFormed(sessions, cooling), NEW s, NEW v
  PROVE  LifeOf([sessions EXCEPT ![s] = v], game) =
           IF s \in DOMAIN sessions THEN [Life EXCEPT ![s] = PlayOf(v, game)] ELSE Life
<1>1. PICK T : T = [sessions EXCEPT ![s] = v]
  OBVIOUS
<1>2. /\ DOMAIN sessions = 1 .. Len(sessions) /\ Len(sessions) \in Nat
      /\ sessions = [i \in DOMAIN sessions |-> sessions[i]]
  BY DEF WellFormed
<1>3. T = [i \in DOMAIN sessions |-> IF i = s THEN v ELSE sessions[i]]
  BY <1>1, <1>2
<1>4. DOMAIN sessions \subseteq Sessions
  BY <1>2, NoneIsNot DEF WellFormed, Sessions
<1>. QED  BY <1>1, <1>3, <1>4 DEF LifeOf, Life

\* A session that is due ends without an answer; one that is not is left as it is.
LEMMA FinalizedLife ==
  ASSUME WellFormed(sessions, cooling), NEW s, sessions' = Finalized(s), game' = game
  PROVE  \/ Life' = Life
         \/ s \in DOMAIN sessions /\ sessions[s].status = "due"
              /\ Life' = [Life EXCEPT ![s].state = "expired"]
<1>1. CASE ~(s \in DOMAIN sessions /\ sessions[s].status = "due")
  BY <1>1 DEF Finalized, Life, LifeOf
<1>2. CASE s \in DOMAIN sessions /\ sessions[s].status = "due"
  <2>1. PICK v : v = [sessions[s] EXCEPT !.status = "expired"]
    OBVIOUS
  <2>2. sessions[s] \in SessionRecord /\ s \in Sessions
    BY <1>2, NoneIsNot DEF WellFormed, Sessions
  <2>3. v.status = "expired" /\ v.answer = sessions[s].answer
    BY <2>1, <2>2 DEF SessionRecord
  <2>4. Life' = [Life EXCEPT ![s] = PlayOf(v, game)]
    BY <1>2, <2>1, ChangedLife DEF Finalized, Life
  <2>5. Life[s] = PlayOf(sessions[s], game)
    BY <1>2, <2>2 DEF Life, LifeOf
  <2>6. PlayOf(v, game) = [PlayOf(sessions[s], game) EXCEPT !.state = "expired"]
    BY <1>2, <2>3 DEF PlayOf
  <2>. QED  BY <1>2, <2>4, <2>5, <2>6
<1>. QED  BY <1>1, <1>2

\* The contract does not see what is seen of a session otherwise.
LEMMA UnseenLife ==
  ASSUME WellFormed(sessions, cooling), NEW s, NEW v, game' = game,
         sessions' = [sessions EXCEPT ![s] = v],
         s \in DOMAIN sessions => PlayOf(v, game) = PlayOf(sessions[s], game)
  PROVE  Life' = Life
<1>1. s \in DOMAIN sessions => s \in Sessions /\ Life[s] = PlayOf(sessions[s], game)
  BY NoneIsNot DEF WellFormed, Sessions, Life, LifeOf
<1>2. Life = [r \in Sessions |-> Life[r]]
  BY DEF Life, LifeOf
<1>3. Life' = LifeOf([sessions EXCEPT ![s] = v], game)
  BY DEF Life
<1>. QED  BY <1>1, <1>2, <1>3, ChangedLife

\* The steps of the contract.
LEMMA StopsPlay ==
  ASSUME WellFormed(sessions, cooling), NEW s, sessions' = Finalized(s), game' = game
  PROVE  Contract!Next \/ Life' = Life
<1>1. CASE /\ s \in DOMAIN sessions /\ sessions[s].status = "due"
           /\ Life' = [Life EXCEPT ![s].state = "expired"]
  <2>1. s \in Sessions /\ Life[s].state = "active"
    BY <1>1, NoneIsNot DEF WellFormed, Sessions, Life, LifeOf, PlayOf
  <2>2. Contract!Stop(s)
    BY <1>1, <2>1 DEF Contract!Stop
  <2>. QED  BY <2>1, <2>2 DEF Contract!Next
<1>. QED  BY <1>1, FinalizedLife

LEMMA FinishesPlay ==
  ASSUME WellFormed(sessions, cooling), NEW s, NEW a \in Answers, game' = game,
         sessions[s].status = "active",
         sessions' = [sessions EXCEPT ![s].status = "completed", ![s].answer = a]
  PROVE  Contract!Next \/ Life' = Life
<1>1. PICK v : v = [sessions[s] EXCEPT !.status = "completed", !.answer = a]
  OBVIOUS
<1>2. sessions' = [sessions EXCEPT ![s] = v]
  BY <1>1 DEF WellFormed
<1>3. Life' = IF s \in DOMAIN sessions THEN [Life EXCEPT ![s] = PlayOf(v, game)] ELSE Life
  BY <1>2, ChangedLife DEF Life
<1>4. CASE s \in DOMAIN sessions
  <2>1. sessions[s] \in SessionRecord /\ s \in Sessions
    BY <1>4, NoneIsNot DEF WellFormed, Sessions
  <2>2. Life[s] = PlayOf(sessions[s], game)
    BY <1>4, <2>1 DEF Life, LifeOf
  <2>3. /\ Life[s].state = "active"
        /\ PlayOf(v, game) = [Life[s] EXCEPT !.state = "completed", !.answer = a,
                                             !.reward = "issued"]
    <3>1. v.status = "completed" /\ v.answer = a
      BY <1>1, <2>1 DEF SessionRecord
    <3>2. PICK p : p = Life[s]
      OBVIOUS
    <3>3. PICK b : b = sessions[s].answer
      OBVIOUS
    <3>4. p = [state |-> "active", player |-> "visitor", game |-> game, answer |-> b,
               reward |-> "absent"]
      BY <2>2, <3>2, <3>3 DEF PlayOf
    <3>5. PICK q : q = [p EXCEPT !.state = "completed", !.answer = a, !.reward = "issued"]
      OBVIOUS
    <3>6. q = [state |-> "completed", player |-> "visitor", game |-> game, answer |-> a,
               reward |-> "issued"]
      BY <3>4, <3>5
    <3>7. PlayOf(v, game) = q
      BY <3>1, <3>6 DEF PlayOf
    <3>. QED  BY <3>2, <3>4, <3>5, <3>7
  <2>4. Contract!Finish(s, a)
    BY <1>3, <1>4, <2>3 DEF Contract!Finish
  <2>. QED  BY <2>1, <2>4 DEF Contract!Next
<1>. QED  BY <1>3, <1>4

\* The session before the one that is created has expired, if it was still open.
LEMMA StartsPlay ==
  ASSUME WellFormed(sessions, cooling), Latest < MaxSessions, game' = game, game \in Games,
         sessions # <<>> => sessions[Latest].status # "active",
         sessions' = Append(Finalized(Latest), NewSession)
  PROVE  Contract!Next
<1>1. PICK F : F = Finalized(Latest)
  OBVIOUS
<1>2. PICK n : n = Latest + 1
  OBVIOUS
<1>3. WellFormed(F, cooling) /\ Len(F) = Latest /\ DOMAIN F = DOMAIN sessions
  BY <1>1, FinalizedFacts
<1>4. /\ Latest \in Nat /\ DOMAIN sessions = 1 .. Latest
      /\ n \in Sessions /\ n \notin DOMAIN sessions /\ DOMAIN sessions \subseteq Sessions
  BY <1>2, NoneIsNot DEF WellFormed, Sessions, Latest
<1>5. /\ DOMAIN sessions' = 1 .. n /\ n \in DOMAIN sessions' /\ sessions'[n] = NewSession
      /\ \A r \in DOMAIN sessions : sessions'[r] = F[r]
  BY <1>1, <1>2, <1>3, <1>4 DEF WellFormed
<1>6. Life[n] = Contract!Unborn
  BY <1>4 DEF Life, LifeOf, NoPlay, Contract!Unborn
<1>7. Life'[n] = [Contract!Unborn EXCEPT !.state = "active", !.player = "visitor", !.game = game]
  <2>1. Life'[n] = PlayOf(NewSession, game)
    BY <1>4, <1>5 DEF Life, LifeOf
  <2>2. NewSession.status = "active" /\ NewSession.answer = None
    BY DEF NewSession
  <2>3. PlayOf(NewSession, game) = [state |-> "active", player |-> "visitor", game |-> game,
                                    answer |-> None, reward |-> "absent"]
    BY <2>2 DEF PlayOf
  <2>4. Contract!Unborn = NoPlay
    BY DEF Contract!Unborn, NoPlay
  <2>. QED  BY <2>1, <2>3, <2>4, NewPlay
<1>8. ASSUME NEW r \in DOMAIN sessions
      PROVE  Life'[r] = IF r \in Contract!ActiveOf("visitor", game)
                        THEN [Life[r] EXCEPT !.state = "expired"] ELSE Life[r]
  <2>1. r \in Sessions /\ r \in DOMAIN sessions' /\ sessions[r] \in SessionRecord
    BY <1>2, <1>4, <1>5 DEF WellFormed
  <2>2. Life[r] = PlayOf(sessions[r], game) /\ Life'[r] = PlayOf(F[r], game)
    BY <1>5, <2>1 DEF Life, LifeOf
  <2>3. r \in Contract!ActiveOf("visitor", game) <=> Life[r].state = "active"
    BY <2>1, <2>2 DEF Contract!ActiveOf, PlayOf
  <2>4. sessions[r].status # "active"
    BY <1>4 DEF WellFormed, Latest
  <2>5. Life[r].state = "active" <=> sessions[r].status = "due"
    BY <2>1, <2>2, <2>4 DEF PlayOf, SessionRecord
  <2>6. CASE sessions[r].status = "due"
    <3>1. r = Latest
      BY <1>4, <2>6 DEF WellFormed, Latest
    <3>2. PICK v : v = [sessions[r] EXCEPT !.status = "expired"]
      OBVIOUS
    <3>3. F[r] = v
      <4>1. F = [sessions EXCEPT ![r] = v]
        BY <1>1, <2>6, <3>1, <3>2 DEF Finalized, WellFormed
      <4>. QED  BY <4>1 DEF WellFormed
    <3>4. v.status = "expired" /\ v.answer = sessions[r].answer
      BY <2>1, <3>2 DEF SessionRecord
    <3>5. PlayOf(v, game) = [PlayOf(sessions[r], game) EXCEPT !.state = "expired"]
      BY <2>6, <3>4 DEF PlayOf
    <3>. QED  BY <2>2, <2>3, <2>5, <2>6, <3>3, <3>5
  <2>7. CASE sessions[r].status # "due"
    <3>1. F[r] = sessions[r]
      <4>1. F = sessions \/ (F = [sessions EXCEPT ![Latest].status = "expired"]
                             /\ sessions[Latest].status = "due")
        BY <1>1 DEF Finalized
      <4>2. r # Latest \/ F = sessions
        BY <2>7, <4>1
      <4>. QED  BY <4>1, <4>2 DEF WellFormed
    <3>. QED  BY <2>2, <2>3, <2>5, <2>7, <3>1
  <2>. QED  BY <2>6, <2>7
<1>9. ASSUME NEW r \in Sessions, r \notin DOMAIN sessions, r # n
      PROVE  Life'[r] = Life[r] /\ r \notin Contract!ActiveOf("visitor", game)
  <2>1. r \notin DOMAIN sessions'
    BY <1>2, <1>4, <1>5, <1>9 DEF Sessions
  <2>2. Life[r] = NoPlay /\ Life'[r] = NoPlay
    BY <1>9, <2>1 DEF Life, LifeOf
  <2>. QED  BY <2>2 DEF NoPlay, Contract!ActiveOf
<1>10. Life' = [r \in Sessions |-> Life'[r]]
  BY DEF Life, LifeOf
<1>11. Contract!Start(n, "visitor", game)
  BY <1>4, <1>6, <1>7, <1>8, <1>9, <1>10 DEF Contract!Start
<1>. QED  BY <1>4, <1>11 DEF Contract!Next

\* What a call does to the sessions, if a play gives an answer, is a step of the
\* contract or is not seen by it.
EffectStep(e) == sessions' = e.sessions /\ game' = game /\ game \in Games

LEMMA CreateImplements ==
  ASSUME WellFormed(sessions, cooling), EffectStep(CreateSession)
  PROVE  Contract!Next \/ Life' = Life
<1>1. CASE (sessions # <<>> /\ sessions[Latest].status = "active") \/ cooling
  BY <1>1 DEF EffectStep, CreateSession, Refuse, Life
<1>2. CASE ~((sessions # <<>> /\ sessions[Latest].status = "active") \/ cooling)
  <2>1. Latest < MaxSessions
    BY <1>2 DEF WellFormed, Latest
  <2>2. CreateSession.sessions = Append(Finalized(Latest), NewSession)
    BY <1>2 DEF CreateSession, Accept
  <2>. QED  BY <1>2, <2>1, <2>2, StartsPlay DEF EffectStep
<1>. QED  BY <1>1, <1>2

LEMMA CommitImplements ==
  ASSUME WellFormed(sessions, cooling), NEW s, EffectStep(CommitFairness(s))
  PROVE  Contract!Next \/ Life' = Life
<1>1. CASE sessions[s].status = "due"
  BY <1>1, StopsPlay DEF EffectStep, CommitFairness, Elapsed, Refuse
<1>2. CASE sessions[s].status = "active"
  <2>1. PICK v : v = [sessions[s] EXCEPT !.proof = TRUE]
    OBVIOUS
  <2>2. sessions' = [sessions EXCEPT ![s] = v]
    BY <1>2, <2>1 DEF EffectStep, CommitFairness, Accept
  <2>3. s \in DOMAIN sessions => PlayOf(v, game) = PlayOf(sessions[s], game)
    BY <2>1 DEF WellFormed, SessionRecord, PlayOf
  <2>. QED  BY <2>2, <2>3, UnseenLife DEF EffectStep
<1>3. CASE sessions[s].status \notin {"due", "active"}
  BY <1>3 DEF EffectStep, CommitFairness, Refuse, Life
<1>. QED  BY <1>1, <1>2, <1>3

LEMMA PlayImplements ==
  ASSUME WellFormed(sessions, cooling), NEW s, NEW a \in Answers, NEW replays,
         EffectStep(PlaySession(s, a, replays))
  PROVE  Contract!Next \/ Life' = Life
<1>1. CASE sessions[s].status = "due"
  BY <1>1, StopsPlay DEF EffectStep, PlaySession, Elapsed, Refuse
<1>2. CASE sessions[s].status = "active"
  <2>1. sessions' = [sessions EXCEPT ![s].status = "completed", ![s].answer = a]
    BY <1>2 DEF EffectStep, PlaySession, Accept
  <2>. QED  BY <1>2, <2>1, FinishesPlay DEF EffectStep
<1>3. CASE sessions[s].status \notin {"due", "active"}
  <2>1. PlaySession(s, a, replays).sessions = sessions
    BY <1>3 DEF PlaySession, Accept, Refuse
  <2>. QED  BY <2>1 DEF EffectStep, Life
<1>. QED  BY <1>1, <1>2, <1>3

LEMMA ScoreImplements ==
  ASSUME WellFormed(sessions, cooling), NEW s, EffectStep(SubmitScore(s))
  PROVE  Life' = Life
<1>1. PICK v : v = [sessions[s] EXCEPT !.score = "recorded"]
  OBVIOUS
<1>2. SubmitScore(s).sessions = sessions \/ SubmitScore(s).sessions = [sessions EXCEPT ![s] = v]
  BY <1>1 DEF SubmitScore, Refuse, Accept
<1>3. s \in DOMAIN sessions => PlayOf(v, game) = PlayOf(sessions[s], game)
  BY <1>1 DEF WellFormed, SessionRecord, PlayOf
<1>. QED  BY <1>2, <1>3, UnseenLife DEF EffectStep, Life

LEMMA EffectImplements ==
  ASSUME WellFormed(sessions, cooling), NEW at \in Request \cup Reads, NEW s, NEW a,
         at \in {"play", "evaluate"} => a \in Answers, EffectStep(Effect(at, s, a))
  PROVE  Contract!Next \/ Life' = Life
<1>1. CASE at \in AsksState
  <2>1. Effect(at, s, a).sessions = Finalized(Latest)
    BY <1>1 DEF Effect, AsksState, GetState, Accept
  <2>. QED  BY <2>1, StopsPlay DEF EffectStep
<1>2. CASE at = "create"
  BY <1>2, CreateImplements DEF Effect, AsksState
<1>3. CASE at = "commit"
  BY <1>3, CommitImplements DEF Effect, AsksState
<1>4. CASE at \in {"evaluate", "play"}
  BY <1>4, PlayImplements DEF Effect, AsksState
<1>5. CASE at = "score"
  BY <1>5, ScoreImplements DEF Effect, AsksState
<1>6. CASE at = "proof"
  BY <1>6 DEF Effect, AsksState, Accept, EffectStep, Life
<1>. QED  BY <1>1, <1>2, <1>3, <1>4, <1>5, <1>6 DEF Request, Reads

LEMMA TimeImplements ==
  ASSUME WellFormed(sessions, cooling), Time(PassExpiry) \/ Time(CoolDown) \/ Time(CloseWeek)
  PROVE  Life' = Life
<1>1. CASE Time(PassExpiry)
  <2>1. PICK v : v = [sessions[Latest] EXCEPT !.status = "due"]
    OBVIOUS
  <2>2. sessions' = [sessions EXCEPT ![Latest] = v] /\ game' = game
    BY <1>1, <2>1 DEF Time, PassExpiry
  <2>3. Latest \in DOMAIN sessions => PlayOf(v, game) = PlayOf(sessions[Latest], game)
    BY <1>1, <2>1 DEF WellFormed, SessionRecord, PlayOf, Time, PassExpiry
  <2>. QED  BY <2>2, <2>3, UnseenLife
<1>2. CASE Time(CoolDown)
  BY <1>2 DEF Time, CoolDown, Life
<1>3. CASE Time(CloseWeek)
  <2>1. PICK v : v = [sessions[Latest] EXCEPT !.score = "closed"]
    OBVIOUS
  <2>2. sessions' = [sessions EXCEPT ![Latest] = v] /\ game' = game
    BY <1>3, <2>1 DEF Time, CloseWeek
  <2>3. Latest \in DOMAIN sessions => PlayOf(v, game) = PlayOf(sessions[Latest], game)
    BY <2>1 DEF WellFormed, SessionRecord, PlayOf
  <2>. QED  BY <2>2, <2>3, UnseenLife
<1>. QED  BY <1>1, <1>2, <1>3

\* A play or an evaluation on its way gives an answer.
LEMMA PlaysGive ==
  ASSUME PageInv, AnswerInv, RoundInv, NEW x \in OnTheirWay
  PROVE  x.answer # None
<1>1. game \in {"spin", "card", "skill"}
  BY GameAssumption DEF PageInv, Types
<1>2. CASE game = "spin"
  <2>1. Drawn(x, journal)
    BY <1>2, GivenFacts DEF OnTheirWay, AnswerInv, SeedInv
  <2>. QED  BY <2>1 DEF Drawn, OnTheirWay
<1>3. CASE game = "card"
  BY <1>3, PlaysAreNamed DEF AnswerInv
<1>4. CASE game = "skill"
  <2>1. CASE x \in late
    BY <1>4, <2>1 DEF RoundInv, Entered, OnTheirWay
  <2>2. CASE x \in Given(Threads)
    BY <1>4, <2>2 DEF RoundInv, Entered, OnTheirWay, Given
  <2>. QED  BY <2>1, <2>2 DEF OnTheirWay
<1>. QED  BY <1>1, <1>2, <1>3, <1>4

LEMMA NextImplements ==
  ASSUME PageInv, AnswerInv, RoundInv, [Next]_vars
  PROVE  Contract!Next \/ Life' = Life
<1>1. WellFormed(sessions, cooling) /\ game \in Games
  BY ServerWellFormed DEF PageInv, Types
<1>2. ASSUME NEW t \in Threads, Serve(t)
      PROVE  Contract!Next \/ Life' = Life
  <2>1. PICK at : at = thread[t].at
    OBVIOUS
  <2>2. PICK a : a = thread[t].answer
    OBVIOUS
  <2>3. at \in Request \cup Reads /\ a \in MaybeAnswer
    BY <1>2, <2>1, <2>2, ThreadFacts DEF Serve, Unanswered, Thread
  <2>4. at \in {"play", "evaluate"} => a \in Answers
    <3>1. PICK x : x = [at |-> thread[t].at, session |-> thread[t].session,
                        answer |-> thread[t].answer]
      OBVIOUS
    <3>2. x.at = at /\ x.answer = a
      BY <2>1, <2>2, <3>1
    <3>3. at \in {"play", "evaluate"} => x \in OnTheirWay
      BY <1>2, <2>1, <3>1, <3>2 DEF OnTheirWay, Given, Serve, Reads, AsksState
    <3>. QED  BY <2>3, <3>2, <3>3, PlaysGive DEF MaybeAnswer
  <2>5. EffectStep(Effect(at, thread[t].session, a))
    BY <1>1, <1>2, <2>1, <2>2 DEF EffectStep, Serve, Take
  <2>. QED  BY <1>1, <2>3, <2>4, <2>5, EffectImplements
<1>3. ASSUME NEW l \in late, ServeLate(l)
      PROVE  Contract!Next \/ Life' = Life
  <2>1. l.at \in Request /\ l.answer \in MaybeAnswer
    BY DEF PageInv, Types
  <2>2. l.at \in {"play", "evaluate"} => l.answer \in Answers
    BY <2>1, PlaysGive DEF OnTheirWay, MaybeAnswer
  <2>3. EffectStep(Effect(l.at, l.session, l.answer))
    BY <1>1, <1>3 DEF EffectStep, ServeLate, Take
  <2>. QED  BY <1>1, <2>1, <2>2, <2>3, EffectImplements
<1>4. CASE Time(PassExpiry) \/ Time(CoolDown) \/ Time(CloseWeek)
  BY <1>1, <1>4, TimeImplements
<1>5. CASE UNCHANGED <<sessions, game>>
  BY <1>5 DEF Life
<1>. QED
  BY <1>2, <1>3, <1>4, <1>5
  DEF Next, SpinClicked, Choose, EnterActions, ResumeClicked, Start, Submit, PreviewEnds,
      CountdownEnds, Continue, Lose, Fail, Reload, Click, Run, vars, serverVars

\* The pages meet a server that implements SessionContract: with calls that are lost, come
\* late or are repeated, each session starts once, has one answer, which was given, and ends
\* one way; none starts while another is open.  It is the contract that the transactions of
\* GameSessions implement.
THEOREM ServerKeepsContract == Spec => Contract!Spec
<1>1. Init => PageInv /\ AnswerInv /\ RoundInv
  <2>1. Init => RoundInv
    BY DEF Init, RoundInv, Loaded, Loading, Idle, Entered
  <2>. QED  BY <2>1, InitPageInv, InitAnswers
<1>2. PageInv /\ AnswerInv /\ RoundInv /\ [Next]_vars => (PageInv /\ AnswerInv /\ RoundInv)'
  BY NextPageInv, NextAnswers, NextRounds
<1>3. Init => Contract!Init
  BY DEF Init, ServerInit, Contract!Init, Contract!Unborn, Life, LifeOf, NoPlay
<1>4. PageInv /\ AnswerInv /\ RoundInv /\ [Next]_vars => [Contract!Next]_Life
  BY NextImplements
<1>. QED  BY <1>1, <1>2, <1>3, <1>4, PTL DEF Spec, Contract!Spec

==============================================================================
