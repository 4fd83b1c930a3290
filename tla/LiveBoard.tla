----------------------------- MODULE LiveBoard -----------------------------
(***************************************************************************)
(* The live leaderboard: the browser component of                          *)
(* web/static/js/components/leaderboard.js over the event streams of       *)
(* LeaderboardEvents.                                                      *)
(*                                                                         *)
(* JavaScript runs to its next await: a step here is a callback, or what   *)
(* the server does with a request in flight.  requestGeneration is         *)
(* modelled by what it is for: advancing it makes every load in flight     *)
(* stale.  What a page of the leaderboard shows is the number of scores it *)
(* counts; that it is the board at one moment is ImplementsBoard of        *)
(* LeaderboardProjection.                                                  *)
(***************************************************************************)
EXTENDS LeaderboardEvents

CONSTANTS
  Players,         \* local players the visitor can choose
  MaxDisturbances  \* bound: failures, restarts, reloads and choices of a player

ASSUME PlayerAssumption == None \notin Players
ASSUME NoneAssumption ==
  None \notin [week : Weeks, count : Nat] /\ None \notin [player : Players, week : Weeks]
ASSUME DisturbanceAssumption == MaxDisturbances \in Nat

VARIABLES
  week,         \* the current UTC week
  page,         \* the component
  loads,        \* calls of load() that are waiting for an answer
  disturbances

pageVars == <<week, page, loads>>
vars == <<eventVars, pageVars, disturbances>>

\* The component as the server renders it for the player of the local store,
\* whose validation is asked for at once.
Opened(p, w) ==
  [player |-> p, week |-> w, source |-> None, connectedOnce |-> FALSE,
   checking |-> p, initialized |-> p = None, timer |-> FALSE, loading |-> FALSE,
   pending |-> FALSE, shown |-> None, entry |-> None, error |-> FALSE]

Disturb == disturbances < MaxDisturbances /\ disturbances' = disturbances + 1

------------------------------------------------------------------------------
(***************************************************************************)
(* load(): a page, then the player's rank, then the board.                 *)
(***************************************************************************)
NewLoad(pg) == [step |-> "page", player |-> pg.player, week |-> pg.week, rankWeek |-> None,
                count |-> 0, stale |-> FALSE]

Load_Overlapping(pg) ==
  IF pg.player = None
  THEN page' = [pg EXCEPT !.shown = None, !.entry = None, !.error = FALSE] /\ UNCHANGED loads
  ELSE /\ page' = [pg EXCEPT !.loading = TRUE, !.error = FALSE]
       /\ loads' = loads \cup {NewLoad(pg)}

\* The start of load() on the component pg.
Load(pg) ==
  IF pg.loading THEN page' = [pg EXCEPT !.pending = TRUE] /\ UNCHANGED loads
  ELSE IF pg.player = None
  THEN page' = [pg EXCEPT !.shown = None, !.entry = None, !.error = FALSE] /\ UNCHANGED loads
  ELSE /\ page' = [pg EXCEPT !.loading = TRUE, !.error = FALSE]
       /\ loads' = loads \cup {NewLoad(pg)}

LoadOver_Forgets(pg) == [pg EXCEPT !.loading = FALSE, !.pending = FALSE]

\* Its finally block: what came in between leads to another load.
LoadOver(pg) == [pg EXCEPT !.loading = FALSE, !.timer = @ \/ pg.pending, !.pending = FALSE]

\* The server reads the board for the page.
AnswerPage(l) ==
  /\ l.step = "page" /\ ~hub.shutdown
  /\ loads' = (loads \ {l}) \cup {[l EXCEPT !.step = "rank", !.count = scores[l.week]]}
  /\ UNCHANGED <<eventVars, week, page, disturbances>>

\* The rank is asked for with the periodStart of now; a missing entry is an
\* answer like another.
AnswerRank(l) ==
  /\ l.step = "rank" /\ ~hub.shutdown
  /\ loads' = (loads \ {l}) \cup {[l EXCEPT !.step = "done", !.rankWeek = page.week]}
  /\ UNCHANGED <<eventVars, week, page, disturbances>>

ApplyLoad(l) ==
  /\ l.step = "done"
  /\ loads' = loads \ {l}
  /\ page' = LoadOver(IF l.stale THEN page
                      ELSE [page EXCEPT !.shown = [week |-> l.week, count |-> l.count],
                                        !.entry = [player |-> l.player, week |-> l.rankWeek]])
  /\ UNCHANGED <<eventVars, week, disturbances>>

Failed_StillLoading(l) == IF l.stale THEN page ELSE [page EXCEPT !.error = TRUE]

Failed(l) == LoadOver(IF l.stale THEN page ELSE [page EXCEPT !.error = TRUE])

FailLoad(l) ==
  /\ Disturb
  /\ loads' = loads \ {l}
  /\ page' = Failed(l)
  /\ UNCHANGED <<eventVars, week>>

Stale_Kept(ls) == ls

\* requestGeneration += 1.
Stale(ls) == {[l EXCEPT !.stale = TRUE] : l \in ls}

------------------------------------------------------------------------------
(***************************************************************************)
(* The event source.                                                       *)
(***************************************************************************)
\* new EventSource, or the browser's own reconnection.
Connect(s) ==
  /\ page.source = None /\ stream[s].phase = "free"
  /\ page' = [page EXCEPT !.source = s]
  /\ stream' = [stream EXCEPT ![s] = Asked(page.week)]
  /\ UNCHANGED <<scores, handlers, hub, week, loads, disturbances>>

\* A connection made again is to tell of everything committed by then.
ServeStream(s) ==
  /\ Subscribe(s, IF page.source = s /\ page.connectedOnce THEN scores[stream[s].week] ELSE 0)
  /\ UNCHANGED <<pageVars, disturbances>>

\* onopen refreshes on a reconnection, leaderboard-change always.
ReadWire ==
  /\ page.source # None
  /\ LET s == page.source IN
     /\ stream[s].wire # <<>>
     /\ stream' = [stream EXCEPT ![s].wire = Tail(@)]
     /\ page' = IF Head(stream[s].wire) = Connected
                THEN [page EXCEPT !.timer = @ \/ page.connectedOnce, !.connectedOnce = TRUE]
                ELSE [page EXCEPT !.timer = TRUE]
  /\ UNCHANGED <<scores, handlers, hub, week, loads, disturbances>>

\* The source is closed by the component, or its connection breaks.
SourceLeft(s) == stream' = IF s = None THEN stream ELSE [stream EXCEPT ![s] = Left(@)]

\* The browser has read the end of the stream, and will reconnect.
SourceEnds ==
  /\ page.source # None
  /\ stream[page.source].phase = "ended" /\ stream[page.source].wire = <<>>
  /\ SourceLeft(page.source)
  /\ page' = [page EXCEPT !.source = None]
  /\ UNCHANGED <<scores, handlers, hub, week, loads, disturbances>>

LoseConnection ==
  /\ page.source # None
  /\ Disturb
  /\ SourceLeft(page.source)
  /\ page' = [page EXCEPT !.source = None]
  /\ UNCHANGED <<scores, handlers, hub, week, loads>>

------------------------------------------------------------------------------
(***************************************************************************)
(* Timers and events of the component.                                     *)
(***************************************************************************)
\* scheduleRefresh by the poll timer, the online or the visibility event.
Poll ==
  /\ ~page.timer
  /\ page' = [page EXCEPT !.timer = TRUE]
  /\ UNCHANGED <<eventVars, week, loads, disturbances>>

FireTimer ==
  /\ page.timer
  /\ Load([page EXCEPT !.timer = FALSE])
  /\ UNCHANGED <<eventVars, week, disturbances>>

\* playerListener: pg after the store has emitted p.
PlayerEmitted(pg, p) ==
  [pg EXCEPT !.player = p, !.shown = None, !.entry = None, !.error = FALSE,
             !.timer = @ \/ pg.initialized]

ChangePlayer(p) ==
  /\ Disturb
  /\ loads' = Stale(loads)
  /\ page' = PlayerEmitted(page, p)
  /\ UNCHANGED <<eventVars, week>>

\* The rest of init(): the start of load() on pg, with the loads ls in flight.
Initialized(pg) == [pg EXCEPT !.initialized = TRUE, !.checking = None]

\* The player is valid and saved, which makes it the current one again.
PlayerChecked ==
  /\ ~page.initialized
  /\ LET pg == Initialized(PlayerEmitted(page, page.checking)) IN
     IF page.loading
     THEN page' = [pg EXCEPT !.pending = TRUE] /\ loads' = Stale(loads)
     ELSE page' = [pg EXCEPT !.loading = TRUE] /\ loads' = {NewLoad(pg)}
  /\ UNCHANGED <<eventVars, week, disturbances>>

\* It is unknown to the server: another player of the store, or none.
PlayerGone ==
  /\ ~page.initialized
  /\ Disturb
  /\ \E p \in IF page.player = page.checking THEN (Players \ {page.checking}) \cup {None}
              ELSE {page.player} :
       LET pg == Initialized(PlayerEmitted(page, p)) IN
       IF page.loading
       THEN page' = [pg EXCEPT !.pending = TRUE] /\ loads' = Stale(loads)
       ELSE IF p = None THEN page' = pg /\ UNCHANGED loads
       ELSE page' = [pg EXCEPT !.loading = TRUE] /\ loads' = {NewLoad(pg)}
  /\ UNCHANGED <<eventVars, week>>

\* It could not be checked: the component is initialized without a load.
CheckFails ==
  /\ ~page.initialized
  /\ Disturb
  /\ page' = [Initialized(page) EXCEPT !.error = TRUE]
  /\ UNCHANGED <<eventVars, week, loads>>

TurnWeek ==
  /\ week + 1 \in Weeks
  /\ week' = week + 1
  /\ UNCHANGED <<eventVars, page, loads, disturbances>>

\* updatePeriodCountdown finds the period over: startCurrentPeriod.
StartCurrentPeriod ==
  /\ page.week # week
  /\ loads' = Stale(loads)
  /\ SourceLeft(page.source)
  /\ page' = [page EXCEPT !.week = week, !.shown = None, !.entry = None, !.source = None,
                          !.connectedOnce = FALSE, !.timer = TRUE]
  /\ UNCHANGED <<scores, handlers, hub, week, disturbances>>

\* The document is loaded again.
Reload ==
  /\ Disturb
  /\ SourceLeft(page.source)
  /\ page' = Opened(page.player, week)
  /\ loads' = {}
  /\ UNCHANGED <<scores, handlers, hub, week>>

------------------------------------------------------------------------------
(***************************************************************************)
(* The server.                                                             *)
(***************************************************************************)
Server(A) == A /\ UNCHANGED <<pageVars, disturbances>>

ShutDown == Shutdown /\ Disturb /\ UNCHANGED pageVars

\* The requests in flight fail with the process.
RestartServer ==
  /\ IF hub.shutdown THEN UNCHANGED disturbances ELSE Disturb
  /\ Restart
  /\ LET lost == {l \in loads : l.step # "done"} IN
     /\ loads' = loads \ lost
     /\ page' = [IF lost = {} THEN page ELSE Failed(CHOOSE l \in lost : TRUE)
                 EXCEPT !.source = None]
  /\ UNCHANGED week

Init ==
  /\ EventsInit
  /\ week \in Weeks /\ \A w \in Weeks : week <= w
  /\ \E p \in Players \cup {None} : page = Opened(p, week)
  /\ loads = {}
  /\ disturbances = 0

Next ==
  \/ \E w \in Weeks : Server(SubmitScore(w) /\ w <= week /\ ~hub.shutdown) \/ Server(Publish(w))
  \/ \E s \in Streams : Server(Deliver(s)) \/ Server(CloseStream(s)) \/ ServeStream(s) \/ Connect(s)
  \/ ShutDown \/ RestartServer
  \/ ReadWire \/ SourceEnds \/ LoseConnection
  \/ \E l \in loads : AnswerPage(l) \/ AnswerRank(l) \/ ApplyLoad(l) \/ FailLoad(l)
  \/ Poll \/ FireTimer \/ PlayerChecked \/ PlayerGone \/ CheckFails
  \/ \E p \in Players \cup {None} : ChangePlayer(p)
  \/ TurnWeek \/ StartCurrentPeriod \/ Reload

Spec == Init /\ [][Next]_vars

\* Tasks of the event loop run, requests are answered, and the timers of the
\* browser fire; whatever disturbs need not happen.
Fairness ==
  /\ \A w \in Weeks : WF_vars(Server(Publish(w)))
  /\ \A s \in Streams : /\ WF_vars(Server(Deliver(s))) /\ WF_vars(Server(CloseStream(s)))
                        /\ WF_vars(ServeStream(s))
  /\ WF_vars(\E s \in Streams : Connect(s))
  /\ WF_vars(ReadWire) /\ WF_vars(SourceEnds)
  /\ WF_vars(\E l \in loads : AnswerPage(l) \/ AnswerRank(l) \/ ApplyLoad(l))
  /\ WF_vars(Poll) /\ WF_vars(FireTimer)
  /\ WF_vars(PlayerChecked) /\ WF_vars(StartCurrentPeriod)

FairSpec == Spec /\ Fairness

------------------------------------------------------------------------------
(***************************************************************************)
(* Properties.                                                             *)
(***************************************************************************)
LoadRecord == [step : {"page", "rank", "done"}, player : Players, week : Weeks,
               rankWeek : Weeks \cup {None}, count : Nat, stale : BOOLEAN]
Page == [player : Players \cup {None}, week : Weeks, source : Streams \cup {None},
         connectedOnce : BOOLEAN, checking : Players \cup {None}, initialized : BOOLEAN,
         timer : BOOLEAN, loading : BOOLEAN, pending : BOOLEAN,
         shown : [week : Weeks, count : Nat] \cup {None},
         entry : [player : Players, week : Weeks] \cup {None}, error : BOOLEAN]

\* Every variable has its type, queues and wires have their bounds, and a load is
\* under way exactly while the component is loading, one at a time.
TypeOK ==
  /\ EventsTypeOK
  /\ week \in Weeks
  /\ page \in Page
  /\ loads \subseteq LoadRecord
  /\ page.loading = (loads # {})
  /\ \A l, m \in loads : l = m
  /\ disturbances \in 0 .. MaxDisturbances

\* What is shown belongs together: the board and the personal entry are those of
\* the page's week and player, however many choices of a player, turns of the
\* week and late answers there were.
BoardIsOfPage ==
  /\ (page.shown = None) = (page.entry = None)
  /\ page.shown # None =>
       /\ page.shown.week = page.week
       /\ page.entry = [player |-> page.player, week |-> page.week]

Count == IF page.shown = None THEN 0 ELSE page.shown.count

\* Something will make the board learn of the n scores its stream told of; the
\* end of a stream does, because the browser reconnects.
WillLearn(n) ==
  LET t == stream[page.source] IN
  \/ t.queue # <<>> \/ t.phase = "ended"
  \/ \E i \in DOMAIN t.wire : t.wire[i] = Connected => page.connectedOnce
  \/ page.timer \/ page.pending
  \/ \E l \in loads : ~l.stale /\ (l.step = "page" \/ l.count >= n)

\* No signal is lost: a board that counts fewer scores than its open stream told
\* of is about to load again, or says that a load failed.  The queue may drop
\* events, the debounce may merge them, a load may be under way already.
NoLostSignal ==
  page.initialized /\ page.player # None /\ page.source # None =>
    LET n == stream[page.source].due IN
    Count < n => page.error \/ WillLearn(n)

\* A board never goes back: as long as week and player stay, an answer that
\* arrives shows no fewer scores than the one before.
NeverBackwards ==
  [][page.shown # None /\ page'.shown # None /\ page'.shown.week = page.shown.week
     => page'.shown.count >= page.shown.count]_vars

Behind ==
  page.player # None /\ ~hub.shutdown /\ (page.shown = None \/ Count < scores[page.week])

\* A board that misses committed scores of its week catches up, unless the visitor
\* leaves the player or the server shuts down: signals lost with a crash, with a
\* connection or before the first subscription are made good by the poll timer.
BoardCatchesUp == Behind ~> ~Behind

==============================================================================
