-------------------------- MODULE LiveBoard_proofs --------------------------
(***************************************************************************)
(* Safety of the live leaderboard, for every set of weeks, streams and     *)
(* players and every size of the queues: types and bounds, a shutdown that *)
(* is heard, a board that belongs to its page, no signal lost, and no      *)
(* answer that takes the board back.                                       *)
(***************************************************************************)
EXTENDS LiveBoard, TLAPS

\* Queues hold something only while they are read, subscribers are read, and a
\* reader is owed no more than there is.
StreamsOK ==
  /\ hub.shutdown => hub.subscriptions = {}
  /\ \A s \in Streams :
       /\ stream[s].phase \in {"free", "asked", "ended"} => stream[s].queue = <<>>
       /\ s \in hub.subscriptions => stream[s].phase \in {"live", "left"}
       /\ stream[s].phase \in {"asked", "live", "left"} => stream[s].due <= scores[stream[s].week]

\* The component's stream is one of its week, and not left.
SourceOK ==
  page.source # None =>
    /\ stream[page.source].phase \in {"asked", "live", "ended"}
    /\ stream[page.source].week = page.week

\* A load that is not stale is for the page's week and player, and once it has read
\* the board, it has read no less than is shown, nor more than there is.
LoadsOK ==
  \A l \in loads : ~l.stale =>
    /\ l.player = page.player /\ l.week = page.week
    /\ l.step = "done" => l.rankWeek = page.week
    /\ l.step # "page" => Count <= l.count /\ l.count <= scores[l.week]

\* The board is not ahead of the scores, and a player is there to be checked.
PageOK ==
  /\ page.shown # None => page.shown.count <= scores[page.week]
  /\ ~page.initialized => page.checking # None

IInv ==
  /\ TypeOK /\ StreamsOK /\ ShutdownHeard /\ SourceOK
  /\ LoadsOK /\ PageOK /\ BoardIsOfPage /\ NoLostSignal

------------------------------------------------------------------------------
(***************************************************************************)
(* Queues and wires.                                                       *)
(***************************************************************************)
LEMMA OfferFacts ==
  ASSUME NEW q \in Seq(Events), Len(q) <= QueueSize, NEW e \in Events
  PROVE  /\ Offer(q, e) \in Seq(Events) /\ Len(Offer(q, e)) <= QueueSize
         /\ Offer(q, e) # <<>> /\ Offer(q, e)[Len(Offer(q, e))] = e
         /\ \A i \in DOMAIN Offer(q, e) :
              Offer(q, e)[i] = e \/ \E j \in DOMAIN q : Offer(q, e)[i] = q[j]
<1>1. CASE Len(q) = QueueSize
  <2>1. q # <<>> /\ Tail(q) \in Seq(Events) /\ Len(Tail(q)) = Len(q) - 1
    BY <1>1, QueueAssumption
  <2>2. \A i \in DOMAIN Tail(q) : i + 1 \in DOMAIN q /\ Tail(q)[i] = q[i + 1]
    BY <2>1
  <2>3. Offer(q, e) = Append(Tail(q), e)
    BY <1>1 DEF Offer
  <2> QED BY <2>1, <2>2, <2>3, <1>1, QueueAssumption
<1>2. CASE Len(q) # QueueSize
  <2>1. Offer(q, e) = Append(q, e)
    BY <1>2 DEF Offer
  <2> QED BY <2>1, <1>2, QueueAssumption
<1> QED BY <1>1, <1>2

LEMMA StreamFacts ==
  /\ NoStream \in Stream
  /\ \A t \in Stream : Left(t) \in Stream /\ Left(t).wire = <<>> /\ Left(t).phase \in {"left", "free"}
                     /\ (t.phase = "live" =>
                           /\ Left(t).phase = "left" /\ Left(t).queue = t.queue
                           /\ Left(t).week = t.week /\ Left(t).due = t.due)
                     /\ (t.phase # "live" => Left(t) = NoStream)
<1>1. \A S : <<>> \in Seq(S) /\ Len(<<>>) = 0
  OBVIOUS
<1>2. NoStream \in Stream
  BY <1>1 DEF NoStream, Stream
<1>3. ASSUME NEW t \in Stream PROVE [t EXCEPT !.phase = "left", !.wire = <<>>] \in Stream
  BY <1>1 DEF Stream
<1> QED BY <1>2, <1>3 DEF Left, NoStream, Stream

LEMMA TailFacts ==
  ASSUME NEW S, NEW q \in Seq(S), q # <<>>
  PROVE  /\ Head(q) \in S /\ Tail(q) \in Seq(S) /\ Len(Tail(q)) = Len(q) - 1
         /\ \A i \in DOMAIN Tail(q) : i + 1 \in DOMAIN q /\ Tail(q)[i] = q[i + 1]
         /\ \A i \in DOMAIN q : i = 1 \/ (i - 1 \in DOMAIN Tail(q) /\ q[i] = Tail(q)[i - 1])
         /\ Head(q) = q[1]
OBVIOUS

\* A step that leaves the component alone: what is left to show of the invariant.
LEMMA ServerStep ==
  ASSUME IInv, UNCHANGED <<week, page, loads>>, disturbances' \in 0 .. MaxDisturbances,
         EventsTypeOK', StreamsOK', ShutdownHeard',
         \A w \in Weeks : scores[w] <= scores'[w],
         SourceOK', NoLostSignal'
  PROVE  IInv'
<1>1. TypeOK'
  BY DEF IInv, TypeOK
<1>2. LoadsOK' /\ PageOK' /\ BoardIsOfPage'
  BY DEF IInv, TypeOK, EventsTypeOK, LoadsOK, PageOK, BoardIsOfPage, Count, Page, LoadRecord
<1> QED BY <1>1, <1>2 DEF IInv

\* A step that leaves the server and the streams alone.
LEMMA PageStep ==
  ASSUME IInv, UNCHANGED eventVars
  PROVE  EventsTypeOK' /\ StreamsOK' /\ ShutdownHeard'
BY DEF IInv, TypeOK, eventVars, EventsTypeOK, StreamsOK, ShutdownHeard

\* The component leaves its stream.
LEMMA LeftStep ==
  ASSUME IInv, SourceLeft(page.source), UNCHANGED <<scores, handlers, hub>>
  PROVE  EventsTypeOK' /\ StreamsOK' /\ ShutdownHeard'
<1>1. CASE page.source = None
  BY <1>1 DEF IInv, TypeOK, SourceLeft, EventsTypeOK, StreamsOK, ShutdownHeard
<1>2. CASE page.source # None
  <2> DEFINE s == page.source
             t == stream[s]
  <2>1. s \in Streams /\ t \in Stream
    BY <1>2 DEF IInv, TypeOK, EventsTypeOK, Page
  <2>2. stream' = [stream EXCEPT ![s] = Left(t)]
    BY <1>2 DEF SourceLeft
  <2>3. /\ Left(t) \in Stream /\ Left(t).wire = <<>> /\ Left(t).phase \in {"left", "free"}
        /\ t.phase = "live" =>
             /\ Left(t).phase = "left" /\ Left(t).queue = t.queue
             /\ Left(t).week = t.week /\ Left(t).due = t.due
        /\ t.phase # "live" => Left(t) = NoStream
    BY <2>1, StreamFacts
  <2>a. NoStream.phase = "free" /\ NoStream.queue = <<>> /\ Len(NoStream.queue) = 0
    BY DEF NoStream
  <2>b. t.phase # "live" => s \notin hub.subscriptions \/ t.phase = "left"
    BY <2>1 DEF IInv, StreamsOK
  <2>c. t.phase \in {"asked", "live", "ended"}
    BY <1>2 DEF IInv, SourceOK
  <2>4. EventsTypeOK'
    <3>1. Len(stream'[s].queue) <= QueueSize /\ Len(stream'[s].wire) <= WireSize
      BY <2>1, <2>2, <2>3, <2>a, QueueAssumption DEF IInv, TypeOK, EventsTypeOK
    <3>2. stream'[s].phase \in {"asked", "live", "left"} => stream'[s].week \in Weeks
      BY <2>1, <2>2, <2>3, <2>a DEF IInv, TypeOK, EventsTypeOK
    <3>3. stream' \in [Streams -> Stream]
      BY <2>1, <2>2, <2>3 DEF IInv, TypeOK, EventsTypeOK
    <3>4. \A r \in Streams \ {s} : stream'[r] = stream[r]
      BY <2>2 DEF IInv, TypeOK, EventsTypeOK
    <3> QED BY <3>1, <3>2, <3>3, <3>4 DEF IInv, TypeOK, EventsTypeOK
  <2>5. StreamsOK'
    <3>1. stream'[s] = Left(t) /\ \A r \in Streams \ {s} : stream'[r] = stream[r]
      BY <2>1, <2>2 DEF IInv, TypeOK, EventsTypeOK
    <3> QED BY <2>1, <2>3, <2>a, <2>b, <2>c, <3>1 DEF IInv, StreamsOK
  <2>6. ShutdownHeard'
    BY <2>1, <2>2, <2>3 DEF IInv, TypeOK, EventsTypeOK, ShutdownHeard, StreamsOK, Left, NoStream, Stream
  <2> QED BY <2>4, <2>5, <2>6
<1> QED BY <1>1, <1>2

------------------------------------------------------------------------------
(***************************************************************************)
(* The server's steps.                                                     *)
(***************************************************************************)
LEMMA SubmitScoreStep ==
  ASSUME IInv, NEW w \in Weeks, Server(SubmitScore(w))
  PROVE  IInv'
<1>1. /\ scores' = [scores EXCEPT ![w] = @ + 1] /\ handlers' = [handlers EXCEPT ![w] = @ + 1]
      /\ UNCHANGED <<hub, stream, week, page, loads, disturbances>>
  BY DEF Server, SubmitScore, pageVars
<1>2. EventsTypeOK' /\ \A v \in Weeks : scores[v] <= scores'[v] /\ scores'[v] \in Nat
  BY <1>1 DEF IInv, TypeOK, EventsTypeOK
<1>3. StreamsOK'
  BY <1>1, <1>2 DEF IInv, TypeOK, EventsTypeOK, Stream, StreamsOK
<1>4. ShutdownHeard' /\ SourceOK' /\ NoLostSignal'
  BY <1>1 DEF IInv, ShutdownHeard, SourceOK, NoLostSignal, WillLearn, Count
<1> QED BY <1>1, <1>2, <1>3, <1>4, ServerStep DEF IInv, TypeOK

Queued(t, q, d) == [t EXCEPT !.queue = q, !.due = d]

LEMMA QueueFacts ==
  ASSUME NEW t \in Stream, NEW q \in Seq(Events), NEW d \in Nat
  PROVE  LET u == Queued(t, q, d) IN
         /\ u \in Stream /\ u.queue = q /\ u.due = d
         /\ u.phase = t.phase /\ u.week = t.week /\ u.wire = t.wire
BY DEF Stream, Queued

\* What an event does to the subscribers in R, which are owed D from then on.
Offered(R, e, D) ==
  stream' = [s \in Streams |-> IF s \in R
                               THEN Queued(stream[s], Offer(stream[s].queue, e), D[s])
                               ELSE stream[s]]

LEMMA OfferStep ==
  ASSUME IInv, NEW e \in Events, NEW R \in SUBSET hub.subscriptions,
         scores' = scores, week' = week, page' = page, loads' = loads, handlers' \in [Weeks -> Nat],
         hub' \in [subscriptions : SUBSET Streams, shutdown : BOOLEAN],
         NEW D \in [Streams -> Nat], \A s \in R : D[s] <= scores[stream[s].week],
         Offered(R, e, D)
  PROVE  /\ EventsTypeOK' /\ SourceOK' /\ NoLostSignal'
         /\ \A s \in Streams :
              /\ stream'[s].phase = stream[s].phase
              /\ stream'[s].phase \in {"free", "asked", "ended"} => stream'[s].queue = <<>>
              /\ stream'[s].phase \in {"asked", "live", "left"} => stream'[s].due <= scores[stream'[s].week]
              /\ IF s \in R THEN stream'[s].queue = Offer(stream[s].queue, e) ELSE stream'[s] = stream[s]
<1>1. /\ R \subseteq Streams /\ stream \in [Streams -> Stream]
      /\ \A s \in R : stream[s].phase \in {"live", "left"}
      /\ \A s \in Streams : /\ stream[s].queue \in Seq(Events) /\ Len(stream[s].queue) <= QueueSize
                            /\ Len(stream[s].wire) <= WireSize
  BY DEF IInv, TypeOK, EventsTypeOK, StreamsOK, Stream
<1>2. \A s \in R : /\ Offer(stream[s].queue, e) \in Seq(Events)
                   /\ Len(Offer(stream[s].queue, e)) <= QueueSize
                   /\ Offer(stream[s].queue, e) # <<>>
  BY <1>1, OfferFacts
<1>3. ASSUME NEW s \in R
      PROVE  /\ stream'[s] \in Stream
             /\ stream'[s].queue = Offer(stream[s].queue, e) /\ stream'[s].due = D[s]
             /\ stream'[s].phase = stream[s].phase /\ stream'[s].week = stream[s].week
             /\ stream'[s].wire = stream[s].wire
  <2>1. stream'[s] = Queued(stream[s], Offer(stream[s].queue, e), D[s]) /\ stream[s] \in Stream
    BY <1>1 DEF Offered
  <2>2. Offer(stream[s].queue, e) \in Seq(Events) /\ D[s] \in Nat
    BY <1>1, <1>2
  <2> QED BY <2>1, <2>2, QueueFacts
<1>4. \A s \in Streams \ R : stream'[s] = stream[s]
  BY DEF Offered
<1>5. stream' \in [Streams -> Stream]
  BY <1>1, <1>3, <1>4 DEF Offered
<1>6. \A s \in Streams : Len(stream'[s].queue) <= QueueSize /\ Len(stream'[s].wire) <= WireSize
  BY <1>1, <1>2, <1>3, <1>4
<1>7. EventsTypeOK'
  BY <1>1, <1>3, <1>4, <1>5, <1>6 DEF IInv, TypeOK, EventsTypeOK
<1>8. SourceOK'
  BY <1>1, <1>3, <1>4 DEF IInv, TypeOK, Page, SourceOK
<1>9. NoLostSignal'
  <2> SUFFICES ASSUME page.initialized, page.player # None, page.source # None,
                      Count < stream'[page.source].due
               PROVE  page.error \/ WillLearn(stream[page.source].due)'
    BY DEF NoLostSignal, Count
  <2>1. page.source \in Streams
    BY DEF IInv, TypeOK, Page
  <2>2. CASE page.source \in R
    <3>1. page' = page /\ stream'[page.source].queue # <<>>
      BY <2>2, <1>2, <1>3
    <3> QED BY <3>1 DEF WillLearn
  <2>3. CASE page.source \notin R
    BY <2>1, <2>3, <1>4 DEF IInv, NoLostSignal, WillLearn, Count
  <2> QED BY <2>2, <2>3
<1>10. \A s \in Streams :
         /\ stream'[s].phase \in {"free", "asked", "ended"} => stream'[s].queue = <<>>
         /\ stream'[s].phase \in {"asked", "live", "left"} => stream'[s].due <= scores[stream'[s].week]
  BY <1>1, <1>3, <1>4 DEF IInv, StreamsOK
<1> QED BY <1>3, <1>4, <1>7, <1>8, <1>9, <1>10

LEMMA PublishStep ==
  ASSUME IInv, NEW w \in Weeks, Server(Publish(w))
  PROVE  IInv'
<1> DEFINE R == {s \in hub.subscriptions : stream[s].week = w}
           D == [s \in Streams |-> scores[w]]
<1>1. /\ handlers[w] > 0 /\ handlers' = [handlers EXCEPT ![w] = @ - 1]
      /\ UNCHANGED <<scores, hub, week, page, loads, disturbances>>
  BY DEF Server, Publish, pageVars
<1>2. /\ handlers' \in [Weeks -> Nat] /\ hub' \in [subscriptions : SUBSET Streams, shutdown : BOOLEAN]
      /\ D \in [Streams -> Nat] /\ R \in SUBSET hub.subscriptions /\ w \in Events /\ w # None
  BY <1>1, WeekAssumption DEF IInv, TypeOK, EventsTypeOK, Events
<1>3. Offered(R, w, D)
  BY DEF Server, Publish, Offered, Queued
<1>4. \A s \in R : D[s] <= scores[stream[s].week]
  BY <1>2 DEF IInv, TypeOK, EventsTypeOK
<1> HIDE DEF D, R
<1>5. /\ EventsTypeOK' /\ SourceOK' /\ NoLostSignal'
      /\ \A s \in Streams :
           /\ stream'[s].phase = stream[s].phase
           /\ stream'[s].phase \in {"free", "asked", "ended"} => stream'[s].queue = <<>>
           /\ stream'[s].phase \in {"asked", "live", "left"} => stream'[s].due <= scores[stream'[s].week]
           /\ IF s \in R THEN stream'[s].queue = Offer(stream[s].queue, w) ELSE stream'[s] = stream[s]
  BY <1>1, <1>2, <1>3, <1>4, OfferStep
<1>6. StreamsOK'
  BY <1>1, <1>5 DEF IInv, StreamsOK
<1>7. ShutdownHeard'
  <2>1. CASE hub.shutdown
    <3>1. R = {}
      BY <2>1 DEF R, IInv, StreamsOK
    <3> QED BY <2>1, <3>1, <1>1, <1>5 DEF IInv, ShutdownHeard
  <2>2. CASE ~hub.shutdown
    <3> SUFFICES ASSUME NEW s \in Streams, stream'[s].phase \in {"live", "left"}
                 PROVE  s \in hub.subscriptions /\ \A i \in DOMAIN stream'[s].queue : stream'[s].queue[i] # None
      BY <2>2, <1>1 DEF ShutdownHeard
    <3>1. s \in hub.subscriptions /\ \A i \in DOMAIN stream[s].queue : stream[s].queue[i] # None
      BY <2>2, <1>5 DEF IInv, ShutdownHeard
    <3>2. stream[s].queue \in Seq(Events) /\ Len(stream[s].queue) <= QueueSize
      BY DEF IInv, TypeOK, EventsTypeOK, Stream
    <3>3. \A i \in DOMAIN Offer(stream[s].queue, w) : Offer(stream[s].queue, w)[i] # None
      BY <3>1, <3>2, <1>2, OfferFacts
    <3> QED BY <3>1, <3>3, <1>5
  <2> QED BY <2>1, <2>2
<1> QED BY <1>1, <1>5, <1>6, <1>7, ServerStep DEF IInv, TypeOK, EventsTypeOK

LEMMA ShutDownStep ==
  ASSUME IInv, ShutDown
  PROVE  IInv'
<1> DEFINE R == hub.subscriptions
           D == [s \in Streams |-> stream[s].due]
<1>1. /\ ~hub.shutdown /\ hub' = [subscriptions |-> {}, shutdown |-> TRUE]
      /\ UNCHANGED <<scores, handlers, week, page, loads>>
      /\ disturbances < MaxDisturbances /\ disturbances' = disturbances + 1
  BY DEF ShutDown, Shutdown, Disturb, pageVars
<1>2. /\ handlers' \in [Weeks -> Nat] /\ hub' \in [subscriptions : SUBSET Streams, shutdown : BOOLEAN]
      /\ D \in [Streams -> Nat] /\ R \in SUBSET hub.subscriptions /\ None \in Events
      /\ disturbances' \in 0 .. MaxDisturbances
  BY <1>1, DisturbanceAssumption DEF IInv, TypeOK, EventsTypeOK, Events, Stream
<1>3. Offered(R, None, D)
  <2>1. \A s \in Streams : [stream[s] EXCEPT !.queue = Offer(@, None)]
                           = [stream[s] EXCEPT !.queue = Offer(@, None), !.due = stream[s].due]
    BY DEF IInv, TypeOK, EventsTypeOK, Stream
  <2> QED BY <2>1 DEF ShutDown, Shutdown, Offered, Queued
<1>4. \A s \in R : D[s] <= scores[stream[s].week]
  BY <1>2 DEF IInv, TypeOK, EventsTypeOK, StreamsOK
<1> HIDE DEF D, R
<1>5. /\ EventsTypeOK' /\ SourceOK' /\ NoLostSignal'
      /\ \A s \in Streams :
           /\ stream'[s].phase = stream[s].phase
           /\ stream'[s].phase \in {"free", "asked", "ended"} => stream'[s].queue = <<>>
           /\ stream'[s].phase \in {"asked", "live", "left"} => stream'[s].due <= scores[stream'[s].week]
           /\ IF s \in R THEN stream'[s].queue = Offer(stream[s].queue, None) ELSE stream'[s] = stream[s]
  BY <1>1, <1>2, <1>3, <1>4, OfferStep
<1>6. StreamsOK'
  BY <1>1, <1>5 DEF IInv, StreamsOK
<1>7. ShutdownHeard'
  <2> SUFFICES ASSUME NEW s \in Streams, stream'[s].phase \in {"live", "left"}
               PROVE  stream'[s].queue # <<>> /\ stream'[s].queue[Len(stream'[s].queue)] = None
    BY <1>1 DEF ShutdownHeard
  <2>1. s \in R
    BY <1>1, <1>5 DEF R, IInv, ShutdownHeard
  <2>2. stream[s].queue \in Seq(Events) /\ Len(stream[s].queue) <= QueueSize
    BY DEF IInv, TypeOK, EventsTypeOK, Stream
  <2>3. stream'[s].queue = Offer(stream[s].queue, None)
    BY <2>1, <1>5
  <2>4. Offer(stream[s].queue, None) # <<>>
    BY <2>2, <1>2, OfferFacts
  <2>5. Offer(stream[s].queue, None)[Len(Offer(stream[s].queue, None))] = None
    BY <2>2, <1>2, OfferFacts
  <2> QED BY <2>3, <2>4, <2>5
<1>8. \A w \in Weeks : scores[w] <= scores'[w]
  BY <1>1 DEF IInv, TypeOK, EventsTypeOK
<1> QED BY <1>1, <1>2, <1>5, <1>6, <1>7, <1>8, ServerStep

\* A stream that is fit to become the stream s, its subscription as it is in h.
Fit(s, r, h) ==
  /\ r \in Stream
  /\ Len(r.queue) <= QueueSize /\ Len(r.wire) <= WireSize
  /\ r.phase \in {"asked", "live", "left"} => r.week \in Weeks /\ r.due <= scores[r.week]
  /\ r.phase \in {"free", "asked", "ended"} => r.queue = <<>>
  /\ s \in h.subscriptions => r.phase \in {"live", "left"}
  /\ r.phase \in {"live", "left"} =>
       IF h.shutdown THEN r.queue # <<>> /\ r.queue[Len(r.queue)] = None
       ELSE s \in h.subscriptions /\ \A i \in DOMAIN r.queue : r.queue[i] # None

\* One stream changes, and no more than its own subscription.
LEMMA OneStreamStep ==
  ASSUME IInv, NEW s \in Streams, NEW r, stream' = [stream EXCEPT ![s] = r],
         scores' = scores, handlers' = handlers,
         hub' \in [subscriptions : SUBSET Streams, shutdown : BOOLEAN],
         hub'.shutdown = hub.shutdown, hub'.subscriptions \ {s} = hub.subscriptions \ {s},
         hub.shutdown => hub'.subscriptions = {},
         Fit(s, r, hub')
  PROVE  EventsTypeOK' /\ StreamsOK' /\ ShutdownHeard'
<1>1. stream'[s] = r /\ \A q \in Streams \ {s} : stream'[q] = stream[q]
  BY DEF IInv, TypeOK, EventsTypeOK
<1>2. stream' \in [Streams -> Stream]
  BY <1>1 DEF IInv, TypeOK, EventsTypeOK, Fit
<1>3. EventsTypeOK'
  BY <1>1, <1>2 DEF IInv, TypeOK, EventsTypeOK, Fit
<1>4. StreamsOK'
  BY <1>1 DEF IInv, StreamsOK, Fit
<1>5. ShutdownHeard'
  BY <1>1 DEF IInv, ShutdownHeard, Fit
<1> QED BY <1>3, <1>4, <1>5

\* Such a step, as a step of the server.
LEMMA OneStreamServerStep ==
  ASSUME IInv, NEW s \in Streams, NEW r, stream' = [stream EXCEPT ![s] = r],
         scores' = scores, handlers' = handlers,
         UNCHANGED <<pageVars, disturbances>>,
         hub' \in [subscriptions : SUBSET Streams, shutdown : BOOLEAN],
         hub'.shutdown = hub.shutdown, hub'.subscriptions \ {s} = hub.subscriptions \ {s},
         hub.shutdown => hub'.subscriptions = {},
         Fit(s, r, hub'),
         page.source = s => /\ r.phase \in {"asked", "live", "ended"} /\ r.week = stream[s].week
                            /\ \/ r.due = 0 \/ r.queue # <<>> \/ r.phase = "ended"
                               \/ \E i \in DOMAIN r.wire : r.wire[i] = Connected => page.connectedOnce
  PROVE  IInv'
<1>1. EventsTypeOK' /\ StreamsOK' /\ ShutdownHeard'
  BY OneStreamStep
<1>2. stream'[s] = r /\ \A q \in Streams \ {s} : stream'[q] = stream[q]
  BY DEF IInv, TypeOK, EventsTypeOK
<1>3. page' = page /\ loads' = loads /\ week' = week /\ page \in Page
  BY DEF pageVars, IInv, TypeOK
<1>4. SourceOK'
  BY <1>2, <1>3 DEF IInv, SourceOK, Page
<1>5. NoLostSignal'
  <2> SUFFICES ASSUME page.initialized, page.player # None, page.source # None,
                      Count < stream'[page.source].due
               PROVE  page.error \/ WillLearn(stream[page.source].due)'
    BY <1>3 DEF NoLostSignal, Count
  <2>1. CASE page.source = s
    <3>1. Count \in Nat
      BY <1>3 DEF Count, Page
    <3>2. r.due # 0
      BY <1>2, <2>1, <3>1
    <3>3. \/ stream'[page.source].queue # <<>> \/ stream'[page.source].phase = "ended"
          \/ \E i \in DOMAIN stream'[page.source].wire :
               stream'[page.source].wire[i] = Connected => page.connectedOnce
      BY <2>1, <3>2, <1>2
    <3> QED BY <1>3, <3>3 DEF WillLearn
  <2>2. CASE page.source # s
    <3>1. stream'[page.source] = stream[page.source]
      BY <1>2, <1>3, <2>2 DEF Page
    <3> QED BY <1>3, <3>1 DEF IInv, NoLostSignal, WillLearn, Count
  <2> QED BY <2>1, <2>2
<1>6. \A w \in Weeks : scores[w] <= scores'[w]
  BY DEF IInv, TypeOK, EventsTypeOK
<1>7. disturbances' \in 0 .. MaxDisturbances
  BY DEF IInv, TypeOK
<1> QED BY <1>1, <1>3, <1>4, <1>5, <1>6, <1>7, ServerStep

\* What the invariant says of one stream.
LEMMA StreamIs ==
  ASSUME IInv, NEW s \in Streams
  PROVE  /\ stream \in [Streams -> Stream] /\ stream[s] \in Stream /\ Fit(s, stream[s], hub)
         /\ hub.shutdown => hub.subscriptions = {}
         /\ hub.subscriptions \in SUBSET Streams /\ hub.shutdown \in BOOLEAN
         /\ hub = [subscriptions |-> hub.subscriptions, shutdown |-> hub.shutdown]
<1>1. /\ stream \in [Streams -> Stream] /\ stream[s] \in Stream
      /\ hub \in [subscriptions : SUBSET Streams, shutdown : BOOLEAN]
  BY DEF IInv, TypeOK, EventsTypeOK
<1>2. Fit(s, stream[s], hub)
  BY <1>1 DEF IInv, TypeOK, EventsTypeOK, StreamsOK, ShutdownHeard, Fit
<1> QED BY <1>1, <1>2 DEF IInv, StreamsOK

LEMMA UnsubscribedFacts ==
  ASSUME IInv, NEW s \in Streams
  PROVE  LET h == Unsubscribed(s) IN
         /\ h \in [subscriptions : SUBSET Streams, shutdown : BOOLEAN]
         /\ h.shutdown = hub.shutdown /\ h.subscriptions = hub.subscriptions \ {s}
BY StreamIs DEF Unsubscribed, IInv, TypeOK, EventsTypeOK

LEMMA CloseStreamStep ==
  ASSUME IInv, NEW s \in Streams, Server(CloseStream(s))
  PROVE  IInv'
<1>1. /\ stream[s].phase = "left" /\ stream' = [stream EXCEPT ![s] = NoStream]
      /\ hub' = Unsubscribed(s) /\ scores' = scores /\ handlers' = handlers
      /\ UNCHANGED <<pageVars, disturbances>>
  BY DEF Server, CloseStream
<1>2. /\ hub' \in [subscriptions : SUBSET Streams, shutdown : BOOLEAN]
      /\ hub'.shutdown = hub.shutdown /\ hub'.subscriptions = hub.subscriptions \ {s}
      /\ hub.shutdown => hub.subscriptions = {}
  BY <1>1, UnsubscribedFacts, StreamIs
<1>3. Fit(s, NoStream, hub')
  <2>1. NoStream \in Stream /\ NoStream.phase = "free" /\ Len(NoStream.queue) = 0 /\ Len(NoStream.wire) = 0
        /\ NoStream.queue = <<>>
    BY StreamFacts DEF NoStream
  <2> QED BY <2>1, <1>2, QueueAssumption DEF Fit
<1>4. page.source # s
  BY <1>1, WeekAssumption DEF IInv, SourceOK
<1> QED BY <1>1, <1>2, <1>3, <1>4, OneStreamServerStep

LEMMA DeliverStep ==
  ASSUME IInv, NEW s \in Streams, Server(Deliver(s))
  PROVE  IInv'
<1> DEFINE t == stream[s]
           u == [t EXCEPT !.queue = Tail(@), !.wire = Append(@, Head(t.queue))]
           v == [t EXCEPT !.phase = "ended", !.queue = <<>>]
<1>1. /\ t.phase = "live" /\ t.queue # <<>> /\ scores' = scores /\ handlers' = handlers
      /\ UNCHANGED <<pageVars, disturbances>>
  BY DEF Server, Deliver
<1>2. t \in Stream /\ t.queue \in Seq(Events) /\ t.wire \in Seq(Weeks \cup {Connected})
  BY StreamIs DEF Stream
<1>3. /\ Head(t.queue) \in Events /\ Tail(t.queue) \in Seq(Events) /\ Len(Tail(t.queue)) = Len(t.queue) - 1
      /\ \A i \in DOMAIN Tail(t.queue) : i + 1 \in DOMAIN t.queue /\ Tail(t.queue)[i] = t.queue[i + 1]
      /\ Head(t.queue) = t.queue[1]
  BY <1>1, <1>2, TailFacts
<1>4. CASE /\ Head(t.queue) # None /\ Len(t.wire) < WireSize
           /\ stream' = [stream EXCEPT ![s] = u] /\ hub' = hub
  <2>1. Head(t.queue) \in Weeks
    BY <1>3, <1>4 DEF Events
  <2>2. /\ Append(t.wire, Head(t.queue)) \in Seq(Weeks \cup {Connected})
        /\ Len(Append(t.wire, Head(t.queue))) = Len(t.wire) + 1
        /\ Append(t.wire, Head(t.queue))[Len(t.wire) + 1] = Head(t.queue)
        /\ Len(t.wire) \in Nat
    BY <1>2, <2>1
  <2>3. /\ u \in Stream /\ u.phase = "live" /\ u.queue = Tail(t.queue)
        /\ u.wire = Append(t.wire, Head(t.queue)) /\ u.week = t.week /\ u.due = t.due
    BY <1>1, <1>2, <1>3, <2>2 DEF Stream
  <2>4. Fit(s, t, hub) /\ (hub.shutdown => hub.subscriptions = {})
    BY StreamIs
  <2>5. Fit(s, u, hub)
    <3>1. Len(u.queue) <= QueueSize /\ Len(u.wire) <= WireSize
      BY <1>2, <1>3, <1>4, <2>2, <2>3, <2>4, QueueAssumption DEF Fit
    <3>2. ASSUME hub.shutdown PROVE u.queue # <<>> /\ u.queue[Len(u.queue)] = None
      <4>1. t.queue[Len(t.queue)] = None
        BY <3>2, <2>4, <1>1 DEF Fit
      <4>2. Len(t.queue) # 1 /\ Len(t.queue) \in Nat
        BY <1>2, <1>3, <1>4, <4>1
      <4>3. Len(t.queue) \in DOMAIN t.queue
        BY <1>1, <1>2
      <4>4. Len(t.queue) - 1 \in DOMAIN Tail(t.queue) /\ t.queue[Len(t.queue)] = Tail(t.queue)[Len(t.queue) - 1]
        BY <1>1, <1>2, <4>2, <4>3, TailFacts
      <4>5. Tail(t.queue) # <<>>
        BY <1>3, <4>4, \A S : <<>> \in Seq(S) /\ Len(<<>>) = 0
      <4> QED BY <4>1, <4>4, <4>5, <1>3, <2>3
    <3>3. ASSUME ~hub.shutdown
          PROVE  s \in hub.subscriptions /\ \A i \in DOMAIN u.queue : u.queue[i] # None
      BY <3>3, <1>1, <1>3, <2>3, <2>4 DEF Fit
    <3> QED BY <1>1, <2>3, <2>4, <3>1, <3>2, <3>3 DEF Fit
  <2>6. \E i \in DOMAIN u.wire : u.wire[i] = Connected => page.connectedOnce
    <3>1. Len(t.wire) + 1 \in DOMAIN u.wire /\ u.wire[Len(t.wire) + 1] # Connected
      BY <2>1, <2>2, <2>3, WeekAssumption DEF Connected
    <3> QED BY <3>1
  <2>7. hub' \in [subscriptions : SUBSET Streams, shutdown : BOOLEAN]
    BY <1>4 DEF IInv, TypeOK, EventsTypeOK
  <2> HIDE DEF u
  <2> QED BY <1>1, <1>4, <2>3, <2>4, <2>5, <2>6, <2>7, OneStreamServerStep
<1>5. CASE /\ Head(t.queue) = None /\ stream' = [stream EXCEPT ![s] = v] /\ hub' = Unsubscribed(s)
  <2>1. /\ v \in Stream /\ v.phase = "ended" /\ v.queue = <<>> /\ Len(v.queue) = 0
        /\ v.wire = t.wire /\ v.week = t.week
    <3>1. <<>> \in Seq(Events) /\ Len(<<>>) = 0
      OBVIOUS
    <3> QED BY <3>1, <1>2 DEF Stream
  <2>2. /\ hub' \in [subscriptions : SUBSET Streams, shutdown : BOOLEAN]
        /\ hub'.shutdown = hub.shutdown /\ hub'.subscriptions = hub.subscriptions \ {s}
        /\ (hub.shutdown => hub.subscriptions = {}) /\ Len(t.wire) <= WireSize
    BY <1>5, UnsubscribedFacts, StreamIs DEF Fit
  <2>3. Fit(s, v, hub')
    BY <2>1, <2>2, QueueAssumption DEF Fit
  <2> HIDE DEF v
  <2> QED BY <1>1, <1>5, <2>1, <2>2, <2>3, OneStreamServerStep
<1> QED BY <1>4, <1>5 DEF Server, Deliver

LEMMA ServeStreamStep ==
  ASSUME IInv, NEW s \in Streams, ServeStream(s)
  PROVE  IInv'
<1> DEFINE t == stream[s]
           owed == IF page.source = s /\ page.connectedOnce THEN scores[t.week] ELSE 0
           q == IF hub.shutdown THEN Offer(t.queue, None) ELSE t.queue
           u == [t EXCEPT !.phase = "live", !.wire = <<Connected>>, !.due = owed, !.queue = q]
<1>1. /\ t.phase = "asked" /\ stream' = [stream EXCEPT ![s] = u]
      /\ hub' = IF hub.shutdown THEN hub ELSE [hub EXCEPT !.subscriptions = @ \cup {s}]
      /\ scores' = scores /\ handlers' = handlers /\ UNCHANGED <<pageVars, disturbances>>
  BY DEF ServeStream, Subscribe
<1>2. /\ t \in Stream /\ t.week \in Weeks /\ t.queue = <<>> /\ t.queue \in Seq(Events) /\ Len(t.queue) = 0
      /\ (hub.shutdown => hub.subscriptions = {}) /\ None \in Events
  BY <1>1, StreamIs DEF Stream, Fit, Events
<1>3. owed \in Nat /\ owed <= scores[t.week]
  BY <1>2 DEF IInv, TypeOK, EventsTypeOK
<1>4. /\ q \in Seq(Events) /\ Len(q) <= QueueSize
      /\ hub.shutdown => q # <<>> /\ q[Len(q)] = None
      /\ ~hub.shutdown => q = <<>>
  <2>1. CASE hub.shutdown
    <3>1. Len(t.queue) <= QueueSize
      BY <1>2, QueueAssumption
    <3>2. Offer(t.queue, None) \in Seq(Events) /\ Len(Offer(t.queue, None)) <= QueueSize
      BY <3>1, <1>2, OfferFacts
    <3>3. Offer(t.queue, None) # <<>> /\ Offer(t.queue, None)[Len(Offer(t.queue, None))] = None
      BY <3>1, <1>2, OfferFacts
    <3> QED BY <2>1, <3>2, <3>3
  <2>2. CASE ~hub.shutdown
    BY <2>2, <1>2, QueueAssumption
  <2> QED BY <2>1, <2>2
<1> HIDE DEF owed, q
<1>5. <<Connected>> \in Seq(Weeks \cup {Connected}) /\ Len(<<Connected>>) = 1 /\ <<Connected>>[1] = Connected
  OBVIOUS
<1>6. /\ u \in Stream /\ u.phase = "live" /\ u.queue = q /\ u.wire = <<Connected>>
      /\ u.week = t.week /\ u.due = owed
  BY <1>2, <1>3, <1>4, <1>5 DEF Stream
<1>7. /\ hub' \in [subscriptions : SUBSET Streams, shutdown : BOOLEAN]
      /\ hub'.shutdown = hub.shutdown /\ hub'.subscriptions \ {s} = hub.subscriptions \ {s}
      /\ hub.shutdown => hub'.subscriptions = {}
      /\ ~hub.shutdown => s \in hub'.subscriptions
  BY <1>1, <1>2 DEF IInv, TypeOK, EventsTypeOK
<1>8. Fit(s, u, hub')
  <2>1. ~hub.shutdown => \A i \in DOMAIN q : q[i] # None
    BY <1>4
  <2>2. Len(u.queue) <= QueueSize /\ Len(u.wire) <= WireSize
    BY <1>4, <1>5, <1>6, QueueAssumption
  <2> HIDE DEF u
  <2> QED BY <1>2, <1>3, <1>4, <1>6, <1>7, <2>1, <2>2 DEF Fit
<1>9. page.source = s => \/ u.due = 0
                         \/ \E i \in DOMAIN u.wire : u.wire[i] = Connected => page.connectedOnce
  <2>1. CASE page.connectedOnce
    BY <2>1, <1>5, <1>6
  <2>2. CASE ~page.connectedOnce
    BY <2>2, <1>6 DEF owed
  <2> QED BY <2>1, <2>2
<1> HIDE DEF u
<1> QED BY <1>1, <1>6, <1>7, <1>8, <1>9, OneStreamServerStep

------------------------------------------------------------------------------
(***************************************************************************)
(* Steps of a load.                                                        *)
(***************************************************************************)
LEMMA Types ==
  ASSUME IInv
  PROVE  /\ page \in Page /\ week \in Weeks /\ loads \subseteq LoadRecord
         /\ scores \in [Weeks -> Nat] /\ disturbances \in 0 .. MaxDisturbances
         /\ page.loading = (loads # {}) /\ \A l, m \in loads : l = m
BY DEF IInv, TypeOK, EventsTypeOK

LEMMA PollStep ==
  ASSUME IInv, Poll
  PROVE  IInv'
<1>1. page' = [page EXCEPT !.timer = TRUE] /\ UNCHANGED <<eventVars, week, loads, disturbances>>
  BY DEF Poll
<1>2. EventsTypeOK' /\ StreamsOK' /\ ShutdownHeard'
  BY <1>1, PageStep
<1>3. TypeOK'
  BY <1>1, <1>2 DEF IInv, TypeOK, Page
<1>4. SourceOK' /\ LoadsOK' /\ PageOK' /\ BoardIsOfPage' /\ NoLostSignal'
  BY <1>1, Types DEF IInv, eventVars, SourceOK, LoadsOK, PageOK, BoardIsOfPage, NoLostSignal,
                     WillLearn, Count, Page
<1> QED BY <1>2, <1>3, <1>4 DEF IInv

\* The request of a load is answered: its record m takes the place of l.
LEMMA AnswerStep ==
  ASSUME IInv, NEW l \in loads, NEW m \in LoadRecord, loads' = (loads \ {l}) \cup {m},
         UNCHANGED <<eventVars, week, page, disturbances>>,
         m.stale = l.stale, m.step # "page",
         ~l.stale => /\ m.player = l.player /\ m.week = l.week
                     /\ m.step = "done" => m.rankWeek = page.week
                     /\ m.count = IF l.step = "page" THEN scores[l.week] ELSE l.count
  PROVE  IInv'
<1>1. EventsTypeOK' /\ StreamsOK' /\ ShutdownHeard'
  BY PageStep
<1>2. loads = {l} /\ loads' = {m} /\ l \in LoadRecord
  BY Types
<1>3. TypeOK'
  BY <1>1, <1>2 DEF IInv, TypeOK
<1>4. SourceOK' /\ PageOK' /\ BoardIsOfPage'
  BY DEF IInv, eventVars, SourceOK, PageOK, BoardIsOfPage
<1>5. ASSUME ~l.stale PROVE Count <= m.count /\ m.count <= scores[m.week] /\ m.week = page.week
  <2>1. l.week = page.week /\ l.week \in Weeks /\ scores[l.week] \in Nat
    BY <1>2, <1>5, Types DEF IInv, LoadsOK, LoadRecord
  <2>2. CASE l.step = "page"
    <3>1. Count <= scores[page.week]
      BY Types, <2>1 DEF IInv, PageOK, Count
    <3> QED BY <1>5, <2>1, <2>2, <3>1
  <2>3. CASE l.step # "page"
    BY <1>5, <2>1, <2>3 DEF IInv, LoadsOK
  <2> QED BY <2>2, <2>3
<1>6. LoadsOK'
  BY <1>2, <1>5 DEF IInv, LoadsOK, Count, eventVars
<1>7. NoLostSignal'
  <2> SUFFICES ASSUME page.initialized, page.player # None, page.source # None,
                      Count < stream[page.source].due, ~page.error
               PROVE  WillLearn(stream[page.source].due)'
    BY DEF NoLostSignal, Count, eventVars
  <2> DEFINE n == stream[page.source].due
  <2>1. WillLearn(n)
    BY DEF IInv, NoLostSignal
  <2>2. stream' = stream /\ page' = page
    BY DEF eventVars
  <2>3. CASE ~l.stale /\ (l.step = "page" \/ l.count >= n)
    <3>1. CASE stream[page.source].phase = "ended"
      BY <2>2, <3>1 DEF WillLearn
    <3>2. CASE stream[page.source].phase # "ended"
      <4>1. n <= scores[page.week]
        BY <3>2, Types DEF IInv, SourceOK, StreamsOK, Page
      <4>2. m.count >= n
        BY <2>3, <4>1, <1>2, <1>5, Types DEF LoadRecord, IInv, LoadsOK
      <4> QED BY <2>2, <2>3, <4>2, <1>2 DEF WillLearn
    <3> QED BY <3>1, <3>2
  <2>4. CASE ~(~l.stale /\ (l.step = "page" \/ l.count >= n))
    BY <2>1, <2>2, <2>4, <1>2 DEF WillLearn
  <2> QED BY <2>3, <2>4
<1> QED BY <1>1, <1>3, <1>4, <1>6, <1>7 DEF IInv

LEMMA AnswerPageStep ==
  ASSUME IInv, NEW l \in loads, AnswerPage(l)
  PROVE  IInv'
<1> DEFINE m == [l EXCEPT !.step = "rank", !.count = scores[l.week]]
<1>1. /\ l.step = "page" /\ loads' = (loads \ {l}) \cup {m}
      /\ UNCHANGED <<eventVars, week, page, disturbances>>
  BY DEF AnswerPage
<1>2. l \in LoadRecord /\ l.week \in Weeks /\ scores[l.week] \in Nat
  BY Types DEF LoadRecord
<1>3. /\ m \in LoadRecord /\ m.stale = l.stale /\ m.step = "rank" /\ m.player = l.player
      /\ m.week = l.week /\ m.count = scores[l.week]
  BY <1>2 DEF LoadRecord
<1> HIDE DEF m
<1> QED BY <1>1, <1>3, AnswerStep

LEMMA AnswerRankStep ==
  ASSUME IInv, NEW l \in loads, AnswerRank(l)
  PROVE  IInv'
<1> DEFINE m == [l EXCEPT !.step = "done", !.rankWeek = page.week]
<1>1. /\ l.step = "rank" /\ loads' = (loads \ {l}) \cup {m}
      /\ UNCHANGED <<eventVars, week, page, disturbances>>
  BY DEF AnswerRank
<1>2. l \in LoadRecord /\ page.week \in Weeks
  BY Types DEF Page
<1>3. /\ m \in LoadRecord /\ m.stale = l.stale /\ m.step = "done" /\ m.player = l.player
      /\ m.week = l.week /\ m.count = l.count /\ m.rankWeek = page.week
  BY <1>2 DEF LoadRecord
<1> HIDE DEF m
<1> QED BY <1>1, <1>3, AnswerStep

\* The finally block of load() on a component pg that no other change has touched.
LEMMA LoadOverFacts ==
  ASSUME NEW pg \in Page
  PROVE  LET q == LoadOver(pg) IN
         /\ q \in Page /\ q.loading = FALSE /\ q.timer = (pg.timer \/ pg.pending)
         /\ q.player = pg.player /\ q.week = pg.week /\ q.source = pg.source
         /\ q.connectedOnce = pg.connectedOnce /\ q.checking = pg.checking
         /\ q.initialized = pg.initialized /\ q.shown = pg.shown /\ q.entry = pg.entry
         /\ q.error = pg.error
BY DEF LoadOver, Page

\* A load ends with the component pg: the load l was of no use any more, or failed,
\* or pg shows what it has read.
LEMMA LoadEnds ==
  ASSUME IInv, NEW l \in loads, NEW pg \in Page, page' = LoadOver(pg), loads' = loads \ {l},
         UNCHANGED <<eventVars, week>>, disturbances' \in 0 .. MaxDisturbances,
         pg.player = page.player, pg.week = page.week, pg.source = page.source,
         pg.connectedOnce = page.connectedOnce, pg.initialized = page.initialized,
         pg.checking = page.checking, pg.timer = page.timer, pg.pending = page.pending,
         page.error => pg.error,
         \/ /\ pg.shown = page.shown /\ pg.entry = page.entry /\ (pg.error \/ l.stale)
         \/ /\ ~l.stale /\ l.step = "done" /\ pg.shown = [week |-> l.week, count |-> l.count]
            /\ pg.entry = [player |-> l.player, week |-> l.rankWeek]
  PROVE  IInv'
<1>1. EventsTypeOK' /\ StreamsOK' /\ ShutdownHeard'
  BY PageStep
<1>2. loads' = {} /\ page' \in Page /\ page'.loading = FALSE /\ l \in LoadRecord
  <2>1. page' \in Page
    BY LoadOverFacts
  <2>2. page'.loading = FALSE
    BY LoadOverFacts
  <2>3. loads' = {} /\ l \in LoadRecord
    BY Types
  <2> QED BY <2>1, <2>2, <2>3
<1>3. TypeOK'
  <2>1. week' \in Weeks /\ loads' \subseteq LoadRecord /\ \A k, m \in loads' : k = m
    BY <1>2, Types
  <2>2. page'.loading = (loads' # {})
    BY <1>2
  <2> QED BY <1>1, <1>2, <2>1, <2>2 DEF TypeOK
<1>4. /\ page'.player = page.player /\ page'.week = page.week /\ page'.source = page.source
      /\ page'.connectedOnce = page.connectedOnce /\ page'.checking = page.checking
      /\ page'.initialized = page.initialized /\ page'.shown = pg.shown /\ page'.entry = pg.entry
      /\ page'.error = pg.error /\ page'.timer = (page.timer \/ page.pending)
  BY LoadOverFacts
<1>5. SourceOK'
  BY <1>4 DEF IInv, SourceOK, eventVars
<1>6. LoadsOK'
  BY <1>2 DEF LoadsOK
<1>7. CASE pg.shown = page.shown /\ pg.entry = page.entry /\ (pg.error \/ l.stale)
  <2>1. PageOK' /\ BoardIsOfPage'
    BY <1>4, <1>7 DEF IInv, eventVars, PageOK, BoardIsOfPage
  <2>2. NoLostSignal'
    <3> SUFFICES ASSUME page.initialized, page.player # None, page.source # None,
                        Count < stream[page.source].due, ~pg.error
                 PROVE  WillLearn(stream[page.source].due)'
      BY <1>4, <1>7 DEF NoLostSignal, Count, eventVars
    <3>1. WillLearn(stream[page.source].due) /\ l.stale
      BY <1>7 DEF IInv, NoLostSignal
    <3> QED BY <1>4, <3>1, Types DEF WillLearn, eventVars
  <2> QED BY <1>1, <1>3, <1>5, <1>6, <2>1, <2>2 DEF IInv
<1>8. CASE /\ ~l.stale /\ l.step = "done" /\ pg.shown = [week |-> l.week, count |-> l.count]
           /\ pg.entry = [player |-> l.player, week |-> l.rankWeek]
  <2>1. /\ l.player = page.player /\ l.week = page.week /\ l.rankWeek = page.week
        /\ Count <= l.count /\ l.count <= scores[l.week] /\ l.count \in Nat
    BY <1>2, <1>8 DEF IInv, LoadsOK, LoadRecord
  <2>2. pg.shown # None /\ pg.entry # None
    <3>1. /\ [week |-> l.week, count |-> l.count] \in [week : Weeks, count : Nat]
          /\ [player |-> l.player, week |-> l.rankWeek] \in [player : Players, week : Weeks]
      BY <2>1, <1>2, Types DEF LoadRecord, Page
    <3> QED BY <1>8, <3>1, NoneAssumption
  <2>3. PageOK' /\ BoardIsOfPage'
    BY <1>4, <1>8, <2>1, <2>2 DEF IInv, eventVars, PageOK, BoardIsOfPage
  <2>4. NoLostSignal'
    <3> SUFFICES ASSUME page.initialized, page.player # None, page.source # None,
                        l.count < stream[page.source].due, ~pg.error
                 PROVE  WillLearn(stream[page.source].due)'
      BY <1>4, <1>8, <2>2 DEF NoLostSignal, Count, eventVars
    <3> DEFINE n == stream[page.source].due
    <3>1. n \in Nat /\ Count \in Nat
      BY Types DEF IInv, TypeOK, EventsTypeOK, Stream, Page, Count
    <3>2. Count < n /\ ~(l.count >= n)
      BY <2>1, <3>1
    <3>3. WillLearn(n)
      BY <3>2 DEF IInv, NoLostSignal
    <3>4. \A k \in loads : ~(~k.stale /\ (k.step = "page" \/ k.count >= n))
      BY <1>8, <3>2, Types
    <3> QED BY <1>4, <3>3, <3>4 DEF WillLearn, eventVars
  <2> QED BY <1>1, <1>3, <1>5, <1>6, <2>3, <2>4 DEF IInv
<1> QED BY <1>7, <1>8

LEMMA ApplyLoadStep ==
  ASSUME IInv, NEW l \in loads, ApplyLoad(l)
  PROVE  IInv'
<1> DEFINE pg == [page EXCEPT !.shown = [week |-> l.week, count |-> l.count],
                              !.entry = [player |-> l.player, week |-> l.rankWeek]]
<1>1. /\ l.step = "done" /\ loads' = loads \ {l} /\ UNCHANGED <<eventVars, week>>
      /\ page' = LoadOver(IF l.stale THEN page ELSE pg) /\ disturbances' = disturbances
  BY DEF ApplyLoad
<1>2. page \in Page /\ l \in LoadRecord /\ disturbances' \in 0 .. MaxDisturbances
  BY <1>1, Types
<1>3. CASE l.stale
  <2>1. page' = LoadOver(page)
    BY <1>1, <1>3
  <2> QED BY <1>1, <1>2, <1>3, <2>1, LoadEnds
<1>4. CASE ~l.stale
  <2>1. page' = LoadOver(pg)
    BY <1>1, <1>4
  <2>2. l.rankWeek \in Weeks
    BY <1>1, <1>2, <1>4 DEF IInv, LoadsOK, Page
  <2>3. /\ pg \in Page /\ pg.shown = [week |-> l.week, count |-> l.count]
        /\ pg.entry = [player |-> l.player, week |-> l.rankWeek]
        /\ pg.player = page.player /\ pg.week = page.week /\ pg.source = page.source
        /\ pg.connectedOnce = page.connectedOnce /\ pg.initialized = page.initialized
        /\ pg.checking = page.checking /\ pg.timer = page.timer /\ pg.pending = page.pending
        /\ pg.error = page.error
    BY <1>2, <2>2 DEF Page, LoadRecord
  <2> HIDE DEF pg
  <2> QED BY <1>1, <1>2, <1>4, <2>1, <2>3, LoadEnds
<1> QED BY <1>3, <1>4

LEMMA FailedStep ==
  ASSUME IInv, NEW l \in loads, loads' = loads \ {l}, page' = Failed(l),
         UNCHANGED <<eventVars, week>>, disturbances' \in 0 .. MaxDisturbances
  PROVE  IInv'
<1> DEFINE pg == IF l.stale THEN page ELSE [page EXCEPT !.error = TRUE]
<1>1. page' = LoadOver(pg)
  BY DEF Failed
<1>2. page \in Page
  BY Types
<1>3. /\ pg \in Page /\ pg.shown = page.shown /\ pg.entry = page.entry /\ (pg.error \/ l.stale)
      /\ pg.player = page.player /\ pg.week = page.week /\ pg.source = page.source
      /\ pg.connectedOnce = page.connectedOnce /\ pg.initialized = page.initialized
      /\ pg.checking = page.checking /\ pg.timer = page.timer /\ pg.pending = page.pending
      /\ (page.error => pg.error)
  BY <1>2 DEF Page
<1> HIDE DEF pg
<1> QED BY <1>1, <1>3, LoadEnds

LEMMA DisturbFacts ==
  ASSUME IInv, Disturb
  PROVE  disturbances' \in 0 .. MaxDisturbances
BY DisturbanceAssumption, Types DEF Disturb

LEMMA FailLoadStep ==
  ASSUME IInv, NEW l \in loads, FailLoad(l)
  PROVE  IInv'
<1>1. disturbances' \in 0 .. MaxDisturbances
  BY DisturbFacts DEF FailLoad
<1> QED BY <1>1, FailedStep DEF FailLoad

LEMMA NewLoadFacts ==
  ASSUME NEW pg \in Page, pg.player # None
  PROVE  LET l == NewLoad(pg) IN
         /\ l \in LoadRecord /\ l.step = "page" /\ l.player = pg.player /\ l.week = pg.week /\ ~l.stale
BY DEF NewLoad, LoadRecord, Page

\* A new load starts.
LEMMA LoadStarts ==
  ASSUME IInv, NEW pg \in Page, pg.player # None, ~page.loading,
         page' \in Page, page'.loading, loads' = {NewLoad(pg)},
         page'.player = pg.player, page'.week = page.week, pg.week = page.week,
         page'.source = page.source, ~page'.initialized => page'.checking # None,
         \/ /\ page'.shown = page.shown /\ page'.entry = page.entry /\ pg.player = page.player
         \/ page'.shown = None /\ page'.entry = None,
         UNCHANGED <<eventVars, week>>, disturbances' \in 0 .. MaxDisturbances
  PROVE  IInv'
<1> DEFINE l == NewLoad(pg)
<1>1. EventsTypeOK' /\ StreamsOK' /\ ShutdownHeard'
  BY PageStep
<1>2. /\ l \in LoadRecord /\ l.step = "page" /\ l.player = pg.player /\ l.week = pg.week /\ ~l.stale
      /\ loads' = {l}
  BY NewLoadFacts
<1> HIDE DEF l
<1>3. TypeOK'
  BY <1>1, <1>2, Types DEF TypeOK
<1>4. SourceOK'
  BY DEF IInv, SourceOK, eventVars
<1>5. LoadsOK'
  BY <1>2 DEF LoadsOK
<1>6. PageOK' /\ BoardIsOfPage'
  BY DEF IInv, PageOK, BoardIsOfPage, eventVars
<1>7. NoLostSignal'
  BY <1>2 DEF NoLostSignal, WillLearn
<1> QED BY <1>1, <1>3, <1>4, <1>5, <1>6, <1>7 DEF IInv

\* A call of load() finds another one under way, which will lead to a new one.
LEMMA LoadPending ==
  ASSUME IInv, page.loading, page' \in Page, page'.loading, page'.pending,
         page'.week = page.week, page'.source = page.source,
         ~page'.initialized => page'.checking # None,
         \/ /\ page'.shown = page.shown /\ page'.entry = page.entry /\ page'.player = page.player
            /\ loads' = loads
         \/ page'.shown = None /\ page'.entry = None /\ loads' = Stale(loads),
         UNCHANGED <<eventVars, week>>, disturbances' \in 0 .. MaxDisturbances
  PROVE  IInv'
<1>1. EventsTypeOK' /\ StreamsOK' /\ ShutdownHeard'
  BY PageStep
<1>2. \A l \in LoadRecord : [l EXCEPT !.stale = TRUE] \in LoadRecord /\ [l EXCEPT !.stale = TRUE].stale
  BY DEF LoadRecord
<1>3. /\ loads' \subseteq LoadRecord /\ (loads' # {}) /\ \A k, m \in loads' : k = m
      /\ loads' = loads \/ \A l \in loads' : l.stale
  BY <1>2, Types DEF Stale
<1>4. TypeOK'
  <2>1. page'.loading = (loads' # {})
    BY <1>3 DEF Page
  <2> QED BY <1>1, <1>3, <2>1, Types DEF TypeOK
<1>5. SourceOK'
  BY DEF IInv, SourceOK, eventVars
<1>6. LoadsOK'
  <2>1. CASE loads' = loads /\ page'.shown = page.shown /\ page'.player = page.player
    BY <2>1 DEF IInv, LoadsOK, Count, eventVars
  <2>2. CASE loads' = Stale(loads)
    <3>1. \A l \in loads' : l.stale
      BY <1>2, <2>2, Types DEF Stale
    <3> QED BY <3>1 DEF LoadsOK
  <2> QED BY <2>1, <2>2
<1>8. PageOK' /\ BoardIsOfPage'
  BY DEF IInv, PageOK, BoardIsOfPage, eventVars
<1>7. NoLostSignal'
  BY DEF NoLostSignal, WillLearn
<1> QED BY <1>1, <1>4, <1>5, <1>6, <1>7, <1>8 DEF IInv

\* A step of the component that leaves nothing shown, or the board as it is, and no
\* load of use behind that was not there.
LEMMA PageChanges ==
  ASSUME IInv, EventsTypeOK', StreamsOK', ShutdownHeard', SourceOK', NoLostSignal',
         scores' = scores, week' \in Weeks, disturbances' \in 0 .. MaxDisturbances,
         page' \in Page, page'.loading = page.loading, ~page'.initialized => page'.checking # None,
         \/ /\ page'.shown = page.shown /\ page'.entry = page.entry /\ loads' = loads
            /\ page'.player = page.player /\ page'.week = page.week
         \/ page'.shown = None /\ page'.entry = None /\ loads' = Stale(loads)
         \/ /\ page'.shown = None /\ page'.entry = None /\ loads' = loads
            /\ page'.player = page.player /\ page'.week = page.week
  PROVE  IInv'
<1>1. \A l \in LoadRecord : [l EXCEPT !.stale = TRUE] \in LoadRecord /\ [l EXCEPT !.stale = TRUE].stale
  BY DEF LoadRecord
<1>2. loads' \subseteq LoadRecord /\ (loads' # {}) = (loads # {}) /\ \A k, m \in loads' : k = m
  <2>1. CASE loads' = loads
    BY <2>1, Types
  <2>2. CASE loads' = Stale(loads)
    <3>1. loads' \subseteq LoadRecord /\ \A k, m \in loads' : k = m
      BY <1>1, <2>2, Types DEF Stale
    <3>2. CASE loads = {}
      <4>1. loads' = {}
        BY <2>2, <3>2 DEF Stale
      <4> QED BY <3>1, <3>2, <4>1
    <3>3. CASE loads # {}
      <4>1. loads' # {}
        BY <2>2, <3>3 DEF Stale
      <4> QED BY <3>1, <3>3, <4>1
    <3> QED BY <3>2, <3>3
  <2> QED BY <2>1, <2>2
<1>3. TypeOK'
  BY <1>2, Types DEF TypeOK
<1>4. LoadsOK'
  <2>1. CASE loads' = Stale(loads)
    <3>1. \A l \in loads' : l.stale
      BY <1>1, <2>1, Types DEF Stale
    <3> QED BY <3>1 DEF LoadsOK
  <2>2. CASE /\ loads' = loads /\ page'.player = page.player /\ page'.week = page.week
             /\ page'.shown = page.shown \/ page'.shown = None
    <3>1. \A l \in loads : l.count >= 0
      BY Types DEF LoadRecord
    <3>2. \A l \in loads : ~l.stale /\ l.step # "page" => Count' <= l.count
      BY <2>2, <3>1 DEF IInv, LoadsOK, Count
    <3> QED BY <2>2, <3>2 DEF IInv, LoadsOK
  <2> QED BY <2>1, <2>2
<1>5. PageOK' /\ BoardIsOfPage'
  BY DEF IInv, PageOK, BoardIsOfPage
<1> QED BY <1>3, <1>4, <1>5 DEF IInv

------------------------------------------------------------------------------
(***************************************************************************)
(* Timers and events of the component.                                     *)
(***************************************************************************)
LEMMA FireTimerStep ==
  ASSUME IInv, FireTimer
  PROVE  IInv'
<1> DEFINE pg == [page EXCEPT !.timer = FALSE]
<1>1. Load(pg) /\ UNCHANGED <<eventVars, week>> /\ disturbances' \in 0 .. MaxDisturbances
  BY Types DEF FireTimer
<1>2. /\ pg \in Page /\ pg.loading = page.loading /\ pg.player = page.player /\ pg.week = page.week
      /\ pg.source = page.source /\ pg.initialized = page.initialized /\ pg.checking = page.checking
      /\ pg.shown = page.shown /\ pg.entry = page.entry
  BY Types DEF Page
<1> HIDE DEF pg
<1>3. ~page.initialized => page.checking # None
  BY DEF IInv, PageOK
<1>4. CASE pg.loading
  <2>1. page' = [pg EXCEPT !.pending = TRUE] /\ loads' = loads
    BY <1>1, <1>4 DEF Load
  <2>2. /\ page' \in Page /\ page'.loading /\ page'.pending /\ page'.week = page.week
        /\ page'.source = page.source /\ page'.initialized = page.initialized
        /\ page'.checking = page.checking /\ page'.shown = page.shown /\ page'.entry = page.entry
        /\ page'.player = page.player
    BY <1>2, <1>4, <2>1 DEF Page
  <2> QED BY <1>1, <1>2, <1>3, <1>4, <2>1, <2>2, LoadPending
<1>5. CASE ~pg.loading /\ pg.player = None
  <2>1. page' = [pg EXCEPT !.shown = None, !.entry = None, !.error = FALSE] /\ loads' = loads
    BY <1>1, <1>5 DEF Load
  <2>2. /\ page' \in Page /\ page'.loading = page.loading /\ page'.week = page.week
        /\ page'.source = page.source /\ page'.initialized = page.initialized
        /\ page'.checking = page.checking /\ page'.shown = None /\ page'.entry = None
        /\ page'.player = page.player
    BY <1>2, <2>1 DEF Page
  <2>3. EventsTypeOK' /\ StreamsOK' /\ ShutdownHeard'
    BY <1>1, PageStep
  <2>4. SourceOK' /\ NoLostSignal'
    BY <1>1, <1>2, <1>5, <2>2 DEF IInv, SourceOK, NoLostSignal, eventVars
  <2>5. scores' = scores /\ week' \in Weeks
    BY <1>1, Types DEF eventVars
  <2> QED BY <1>1, <1>3, <2>1, <2>2, <2>3, <2>4, <2>5, PageChanges
<1>6. CASE ~pg.loading /\ pg.player # None
  <2>1. page' = [pg EXCEPT !.loading = TRUE, !.error = FALSE] /\ loads' = loads \cup {NewLoad(pg)}
    BY <1>1, <1>6 DEF Load
  <2>2. /\ page' \in Page /\ page'.loading /\ page'.week = page.week
        /\ page'.source = page.source /\ page'.initialized = page.initialized
        /\ page'.checking = page.checking /\ page'.shown = page.shown /\ page'.entry = page.entry
        /\ page'.player = pg.player
    BY <1>2, <2>1 DEF Page
  <2>3. loads = {}
    BY <1>2, <1>6, Types
  <2>4. loads' = {NewLoad(pg)}
    BY <2>1, <2>3
  <2> QED BY <1>1, <1>2, <1>3, <1>6, <2>2, <2>4, LoadStarts
<1> QED BY <1>4, <1>5, <1>6

\* What playerListener and the end of init() make of the component.
LEMMA EmittedFacts ==
  ASSUME NEW pg \in Page, NEW p \in Players \cup {None}
  PROVE  LET e == PlayerEmitted(pg, p) IN
         /\ e \in Page /\ e.player = p /\ e.shown = None /\ e.entry = None /\ e.error = FALSE
         /\ e.timer = (pg.timer \/ pg.initialized) /\ e.loading = pg.loading
         /\ e.week = pg.week /\ e.source = pg.source /\ e.initialized = pg.initialized
         /\ e.checking = pg.checking
BY DEF PlayerEmitted, Page

LEMMA InitializedFacts ==
  ASSUME NEW pg \in Page
  PROVE  LET e == Initialized(pg) IN
         /\ e \in Page /\ e.initialized /\ e.player = pg.player /\ e.shown = pg.shown
         /\ e.entry = pg.entry /\ e.loading = pg.loading /\ e.week = pg.week /\ e.source = pg.source
BY DEF Initialized, Page

LEMMA ChangePlayerStep ==
  ASSUME IInv, NEW p \in Players \cup {None}, ChangePlayer(p)
  PROVE  IInv'
<1>1. /\ loads' = Stale(loads) /\ page' = PlayerEmitted(page, p) /\ UNCHANGED <<eventVars, week>>
      /\ disturbances' \in 0 .. MaxDisturbances
  BY DisturbFacts DEF ChangePlayer
<1>2. /\ page' \in Page /\ page'.shown = None /\ page'.entry = None
      /\ page'.timer = (page.timer \/ page.initialized) /\ page'.loading = page.loading
      /\ page'.week = page.week /\ page'.source = page.source
      /\ page'.initialized = page.initialized /\ page'.checking = page.checking
  BY <1>1, Types, EmittedFacts
<1>3. EventsTypeOK' /\ StreamsOK' /\ ShutdownHeard'
  BY <1>1, PageStep
<1>4. SourceOK' /\ NoLostSignal'
  BY <1>1, <1>2 DEF IInv, SourceOK, NoLostSignal, WillLearn, eventVars
<1>5. scores' = scores /\ week' \in Weeks /\ (~page'.initialized => page'.checking # None)
  BY <1>1, <1>2, Types DEF eventVars, IInv, PageOK
<1> QED BY <1>1, <1>2, <1>3, <1>4, <1>5, PageChanges

\* init() goes on for the player p: it loads, or finds a load under way.
LEMMA InitGoesOn ==
  ASSUME IInv, NEW p \in Players \cup {None}, UNCHANGED <<eventVars, week>>,
         disturbances' \in 0 .. MaxDisturbances,
         LET pg == Initialized(PlayerEmitted(page, p)) IN
         IF page.loading THEN page' = [pg EXCEPT !.pending = TRUE] /\ loads' = Stale(loads)
         ELSE IF p = None THEN page' = pg /\ loads' = loads
         ELSE page' = [pg EXCEPT !.loading = TRUE] /\ loads' = {NewLoad(pg)}
  PROVE  IInv'
<1> DEFINE e == PlayerEmitted(page, p)
           pg == Initialized(e)
<1>1. /\ e \in Page /\ e.player = p /\ e.shown = None /\ e.entry = None /\ e.loading = page.loading
      /\ e.week = page.week /\ e.source = page.source
  BY Types, EmittedFacts
<1> HIDE DEF e
<1>2. /\ pg \in Page /\ pg.initialized /\ pg.player = p /\ pg.shown = None /\ pg.entry = None
      /\ pg.loading = page.loading /\ pg.week = page.week /\ pg.source = page.source
  BY <1>1, InitializedFacts
<1>3. IF page.loading THEN page' = [pg EXCEPT !.pending = TRUE] /\ loads' = Stale(loads)
      ELSE IF p = None THEN page' = pg /\ loads' = loads
      ELSE page' = [pg EXCEPT !.loading = TRUE] /\ loads' = {NewLoad(pg)}
  BY DEF e
<1> HIDE DEF pg
<1>4. CASE page.loading
  <2>1. page' = [pg EXCEPT !.pending = TRUE] /\ loads' = Stale(loads)
    BY <1>3, <1>4
  <2>2. /\ page' \in Page /\ page'.loading /\ page'.pending /\ page'.week = page.week
        /\ page'.source = page.source /\ page'.initialized
        /\ page'.shown = None /\ page'.entry = None
    BY <1>2, <1>4, <2>1 DEF Page
  <2> QED BY <1>4, <2>1, <2>2, LoadPending
<1>5. CASE ~page.loading /\ p = None
  <2>1. page' = pg /\ loads' = loads
    BY <1>3, <1>5
  <2>2. loads = {} /\ loads' = Stale(loads)
    BY <1>5, <2>1, Types DEF Stale
  <2>3. EventsTypeOK' /\ StreamsOK' /\ ShutdownHeard'
    BY PageStep
  <2>4. SourceOK' /\ NoLostSignal'
    BY <1>2, <1>5, <2>1 DEF IInv, SourceOK, NoLostSignal, eventVars
  <2>5. scores' = scores /\ week' \in Weeks
    BY Types DEF eventVars
  <2> QED BY <1>2, <2>1, <2>2, <2>3, <2>4, <2>5, PageChanges
<1>6. CASE ~page.loading /\ p # None
  <2>1. page' = [pg EXCEPT !.loading = TRUE] /\ loads' = {NewLoad(pg)}
    BY <1>3, <1>6
  <2>2. /\ page' \in Page /\ page'.loading /\ page'.week = page.week
        /\ page'.source = page.source /\ page'.initialized
        /\ page'.shown = None /\ page'.entry = None /\ page'.player = pg.player
    BY <1>2, <2>1 DEF Page
  <2> QED BY <1>2, <1>6, <2>1, <2>2, LoadStarts
<1> QED BY <1>4, <1>5, <1>6

LEMMA PlayerCheckedStep ==
  ASSUME IInv, PlayerChecked
  PROVE  IInv'
<1>1. page.checking # None /\ page.checking \in Players \cup {None}
  BY Types DEF PlayerChecked, IInv, PageOK, Page
<1>2. UNCHANGED <<eventVars, week>> /\ disturbances' \in 0 .. MaxDisturbances
  BY Types DEF PlayerChecked
<1>3. LET pg == Initialized(PlayerEmitted(page, page.checking)) IN
      IF page.loading THEN page' = [pg EXCEPT !.pending = TRUE] /\ loads' = Stale(loads)
      ELSE IF page.checking = None THEN page' = pg /\ loads' = loads
      ELSE page' = [pg EXCEPT !.loading = TRUE] /\ loads' = {NewLoad(pg)}
  BY <1>1 DEF PlayerChecked
<1> QED BY <1>1, <1>2, <1>3, InitGoesOn

LEMMA PlayerGoneStep ==
  ASSUME IInv, PlayerGone
  PROVE  IInv'
<1>1. UNCHANGED <<eventVars, week>> /\ disturbances' \in 0 .. MaxDisturbances
  BY DisturbFacts DEF PlayerGone
<1>2. PICK p \in Players \cup {None} :
        LET pg == Initialized(PlayerEmitted(page, p)) IN
        IF page.loading THEN page' = [pg EXCEPT !.pending = TRUE] /\ loads' = Stale(loads)
        ELSE IF p = None THEN page' = pg /\ loads' = loads
        ELSE page' = [pg EXCEPT !.loading = TRUE] /\ loads' = {NewLoad(pg)}
  <2>1. page.player \in Players \cup {None}
    BY Types DEF Page
  <2> QED BY <2>1 DEF PlayerGone
<1> QED BY <1>1, <1>2, InitGoesOn

LEMMA CheckFailsStep ==
  ASSUME IInv, CheckFails
  PROVE  IInv'
<1>1. /\ page' = [Initialized(page) EXCEPT !.error = TRUE] /\ UNCHANGED <<eventVars, week, loads>>
      /\ disturbances' \in 0 .. MaxDisturbances
  BY DisturbFacts DEF CheckFails
<1>2. /\ page' \in Page /\ page'.initialized /\ page'.error /\ page'.shown = page.shown
      /\ page'.entry = page.entry /\ page'.loading = page.loading /\ page'.player = page.player
      /\ page'.week = page.week /\ page'.source = page.source
  BY <1>1, Types DEF Initialized, Page
<1>3. EventsTypeOK' /\ StreamsOK' /\ ShutdownHeard'
  BY <1>1, PageStep
<1>4. SourceOK' /\ NoLostSignal'
  BY <1>1, <1>2 DEF IInv, SourceOK, NoLostSignal, eventVars
<1>5. scores' = scores /\ week' \in Weeks
  BY <1>1, Types DEF eventVars
<1> QED BY <1>1, <1>2, <1>3, <1>4, <1>5, PageChanges

LEMMA TurnWeekStep ==
  ASSUME IInv, TurnWeek
  PROVE  IInv'
<1>1. week' \in Weeks /\ UNCHANGED <<eventVars, page, loads, disturbances>>
  BY DEF TurnWeek
<1>2. EventsTypeOK' /\ StreamsOK' /\ ShutdownHeard'
  BY <1>1, PageStep
<1>3. SourceOK' /\ NoLostSignal'
  BY <1>1 DEF IInv, SourceOK, NoLostSignal, WillLearn, Count, eventVars
<1>4. scores' = scores /\ disturbances' \in 0 .. MaxDisturbances /\ page' \in Page
      /\ (~page'.initialized => page'.checking # None)
  BY <1>1, Types DEF eventVars, IInv, PageOK
<1> QED BY <1>1, <1>2, <1>3, <1>4, PageChanges

\* The component leaves its stream.
LEMMA SourceGoes ==
  ASSUME IInv, SourceLeft(page.source), UNCHANGED <<scores, handlers, hub, week>>,
         disturbances' \in 0 .. MaxDisturbances,
         page' \in Page, page'.source = None, page'.loading = page.loading,
         ~page'.initialized => page'.checking # None,
         \/ /\ page'.shown = page.shown /\ page'.entry = page.entry /\ loads' = loads
            /\ page'.player = page.player /\ page'.week = page.week
         \/ page'.shown = None /\ page'.entry = None /\ loads' = Stale(loads)
  PROVE  IInv'
<1>1. EventsTypeOK' /\ StreamsOK' /\ ShutdownHeard'
  BY LeftStep
<1>2. SourceOK' /\ NoLostSignal'
  BY DEF SourceOK, NoLostSignal
<1>3. week' \in Weeks /\ scores' = scores
  BY Types
<1> QED BY <1>1, <1>2, <1>3, PageChanges

LEMMA SourceEndsStep ==
  ASSUME IInv, SourceEnds \/ LoseConnection
  PROVE  IInv'
<1>1. /\ SourceLeft(page.source) /\ page' = [page EXCEPT !.source = None] /\ loads' = loads
      /\ UNCHANGED <<scores, handlers, hub, week>> /\ disturbances' \in 0 .. MaxDisturbances
  BY Types, DisturbFacts DEF SourceEnds, LoseConnection
<1>2. /\ page' \in Page /\ page'.source = None /\ page'.loading = page.loading
      /\ page'.initialized = page.initialized /\ page'.checking = page.checking
      /\ page'.shown = page.shown /\ page'.entry = page.entry
      /\ page'.player = page.player /\ page'.week = page.week
  BY <1>1, Types DEF Page
<1>3. ~page.initialized => page.checking # None
  BY DEF IInv, PageOK
<1> QED BY <1>1, <1>2, <1>3, SourceGoes

LEMMA StartCurrentPeriodStep ==
  ASSUME IInv, StartCurrentPeriod
  PROVE  IInv'
<1>1. /\ SourceLeft(page.source) /\ loads' = Stale(loads)
      /\ page' = [page EXCEPT !.week = week, !.shown = None, !.entry = None, !.source = None,
                              !.connectedOnce = FALSE, !.timer = TRUE]
      /\ UNCHANGED <<scores, handlers, hub, week>> /\ disturbances' \in 0 .. MaxDisturbances
  BY Types DEF StartCurrentPeriod
<1>2. /\ page' \in Page /\ page'.source = None /\ page'.loading = page.loading
      /\ page'.initialized = page.initialized /\ page'.checking = page.checking
      /\ page'.shown = None /\ page'.entry = None
  BY <1>1, Types DEF Page
<1>3. ~page.initialized => page.checking # None
  BY DEF IInv, PageOK
<1> QED BY <1>1, <1>2, <1>3, SourceGoes

LEMMA OpenedFacts ==
  ASSUME NEW p \in Players \cup {None}, NEW w \in Weeks
  PROVE  LET o == Opened(p, w) IN
         /\ o \in Page /\ o.source = None /\ o.shown = None /\ o.entry = None /\ o.loading = FALSE
         /\ ~o.initialized => o.checking # None
BY DEF Opened, Page

LEMMA ReloadStep ==
  ASSUME IInv, Reload
  PROVE  IInv'
<1>1. /\ SourceLeft(page.source) /\ page' = Opened(page.player, week) /\ loads' = {}
      /\ UNCHANGED <<scores, handlers, hub, week>> /\ disturbances' \in 0 .. MaxDisturbances
  BY DisturbFacts DEF Reload
<1>2. /\ page' \in Page /\ page'.source = None /\ page'.shown = None /\ page'.entry = None
      /\ page'.loading = FALSE /\ (~page'.initialized => page'.checking # None)
  <2>1. page.player \in Players \cup {None} /\ week \in Weeks
    BY Types DEF Page
  <2> QED BY <1>1, <2>1, OpenedFacts
<1>3. EventsTypeOK' /\ StreamsOK' /\ ShutdownHeard'
  BY <1>1, LeftStep
<1>4. TypeOK'
  <2>1. week' \in Weeks /\ loads' \subseteq LoadRecord /\ page'.loading = (loads' # {})
    BY <1>1, <1>2, Types
  <2> QED BY <1>1, <1>2, <1>3, <2>1 DEF TypeOK
<1>5. SourceOK' /\ LoadsOK' /\ PageOK' /\ BoardIsOfPage' /\ NoLostSignal'
  BY <1>1, <1>2 DEF SourceOK, LoadsOK, PageOK, BoardIsOfPage, NoLostSignal
<1> QED BY <1>3, <1>4, <1>5 DEF IInv

LEMMA ConnectStep ==
  ASSUME IInv, NEW s \in Streams, Connect(s)
  PROVE  IInv'
<1> DEFINE r == Asked(page.week)
<1>1. /\ stream[s].phase = "free" /\ page' = [page EXCEPT !.source = s]
      /\ stream' = [stream EXCEPT ![s] = r]
      /\ UNCHANGED <<scores, handlers, hub, week, loads, disturbances>>
  BY DEF Connect
<1>2. /\ page' \in Page /\ page'.source = s /\ page'.loading = page.loading
      /\ page'.initialized = page.initialized /\ page'.checking = page.checking
      /\ page'.shown = page.shown /\ page'.entry = page.entry
      /\ page'.player = page.player /\ page'.week = page.week /\ page.week \in Weeks
  BY <1>1, Types DEF Page
<1>3. /\ r \in Stream /\ r.phase = "asked" /\ r.week = page.week /\ r.due = 0 /\ r.queue = <<>>
      /\ Len(r.queue) = 0 /\ Len(r.wire) = 0
  <2>1. NoStream \in Stream /\ NoStream.queue = <<>> /\ NoStream.wire = <<>> /\ NoStream.due = 0
    BY StreamFacts DEF NoStream
  <2> QED BY <1>2, <2>1 DEF Asked, Stream
<1> HIDE DEF r
<1>4. /\ hub' \in [subscriptions : SUBSET Streams, shutdown : BOOLEAN]
      /\ hub' = hub /\ (hub.shutdown => hub.subscriptions = {}) /\ s \notin hub.subscriptions
  BY <1>1, StreamIs DEF IInv, TypeOK, EventsTypeOK, StreamsOK
<1>5. Fit(s, r, hub')
  <2>1. scores[r.week] >= 0
    BY <1>2, <1>3, Types
  <2> QED BY <1>2, <1>3, <1>4, <2>1, QueueAssumption DEF Fit
<1>6. EventsTypeOK' /\ StreamsOK' /\ ShutdownHeard'
  BY <1>1, <1>4, <1>5, OneStreamStep
<1>7. stream'[s] = r
  BY <1>1, StreamIs
<1>8. SourceOK'
  BY <1>2, <1>3, <1>7 DEF SourceOK
<1>9. NoLostSignal'
  <2>1. Count' >= 0
    BY <1>2 DEF Count, Page
  <2>2. Count' \in Nat
    BY <1>2 DEF Count, Page
  <2> QED BY <1>2, <1>3, <1>7, <2>2 DEF NoLostSignal
<1>10. scores' = scores /\ week' \in Weeks /\ disturbances' \in 0 .. MaxDisturbances
       /\ (~page'.initialized => page'.checking # None)
  BY <1>1, <1>2, Types DEF IInv, PageOK
<1> QED BY <1>1, <1>2, <1>6, <1>8, <1>9, <1>10, PageChanges

LEMMA ReadWireStep ==
  ASSUME IInv, ReadWire
  PROVE  IInv'
<1> DEFINE s == page.source
           t == stream[s]
           r == [t EXCEPT !.wire = Tail(@)]
<1>1. /\ s \in Streams /\ s # None /\ t.wire # <<>> /\ stream' = [stream EXCEPT ![s] = r]
      /\ UNCHANGED <<scores, handlers, hub, week, loads, disturbances>>
  BY Types, StreamIs DEF ReadWire, Page
<1>2. \/ /\ Head(t.wire) = Connected
         /\ page' = [page EXCEPT !.timer = @ \/ page.connectedOnce, !.connectedOnce = TRUE]
      \/ Head(t.wire) # Connected /\ page' = [page EXCEPT !.timer = TRUE]
  BY DEF ReadWire
<1>3. /\ t \in Stream /\ t.wire \in Seq(Weeks \cup {Connected}) /\ Fit(s, t, hub)
      /\ stream \in [Streams -> Stream]
  BY <1>1, StreamIs DEF Stream
<1>4. /\ Tail(t.wire) \in Seq(Weeks \cup {Connected}) /\ Len(Tail(t.wire)) = Len(t.wire) - 1
      /\ \A i \in DOMAIN t.wire : i = 1 \/ (i - 1 \in DOMAIN Tail(t.wire) /\ t.wire[i] = Tail(t.wire)[i - 1])
      /\ Head(t.wire) = t.wire[1]
  BY <1>1, <1>3, TailFacts
<1>5. /\ r \in Stream /\ r.wire = Tail(t.wire) /\ r.phase = t.phase /\ r.week = t.week
      /\ r.queue = t.queue /\ r.due = t.due
  BY <1>3, <1>4 DEF Stream
<1>6. /\ page' \in Page /\ page'.source = s /\ page'.loading = page.loading
      /\ page'.initialized = page.initialized /\ page'.checking = page.checking
      /\ page'.shown = page.shown /\ page'.entry = page.entry /\ page'.pending = page.pending
      /\ page'.player = page.player /\ page'.week = page.week /\ page'.error = page.error
      /\ (page.timer => page'.timer)
      /\ page'.timer \/ (Head(t.wire) = Connected /\ ~page.connectedOnce /\ page'.connectedOnce)
  BY <1>2, Types DEF Page
<1>7. /\ hub' \in [subscriptions : SUBSET Streams, shutdown : BOOLEAN]
      /\ hub' = hub /\ (hub.shutdown => hub.subscriptions = {})
  BY <1>1, StreamIs DEF IInv, TypeOK, EventsTypeOK
<1>8. Fit(s, r, hub')
  <2>1. Len(r.wire) <= WireSize
    BY <1>3, <1>4, <1>5, QueueAssumption DEF Fit
  <2> HIDE DEF r
  <2> QED BY <1>3, <1>5, <1>7, <2>1 DEF Fit
<1> HIDE DEF r
<1>9. EventsTypeOK' /\ StreamsOK' /\ ShutdownHeard'
  BY <1>1, <1>7, <1>8, OneStreamStep
<1>10. stream'[s] = r
  BY <1>1, <1>3
<1>11. SourceOK'
  BY <1>1, <1>5, <1>6, <1>10 DEF IInv, SourceOK
<1>12. NoLostSignal'
  <2> SUFFICES ASSUME page.initialized, page.player # None,
                      Count < t.due, ~page.error, ~page'.timer
               PROVE  WillLearn(t.due)'
    BY <1>5, <1>6, <1>10 DEF NoLostSignal, WillLearn, Count
  <2>1. /\ Head(t.wire) = Connected /\ ~page.connectedOnce /\ ~page.timer
    BY <1>6
  <2>2. WillLearn(t.due)
    BY <1>1 DEF IInv, NoLostSignal
  <2>3. CASE \E i \in DOMAIN t.wire : t.wire[i] = Connected => page.connectedOnce
    <3>1. PICK i \in DOMAIN t.wire : t.wire[i] # Connected
      BY <2>1, <2>3
    <3>2. i # 1
      BY <1>4, <2>1, <3>1
    <3>3. i - 1 \in DOMAIN r.wire /\ r.wire[i - 1] # Connected
      BY <1>4, <1>5, <3>1, <3>2
    <3> QED BY <1>6, <1>10, <3>3 DEF WillLearn
  <2>4. CASE \/ t.queue # <<>> \/ t.phase = "ended" \/ page.pending
             \/ \E l \in loads : ~l.stale /\ (l.step = "page" \/ l.count >= t.due)
    BY <2>4, <1>1, <1>5, <1>6, <1>10 DEF WillLearn
  <2> QED BY <2>1, <2>2, <2>3, <2>4 DEF WillLearn
<1>13. scores' = scores /\ week' \in Weeks /\ disturbances' \in 0 .. MaxDisturbances
       /\ (~page'.initialized => page'.checking # None)
  BY <1>1, <1>6, Types DEF IInv, PageOK
<1> QED BY <1>1, <1>6, <1>9, <1>11, <1>12, <1>13, PageChanges

LEMMA RestartServerStep ==
  ASSUME IInv, RestartServer
  PROVE  IInv'
<1> DEFINE lost == {l \in loads : l.step # "done"}
<1>1. /\ disturbances' \in 0 .. MaxDisturbances /\ week' = week /\ scores' = scores
      /\ hub' = NewHub /\ handlers' = [w \in Weeks |-> 0] /\ stream' = [s \in Streams |-> NoStream]
  BY Types, DisturbFacts DEF RestartServer, Restart
<1>2. EventsTypeOK' /\ StreamsOK' /\ ShutdownHeard'
  <2>1. /\ NoStream \in Stream /\ NoStream.phase = "free" /\ NoStream.queue = <<>> /\ Len(NoStream.queue) = 0
        /\ Len(NoStream.wire) = 0
    BY StreamFacts DEF NoStream
  <2>2. \A s \in Streams : stream'[s] = NoStream
    BY <1>1
  <2>3. stream' \in [Streams -> Stream] /\ handlers' \in [Weeks -> Nat] /\ scores' \in [Weeks -> Nat]
    BY <1>1, <2>1, Types
  <2>4. hub'.subscriptions = {} /\ hub' \in [subscriptions : SUBSET Streams, shutdown : BOOLEAN]
    BY <1>1 DEF NewHub
  <2>5. EventsTypeOK'
    BY <2>1, <2>2, <2>3, <2>4, QueueAssumption DEF EventsTypeOK
  <2> QED BY <2>1, <2>2, <2>4, <2>5 DEF StreamsOK, ShutdownHeard
<1>3. ~page.initialized => page.checking # None
  BY DEF IInv, PageOK
<1>4. CASE lost = {}
  <2>1. loads' = loads /\ page' = [page EXCEPT !.source = None]
    BY <1>4 DEF RestartServer
  <2>2. /\ page' \in Page /\ page'.source = None /\ page'.loading = page.loading
        /\ page'.initialized = page.initialized /\ page'.checking = page.checking
        /\ page'.shown = page.shown /\ page'.entry = page.entry
        /\ page'.player = page.player /\ page'.week = page.week
    BY <2>1, Types DEF Page
  <2>3. SourceOK' /\ NoLostSignal' /\ week' \in Weeks
    BY <1>1, <2>2, Types DEF SourceOK, NoLostSignal
  <2> QED BY <1>1, <1>2, <1>3, <2>1, <2>2, <2>3, PageChanges
<1>5. CASE lost # {}
  <2>1. PICK l \in loads : loads = {l} /\ lost = {l} /\ (CHOOSE m \in lost : TRUE) = l
    BY <1>5, Types
  <2>2. loads' = {} /\ page' = [Failed(l) EXCEPT !.source = None]
    <3>1. /\ loads' = loads \ lost
          /\ page' = [IF lost = {} THEN page ELSE Failed(CHOOSE m \in lost : TRUE) EXCEPT !.source = None]
      BY DEF RestartServer
    <3> QED BY <1>5, <2>1, <3>1
  <2> DEFINE pg == IF l.stale THEN page ELSE [page EXCEPT !.error = TRUE]
  <2>3. /\ pg \in Page /\ pg.shown = page.shown /\ pg.entry = page.entry /\ pg.player = page.player
        /\ pg.week = page.week /\ pg.initialized = page.initialized /\ pg.checking = page.checking
    BY Types DEF Page
  <2>4. Failed(l) = LoadOver(pg)
    BY DEF Failed
  <2> HIDE DEF pg
  <2>5. /\ Failed(l) \in Page /\ Failed(l).loading = FALSE /\ Failed(l).shown = page.shown
        /\ Failed(l).entry = page.entry /\ Failed(l).player = page.player /\ Failed(l).week = page.week
        /\ Failed(l).initialized = page.initialized /\ Failed(l).checking = page.checking
    <3>1. LoadOver(pg) \in Page /\ LoadOver(pg).loading = FALSE
      BY <2>3, LoadOverFacts
    <3>2. LoadOver(pg).shown = pg.shown /\ LoadOver(pg).entry = pg.entry
      BY <2>3, LoadOverFacts
    <3>3. LoadOver(pg).player = pg.player /\ LoadOver(pg).week = pg.week
      BY <2>3, LoadOverFacts
    <3>4. LoadOver(pg).initialized = pg.initialized /\ LoadOver(pg).checking = pg.checking
      BY <2>3, LoadOverFacts
    <3> QED BY <2>3, <2>4, <3>1, <3>2, <3>3, <3>4
  <2>6. /\ page' \in Page /\ page'.source = None /\ page'.loading = FALSE
        /\ page'.initialized = page.initialized /\ page'.checking = page.checking
        /\ page'.shown = page.shown /\ page'.entry = page.entry
        /\ page'.player = page.player /\ page'.week = page.week
    BY <2>2, <2>5 DEF Page
  <2>7. TypeOK'
    <3>1. week' \in Weeks /\ loads' \subseteq LoadRecord /\ page'.loading = (loads' # {})
      BY <1>1, <2>2, <2>6, Types
    <3> QED BY <1>1, <1>2, <2>2, <2>6, <3>1 DEF TypeOK
  <2>8. SourceOK' /\ LoadsOK' /\ NoLostSignal'
    BY <2>2, <2>6 DEF SourceOK, LoadsOK, NoLostSignal
  <2>9. PageOK' /\ BoardIsOfPage'
    BY <1>1, <2>6 DEF IInv, PageOK, BoardIsOfPage
  <2> QED BY <1>2, <2>7, <2>8, <2>9 DEF IInv
<1> QED BY <1>4, <1>5

------------------------------------------------------------------------------
(***************************************************************************)
(* The invariant.                                                          *)
(***************************************************************************)
LEMMA InitIInv ==
  ASSUME Init
  PROVE  IInv
<1>1. /\ scores = [w \in Weeks |-> 0] /\ handlers = [w \in Weeks |-> 0] /\ hub = NewHub
      /\ stream = [s \in Streams |-> NoStream] /\ week \in Weeks /\ loads = {} /\ disturbances = 0
  BY DEF Init, EventsInit
<1>2. PICK p \in Players \cup {None} : page = Opened(p, week)
  BY DEF Init
<1>3. /\ page \in Page /\ page.source = None /\ page.shown = None /\ page.entry = None
      /\ page.loading = FALSE /\ (~page.initialized => page.checking # None)
  BY <1>1, <1>2, OpenedFacts
<1>4. /\ NoStream \in Stream /\ NoStream.phase = "free" /\ NoStream.queue = <<>> /\ Len(NoStream.queue) = 0
      /\ Len(NoStream.wire) = 0
  BY StreamFacts DEF NoStream
<1>5. stream \in [Streams -> Stream] /\ handlers \in [Weeks -> Nat] /\ scores \in [Weeks -> Nat]
  BY <1>1, <1>4
<1>6. hub.subscriptions = {} /\ hub \in [subscriptions : SUBSET Streams, shutdown : BOOLEAN]
  BY <1>1 DEF NewHub
<1>7. EventsTypeOK
  BY <1>1, <1>4, <1>5, <1>6, QueueAssumption DEF EventsTypeOK
<1>8. TypeOK
  <2>1. loads \subseteq LoadRecord /\ page.loading = (loads # {}) /\ disturbances \in 0 .. MaxDisturbances
    <3>1. loads \subseteq LoadRecord /\ disturbances \in 0 .. MaxDisturbances
      BY <1>1, DisturbanceAssumption
    <3>2. page.loading = (loads # {})
      BY <1>1, <1>3
    <3> QED BY <3>1, <3>2
  <2> QED BY <1>1, <1>3, <1>7, <2>1 DEF TypeOK
<1>9. StreamsOK /\ ShutdownHeard
  BY <1>1, <1>4, <1>6 DEF StreamsOK, ShutdownHeard
<1>10. SourceOK /\ LoadsOK /\ PageOK /\ BoardIsOfPage /\ NoLostSignal
  BY <1>1, <1>3 DEF SourceOK, LoadsOK, PageOK, BoardIsOfPage, NoLostSignal
<1> QED BY <1>8, <1>9, <1>10 DEF IInv

LEMMA NextIInv ==
  ASSUME IInv, [Next]_vars
  PROVE  IInv'
<1>1. ASSUME NEW w \in Weeks, Server(SubmitScore(w) /\ w <= week /\ ~hub.shutdown)
      PROVE  IInv'
  BY <1>1, SubmitScoreStep DEF Server
<1>2. ASSUME NEW w \in Weeks, Server(Publish(w))
      PROVE  IInv'
  BY <1>2, PublishStep
<1>3. ASSUME NEW s \in Streams,
             Server(Deliver(s)) \/ Server(CloseStream(s)) \/ ServeStream(s) \/ Connect(s)
      PROVE  IInv'
  BY <1>3, DeliverStep, CloseStreamStep, ServeStreamStep, ConnectStep
<1>4. CASE ShutDown \/ RestartServer
  BY <1>4, ShutDownStep, RestartServerStep
<1>5. CASE ReadWire \/ SourceEnds \/ LoseConnection
  BY <1>5, ReadWireStep, SourceEndsStep
<1>6. ASSUME NEW l \in loads, AnswerPage(l) \/ AnswerRank(l) \/ ApplyLoad(l) \/ FailLoad(l)
      PROVE  IInv'
  BY <1>6, AnswerPageStep, AnswerRankStep, ApplyLoadStep, FailLoadStep
<1>7. CASE Poll \/ FireTimer \/ PlayerChecked \/ PlayerGone \/ CheckFails
  BY <1>7, PollStep, FireTimerStep, PlayerCheckedStep, PlayerGoneStep, CheckFailsStep
<1>8. ASSUME NEW p \in Players \cup {None}, ChangePlayer(p)
      PROVE  IInv'
  BY <1>8, ChangePlayerStep
<1>9. CASE TurnWeek \/ StartCurrentPeriod \/ Reload
  BY <1>9, TurnWeekStep, StartCurrentPeriodStep, ReloadStep
<1>10. CASE UNCHANGED vars
  <2>1. UNCHANGED <<scores, handlers, hub, stream, week, page, loads, disturbances>>
    BY <1>10 DEF vars, eventVars, pageVars
  <2> QED BY <2>1 DEF IInv, TypeOK, EventsTypeOK, StreamsOK, ShutdownHeard, SourceOK, LoadsOK, PageOK,
                      BoardIsOfPage, NoLostSignal, WillLearn, Count
<1> QED BY <1>1, <1>2, <1>3, <1>4, <1>5, <1>6, <1>7, <1>8, <1>9, <1>10 DEF Next

\* IInv is an invariant, for every number of weeks, streams and players, whatever is
\* lost, closed, restarted or chosen.
THEOREM Invariance == Spec => []IInv
<1>1. Init => IInv
  BY InitIInv
<1>2. IInv /\ [Next]_vars => IInv'
  BY NextIInv
<1> QED BY <1>1, <1>2, PTL DEF Spec

\* Every variable has its type, queues and wires keep their bounds (_offer), and at
\* most one load is under way, exactly while the component says so (load).
THEOREM TypeCorrect == Spec => []TypeOK
<1>1. IInv => TypeOK
  BY DEF IInv
<1> QED BY <1>1, Invariance, PTL

\* A shutdown of the hub is heard by every stream, full queues and late
\* subscriptions included (subscribe, _offer, shutdown).
THEOREM ShutdownIsHeard == Spec => []ShutdownHeard
<1>1. IInv => ShutdownHeard
  BY DEF IInv
<1> QED BY <1>1, Invariance, PTL

\* The board and the personal entry shown are those of the page's week and player
\* (requestGeneration in load, playerListener and startCurrentPeriod).
THEOREM BoardBelongsToPage == Spec => []BoardIsOfPage
<1>1. IInv => BoardIsOfPage
  BY DEF IInv
<1> QED BY <1>1, Invariance, PTL

\* No signal of the stream is lost between _offer, the debounce of scheduleRefresh
\* and refreshPending of load.
THEOREM NoSignalIsLost == Spec => []NoLostSignal
<1>1. IInv => NoLostSignal
  BY DEF IInv
<1> QED BY <1>1, Invariance, PTL

\* What is shown stays, goes, or is what a load of the page's week has read.
LEMMA ShownStep ==
  ASSUME IInv, [Next]_vars, page.shown # None, page'.shown # None, page'.shown.week = page.shown.week
  PROVE  page'.shown.count >= page.shown.count
<1> SUFFICES page'.shown # page.shown => page'.shown.count >= page.shown.count
  BY Types DEF Page
<1>1. ASSUME NEW l \in loads, ApplyLoad(l) PROVE page'.shown = page.shown \/ page'.shown.count >= page.shown.count
  <2>1. CASE l.stale
    <3>1. page' = LoadOver(page)
      BY <1>1, <2>1 DEF ApplyLoad
    <3> QED BY <3>1, Types, LoadOverFacts
  <2>2. CASE ~l.stale
    <3> DEFINE pg == [page EXCEPT !.shown = [week |-> l.week, count |-> l.count],
                                  !.entry = [player |-> l.player, week |-> l.rankWeek]]
    <3>1. page' = LoadOver(pg) /\ l.step = "done"
      BY <1>1, <2>2 DEF ApplyLoad
    <3>2. l \in LoadRecord /\ Count <= l.count /\ l.rankWeek \in Weeks
      BY <2>2, <3>1, Types DEF IInv, LoadsOK, Page
    <3>3. pg \in Page /\ pg.shown = [week |-> l.week, count |-> l.count]
      BY <3>2, Types DEF Page, LoadRecord
    <3> HIDE DEF pg
    <3>4. page'.shown = [week |-> l.week, count |-> l.count]
      BY <3>1, <3>3, LoadOverFacts
    <3> QED BY <3>2, <3>4 DEF Count
  <2> QED BY <2>1, <2>2
<1> DEFINE Kept == page'.shown = page.shown \/ page'.shown = None
<1>2. ASSUME NEW w \in Weeks,
             Server(SubmitScore(w) /\ w <= week /\ ~hub.shutdown) \/ Server(Publish(w))
      PROVE  Kept
  BY <1>2 DEF Server, pageVars
<1>3. ASSUME NEW s \in Streams,
             Server(Deliver(s)) \/ Server(CloseStream(s)) \/ ServeStream(s) \/ Connect(s)
      PROVE  Kept
  BY <1>3, Types DEF Server, pageVars, ServeStream, Connect, Page
<1>4. ASSUME NEW l \in loads, page' = Failed(l) \/ page' = [Failed(l) EXCEPT !.source = None]
      PROVE  Kept
  <2> DEFINE pg == IF l.stale THEN page ELSE [page EXCEPT !.error = TRUE]
  <2>1. pg \in Page /\ pg.shown = page.shown /\ Failed(l) = LoadOver(pg)
    BY Types DEF Page, Failed
  <2> HIDE DEF pg
  <2>2. Failed(l) \in Page /\ Failed(l).shown = page.shown
    BY <2>1, LoadOverFacts
  <2> QED BY <1>4, <2>2 DEF Page
<1>5. ASSUME ShutDown \/ RestartServer PROVE Kept
  <2>1. CASE ShutDown
    BY <2>1 DEF ShutDown, pageVars
  <2>2. CASE RestartServer
    <3> DEFINE lost == {l \in loads : l.step # "done"}
    <3>1. page' = [IF lost = {} THEN page ELSE Failed(CHOOSE l \in lost : TRUE) EXCEPT !.source = None]
      BY <2>2 DEF RestartServer
    <3>2. CASE lost = {}
      BY <3>1, <3>2, Types DEF Page
    <3>3. CASE lost # {}
      <4>1. (CHOOSE l \in lost : TRUE) \in loads
        BY <3>3
      <4> QED BY <3>1, <3>3, <4>1, <1>4
    <3> QED BY <3>2, <3>3
  <2> QED BY <1>5, <2>1, <2>2
<1>6. ASSUME ReadWire \/ SourceEnds \/ LoseConnection PROVE Kept
  BY <1>6, Types DEF ReadWire, SourceEnds, LoseConnection, Page
<1>7. ASSUME NEW l \in loads, AnswerPage(l) \/ AnswerRank(l) \/ FailLoad(l)
      PROVE  Kept
  BY <1>4, <1>7 DEF AnswerPage, AnswerRank, FailLoad
<1>8. ASSUME Poll \/ FireTimer PROVE Kept
  BY <1>8, Types DEF Poll, FireTimer, Load, Page
<1>9. ASSUME NEW p \in Players \cup {None},
             LET pg == Initialized(PlayerEmitted(page, p)) IN
             page' \in {PlayerEmitted(page, p), pg, [pg EXCEPT !.pending = TRUE], [pg EXCEPT !.loading = TRUE]}
      PROVE  Kept
  <2>1. PlayerEmitted(page, p) \in Page /\ PlayerEmitted(page, p).shown = None
    BY Types, EmittedFacts
  <2>2. /\ Initialized(PlayerEmitted(page, p)) \in Page
        /\ Initialized(PlayerEmitted(page, p)).shown = None
    BY <2>1, InitializedFacts
  <2> QED BY <1>9, <2>1, <2>2 DEF Page
<1>10. ASSUME PlayerChecked PROVE Kept
  <2>1. page.checking \in Players \cup {None}
    BY Types DEF Page
  <2> QED BY <1>9, <1>10, <2>1 DEF PlayerChecked
<1>11. ASSUME PlayerGone PROVE Kept
  <2>1. page.player \in Players \cup {None}
    BY Types DEF Page
  <2> QED BY <1>9, <1>11, <2>1 DEF PlayerGone
<1>12. ASSUME CheckFails PROVE Kept
  BY <1>12, Types, InitializedFacts DEF CheckFails, Page
<1>13. ASSUME NEW p \in Players \cup {None}, ChangePlayer(p)
       PROVE  Kept
  BY <1>9, <1>13 DEF ChangePlayer
<1>14. ASSUME TurnWeek \/ StartCurrentPeriod \/ Reload PROVE Kept
  <2>1. CASE TurnWeek
    BY <2>1 DEF TurnWeek
  <2>2. CASE StartCurrentPeriod
    BY <2>2, Types DEF StartCurrentPeriod, Page
  <2>3. CASE Reload
    BY <2>3, Types, OpenedFacts DEF Reload, Page
  <2> QED BY <1>14, <2>1, <2>2, <2>3
<1>15. ASSUME UNCHANGED vars PROVE Kept
  BY <1>15 DEF vars, pageVars
<1> HIDE DEF Kept
<1>16. Kept \/ \E l \in loads : ApplyLoad(l)
  <2>1. CASE UNCHANGED vars
    BY <1>15, <2>1
  <2>2. CASE Next
    BY <1>2, <1>3, <1>5, <1>6, <1>7, <1>8, <1>10, <1>11, <1>12, <1>13, <1>14, <2>2 DEF Next
  <2> QED BY <2>1, <2>2
<1> QED BY <1>1, <1>16 DEF Kept

\* An answer never takes the board back: a load that is not stale has read no less
\* than is shown (load, requestGeneration).
THEOREM BoardNeverGoesBack == Spec => NeverBackwards
<1>1. IInv /\ [Next]_vars =>
        [page.shown # None /\ page'.shown # None /\ page'.shown.week = page.shown.week
         => page'.shown.count >= page.shown.count]_vars
  BY ShownStep
<1> QED BY <1>1, Invariance, PTL DEF Spec, NeverBackwards

==============================================================================
