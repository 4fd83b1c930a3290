------------------------- MODULE LeaderboardEvents -------------------------
(***************************************************************************)
(* The fan-out of leaderboard changes: LeaderboardEventHub, the handlers   *)
(* of POST /scores that publish to it, and the event streams that the      *)
(* browsers hold open.                                                     *)
(*                                                                         *)
(* The hub lives on one event loop, and none of its critical sections      *)
(* awaits: each of its operations is one step.  One game is modelled, so   *)
(* that a change is the number of its week.  A stream is a request to      *)
(* GET /leaderboards/{game_key}/events: its subscription queue on the      *)
(* server, and the bytes on their way to the browser.                      *)
(***************************************************************************)
EXTENDS Integers, Sequences, Functions

CONSTANTS
  Weeks,      \* the UTC weeks, in order
  Streams,    \* event streams that can be open at once
  QueueSize,  \* queue_size of the hub
  WireSize,   \* bound: events a stream has yielded and the browser has not read
  MaxScores,  \* bound: final scores, all weeks together
  None        \* nil; in a queue, the shutdown sentinel

ASSUME WeekAssumption == Weeks \subseteq Nat \ {0} /\ None \notin Nat /\ None \notin Streams
ASSUME QueueAssumption == QueueSize \in Nat \ {0} /\ WireSize \in Nat \ {0} /\ MaxScores \in Nat

VARIABLES
  scores,    \* committed final scores of each week
  handlers,  \* handlers that have committed a score and not published it yet
  hub,       \* LeaderboardEventHub
  stream     \* every stream; due is a ghost: the scores its reader is owed

eventVars == <<scores, handlers, hub, stream>>

Connected == 0  \* the first line of a stream

NewHub == [subscriptions |-> {}, shutdown |-> FALSE]
NoStream == [phase |-> "free", week |-> None, queue |-> <<>>, wire |-> <<>>, due |-> 0]

Offer_Unbounded(q, e) == Append(q, e)
Offer_DropsNewest(q, e) == IF Len(q) = QueueSize THEN q ELSE Append(q, e)

\* _offer: the oldest event makes room for the newest.
Offer(q, e) == Append(IF Len(q) = QueueSize THEN Tail(q) ELSE q, e)

------------------------------------------------------------------------------
TotalScores == FoldFunction(+, 0, scores)

\* submit_final_score commits a new score; the handler goes on to publish.
SubmitScore(w) ==
  /\ TotalScores < MaxScores
  /\ scores' = [scores EXCEPT ![w] = @ + 1]
  /\ handlers' = [handlers EXCEPT ![w] = @ + 1]
  /\ UNCHANGED <<hub, stream>>

Publish(w) ==
  /\ handlers[w] > 0
  /\ handlers' = [handlers EXCEPT ![w] = @ - 1]
  /\ stream' = [s \in Streams |->
       IF s \in hub.subscriptions /\ stream[s].week = w
       THEN [stream[s] EXCEPT !.queue = Offer(@, w), !.due = scores[w]]
       ELSE stream[s]]
  /\ UNCHANGED <<scores, hub>>

\* The stream subscribes and yields its first line.  owed is what the reader is
\* to learn of by the connection alone.
Subscribe(s, owed) ==
  LET t == stream[s] IN
  /\ t.phase = "asked"
  /\ stream' = [stream EXCEPT ![s] =
       [t EXCEPT !.phase = "live", !.wire = <<Connected>>, !.due = owed,
                 !.queue = IF hub.shutdown THEN Offer(t.queue, None) ELSE t.queue]]
  /\ hub' = IF hub.shutdown THEN hub ELSE [hub EXCEPT !.subscriptions = @ \cup {s}]
  /\ UNCHANGED <<scores, handlers>>

Unsubscribed(s) == [hub EXCEPT !.subscriptions = @ \ {s}]

\* receive() returns: the stream yields the change, or ends on the sentinel.
Deliver(s) ==
  LET t == stream[s] IN
  /\ t.phase = "live" /\ t.queue # <<>>
  /\ \/ /\ Head(t.queue) # None /\ Len(t.wire) < WireSize
        /\ stream' = [stream EXCEPT ![s] = [t EXCEPT !.queue = Tail(@),
                                                     !.wire = Append(@, Head(t.queue))]]
        /\ UNCHANGED hub
     \/ /\ Head(t.queue) = None
        /\ stream' = [stream EXCEPT ![s] = [t EXCEPT !.phase = "ended", !.queue = <<>>]]
        /\ hub' = Unsubscribed(s)
  /\ UNCHANGED <<scores, handlers>>

\* The stream finds its browser gone, after an event or a heartbeat.
CloseStream(s) ==
  /\ stream[s].phase = "left"
  /\ stream' = [stream EXCEPT ![s] = NoStream]
  /\ hub' = Unsubscribed(s)
  /\ UNCHANGED <<scores, handlers>>

\* The lifespan of the application ends.
Shutdown ==
  /\ ~hub.shutdown
  /\ hub' = [subscriptions |-> {}, shutdown |-> TRUE]
  /\ stream' = [s \in Streams |-> IF s \in hub.subscriptions
                                  THEN [stream[s] EXCEPT !.queue = Offer(@, None)] ELSE stream[s]]
  /\ UNCHANGED <<scores, handlers>>

\* The process is gone, after a shutdown or a crash, and another one serves:
\* what was only in memory is lost.
Restart ==
  /\ hub' = NewHub
  /\ handlers' = [w \in Weeks |-> 0]
  /\ stream' = [s \in Streams |-> NoStream]
  /\ UNCHANGED scores

------------------------------------------------------------------------------
(***************************************************************************)
(* The browser's side of a connection.                                     *)
(***************************************************************************)
Asked(w) == [NoStream EXCEPT !.phase = "asked", !.week = w]

\* The browser is gone; a server that holds a subscription has yet to notice.
Left(t) == IF t.phase = "live" THEN [t EXCEPT !.phase = "left", !.wire = <<>>] ELSE NoStream

------------------------------------------------------------------------------
EventsInit ==
  /\ scores = [w \in Weeks |-> 0]
  /\ handlers = [w \in Weeks |-> 0]
  /\ hub = NewHub
  /\ stream = [s \in Streams |-> NoStream]

Events == Weeks \cup {None}
Stream == [phase : {"free", "asked", "live", "left", "ended"}, week : Weeks \cup {None},
           queue : Seq(Events), wire : Seq(Weeks \cup {Connected}), due : Nat]

\* Every variable has its type, and neither a queue nor a wire outgrows its bound.
EventsTypeOK ==
  /\ scores \in [Weeks -> Nat]
  /\ handlers \in [Weeks -> Nat]
  /\ hub \in [subscriptions : SUBSET Streams, shutdown : BOOLEAN]
  /\ stream \in [Streams -> Stream]
  /\ \A s \in Streams :
       /\ Len(stream[s].queue) <= QueueSize /\ Len(stream[s].wire) <= WireSize
       /\ stream[s].phase \in {"asked", "live", "left"} => stream[s].week \in Weeks

\* A shutdown is heard: the last that a subscriber still has to read is the
\* sentinel, whatever was published before and however full its queue was; and
\* whoever subscribes afterwards finds it too.  Nobody is told to go without one.
ShutdownHeard ==
  \A s \in Streams :
    LET t == stream[s] IN
    t.phase \in {"live", "left"} =>
      IF hub.shutdown
      THEN t.queue # <<>> /\ t.queue[Len(t.queue)] = None
      ELSE s \in hub.subscriptions /\ (\A i \in DOMAIN t.queue : t.queue[i] # None)

==============================================================================
