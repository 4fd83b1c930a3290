--------------------------- MODULE SessionContract --------------------------
(***************************************************************************)
(* What the session services promise, without transactions, locks, proofs  *)
(* or a clock: each request starts at most one play, which ends in exactly *)
(* one way; a play that is completed has one answer and one reward, which  *)
(* is claimed once; a player has one active play per game.                 *)
(***************************************************************************)
CONSTANTS Players, Games, Requests, Intents, None

VARIABLE life   \* life[r]: the play that request r started

Unborn == [state |-> "absent", player |-> None, game |-> None, answer |-> None,
           reward |-> "absent"]

ActiveOf(p, g) ==
  {q \in Requests : life[q].state = "active" /\ life[q].player = p /\ life[q].game = g}

Init == life = [r \in Requests |-> Unborn]

\* A play starts; the play it follows, if still active, has run out of time.
Start(r, p, g) ==
  /\ life[r] = Unborn
  /\ life' = [q \in Requests |->
       IF q = r THEN [Unborn EXCEPT !.state = "active", !.player = p, !.game = g]
       ELSE IF q \in ActiveOf(p, g) THEN [life[q] EXCEPT !.state = "expired"]
       ELSE life[q]]

\* A play is given up or runs out of time.
Stop(r) ==
  /\ life[r].state = "active"
  /\ \E st \in {"expired", "cancelled"} : life' = [life EXCEPT ![r].state = st]

\* A play is answered, and rewarded in the same instant.
Finish(r, i) ==
  /\ life[r].state = "active"
  /\ life' = [life EXCEPT ![r].state = "completed", ![r].answer = i, ![r].reward = "issued"]

Claim(r) ==
  /\ life[r].reward = "issued"
  /\ life' = [life EXCEPT ![r].reward = "claimed"]

Next ==
  \E r \in Requests :
    \/ \E p \in Players, g \in Games : Start(r, p, g)
    \/ Stop(r)
    \/ \E i \in Intents : Finish(r, i)
    \/ Claim(r)

Spec == Init /\ [][Next]_life

==============================================================================
