-------------------------- MODULE LeaderboardBoard --------------------------
(***************************************************************************)
(* What the leaderboard endpoints promise, without Redis: the score of a   *)
(* week is final, and a page or a rank is that of the board at some moment *)
(* between the request and its answer.                                     *)
(***************************************************************************)
EXTENDS Integers, Sequences, FiniteSets

CONSTANTS
  Scores,    \* final scores of one game and week, numbered in ranking order
  PlayerOf,  \* PlayerOf[s]: the player of score s
  Readers,   \* requests that can be in flight at once
  Asks,      \* what they can ask for
  None

VARIABLES
  board,     \* the scores, in the order of their commits
  call,      \* the question of each reader and the length of the board it began at
  reply      \* the answer of each reader that has one

vars == <<board, call, reply>>

Prefix(n) == {board[i] : i \in 1 .. n}

Entry(S, s) == [score |-> s, rank |-> 1 + Cardinality({q \in S : q < s})]

\* What the board S answers to a question.
Answer(S, ask) ==
  IF ask.kind = "page"
  THEN LET first == ask.offset + 1
           last == ask.offset + ask.limit
       IN [items |-> {e \in {Entry(S, s) : s \in S} : first <= e.rank /\ e.rank <= last},
           more |-> Cardinality(S) > last]
  ELSE LET own == {s \in S : PlayerOf[s] = ask.player}
       IN [items |-> {Entry(S, s) : s \in {b \in own : \A q \in own : b <= q}}, more |-> FALSE]

Init ==
  /\ board = <<>>
  /\ call = [r \in Readers |-> None]
  /\ reply = [r \in Readers |-> None]

Record(s) ==
  /\ \A i \in DOMAIN board : board[i] # s
  /\ board' = Append(board, s)
  /\ UNCHANGED <<call, reply>>

Ask(r, ask) ==
  /\ call[r] = None
  /\ call' = [call EXCEPT ![r] = [ask |-> ask, from |-> Len(board)]]
  /\ reply' = [reply EXCEPT ![r] = None]
  /\ UNCHANGED board

Reply(r) ==
  /\ call[r] # None
  /\ \E n \in call[r].from .. Len(board) :
       reply' = [reply EXCEPT ![r] = Answer(Prefix(n), call[r].ask)]
  /\ call' = [call EXCEPT ![r] = None]
  /\ UNCHANGED board

\* A client that went away is not answered.
Abandon(r) ==
  /\ call[r] # None
  /\ call' = [call EXCEPT ![r] = None]
  /\ UNCHANGED <<board, reply>>

Next ==
  \/ \E s \in Scores : Record(s)
  \/ \E r \in Readers : Reply(r) \/ Abandon(r) \/ \E ask \in Asks : Ask(r, ask)

Spec == Init /\ [][Next]_vars

==============================================================================
