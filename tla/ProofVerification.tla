------------------------- MODULE ProofVerification -------------------------
(***************************************************************************)
(* The evidence of one provably fair spin, from its commitment to its      *)
(* verification: services/fairness.py and fairness_events.py with the      *)
(* protocol of rng.py.  Rows change under the verifier's feet by Corrupt,  *)
(* a partial restore or a repair by hand; the verdict must tell.           *)
(*                                                                         *)
(* A hash is the term of what it hashes, so two hashes are equal when what *)
(* they hash is; HMAC values are integers by the constant Value.           *)
(***************************************************************************)
EXTENDS GameRules

CONSTANTS
  Seeds,       \* server seeds
  ClientSeeds,
  SpinConfigs, \* configuration versions of the wheel
  Maps,        \* the reward maps they may have
  Value(_),    \* a digest as an integer
  Attempts,    \* bound: attempts of a draw
  MaxTime,     \* bound: the last moment
  MaxChanges   \* bound: corruptions

\* The bands of a valid map follow each other up to the total weight, so that a value
\* below it selects one of them (the assertion at the end of select_daily_spin_reward).
ASSUME MapAssumption ==
  \A bands \in Maps :
    /\ ValidBands(bands) /\ TotalWeight(bands) \in Nat \ {0}
    /\ \A v \in 0 .. TotalWeight(bands) - 1 : \E i \in DOMAIN bands : SelectReward(bands, v) = bands[i]
ASSUME EvidenceBounds == MaxTime \in Nat /\ MaxChanges \in Nat /\ Attempts \in Nat \ {0}

VARIABLES
  configs,   \* the reward map of each configuration version
  proof,     \* the proof, NoRow before the commitment
  custody,   \* the seed in custody
  events,    \* the proof's events, by sequence
  legacy,    \* the services are those of before migration 0012
  committed, \* history: the commitment as commit_fairness published it
  original,  \* history: the proof as the services last left it
  changes    \* corruptions so far

\* No row, so no column.
NoRow == <<>>

vars == <<configs, proof, custody, events, legacy, committed, original, changes>>

------------------------------------------------------------------------------
(***************************************************************************)
(* Protocol v1.  Version stands for protocol, algorithm, game and map      *)
(* version, which are supported or not.                                    *)
(***************************************************************************)
Commitment(seed) == <<"sha256", seed>>
MappingDigest(bands) == <<"map", bands>>

\* The digest of an attempt: the HMAC of daily_spin_derivation_message.
Digest(p, seed, bands, attempt) ==
  <<"hmac", seed, p.client, p.nonce, p.config, p.session, MappingDigest(bands), attempt>>

\* Every draw is over within the attempts of the model.
ASSUME DrawAssumption ==
  \A seed \in Seeds, client \in ClientSeeds, n \in {0, 1}, c \in SpinConfigs,
     session \in {"session", "another"}, bands \in Maps :
    LET p == [client |-> client, nonce |-> n, config |-> c, session |-> session]
    IN /\ \A k \in 0 .. Attempts - 1 : Value(Digest(p, seed, bands, k)) \in 0 .. Space - 1
       /\ \E k \in 0 .. Attempts - 1 : Value(Digest(p, seed, bands, k)) < Limit(TotalWeight(bands))

\* What derive_daily_spin adds to the proof p.
Derivation(p, seed, bands) ==
  LET raw == [k \in 0 .. Attempts - 1 |-> Value(Digest(p, seed, bands, k))]
      total == TotalWeight(bands)
      attempt == Attempt(raw, total)
      reward == SelectReward(bands, Uniform(raw, total))
  IN [raw |-> Digest(p, seed, bands, attempt), normalized |-> Uniform(raw, total),
      attempt |-> attempt, reward_key |-> reward.key, reward_value |-> reward.value]

\* The code of the first check that fails: checks is a sequence of <<holds, code>>.
FirstFailure(checks) ==
  LET failed == {i \in DOMAIN checks : ~checks[i][1]}
  IN IF failed = {} THEN "verified"
     ELSE checks[CHOOSE i \in failed : \A j \in failed : i <= j][2]

\* verify_daily_spin_proof
VerifyDerivation(p, bands) ==
  LET d == Derivation(p, p.seed, bands) IN
  FirstFailure(<<
    <<p.version = "v1", "unsupported_fairness_version">>,
    <<p.commitment = Commitment(p.seed), "commitment_mismatch">>,
    <<p.mapping = MappingDigest(bands), "mapping_digest_mismatch">>,
    <<p.raw = d.raw, "raw_digest_mismatch">>,
    <<p.normalized = d.normalized, "normalized_value_mismatch">>,
    <<p.attempt = d.attempt, "attempt_mismatch">>,
    <<p.reward_key = d.reward_key /\ p.reward_value = d.reward_value, "reward_mismatch">> >>)

------------------------------------------------------------------------------
(***************************************************************************)
(* The events.  An event's type is its status, but for the payload of a    *)
(* terminal event, which has the moment as well.                           *)
(***************************************************************************)
CommitFields == {"version", "commitment", "nonce", "config", "session", "mapping"}
DerivedFields == {"raw", "normalized", "attempt", "reward_key", "reward_value"}
RevealedFields ==
  CommitFields \cup DerivedFields
    \cup {"client", "seed", "fingerprint", "outcome", "evaluated", "revealed"}

Evidence(p, fields) == [f \in fields |-> p[f]]
CommitEvidence(p) == Evidence(p, CommitFields)
RevealedEvidence(p) == Evidence(p, RevealedFields)

\* fairness_event_hash_v1 leaves the payload out.
EventHash(e) ==
  IF e.format = 1 THEN <<"event/1", e.sequence, e.status, e.created, e.previous>>
  ELSE <<"event/2", e.sequence, e.status, e.created, e.previous, e.payload>>

Hashed(e) == [e EXCEPT !.hash = EventHash(e)]

\* The event that is appended; a legacy one has no payload.
NewEvent(n, status, payload, now) ==
  Hashed([sequence |-> n, status |-> status, created |-> now,
          format |-> IF legacy THEN 1 ELSE 2, payload |-> IF legacy THEN None ELSE payload,
          previous |-> IF events = <<>> THEN None ELSE events[Len(events)].hash, hash |-> None])

\* The checks of one event of a chain es.
EventChecks(es, i) ==
  <<  <<es[i].sequence = i - 1 /\ es[i].previous = (IF i = 1 THEN None ELSE es[i - 1].hash),
        "event_chain_link_mismatch">>,
      <<es[i].format \in {1, 2}, "unsupported_event_version">>,
      <<es[i].hash = EventHash(es[i]), "event_hash_mismatch">> >>

ProofChecks_NoPayload(p, es) ==
  << <<p.status = "revealed" => es[Len(es)].status = "revealed", "event_terminal_state_mismatch">> >>
ProofChecks_AnyFormat(p, es) ==
  << <<es[1].payload = CommitEvidence(p), "commit_payload_mismatch">>,
     <<p.status = "revealed" => es[Len(es)].payload = RevealedEvidence(p), "revealed_payload_mismatch">> >>
\* What the chain says of its proof.
ProofChecks(p, es) ==
  LET final == es[Len(es)] IN
  << <<es[1].format = 2 => es[1].payload = CommitEvidence(p), "commit_payload_mismatch">>,
     <<p.status = "revealed" => final.status = "revealed", "event_terminal_state_mismatch">>,
     <<p.status = "revealed" /\ final.format = 2 => final.payload = RevealedEvidence(p),
       "revealed_payload_mismatch">> >>

\* verify_fairness_event_chain: event by event, then the proof.
VerifyEventChain(p, es) ==
  LET verdict(i) == FirstFailure(EventChecks(es, i))
      broken == {i \in DOMAIN es : verdict(i) # "verified"}
  IN IF es = <<>> THEN "event_chain_missing"
     ELSE IF broken # {} THEN verdict(CHOOSE i \in broken : \A j \in broken : i <= j)
     ELSE FirstFailure(ProofChecks(p, es))

\* verify_fairness_proof, asked for an outcome.
Verify(outcome) ==
  IF proof = NoRow \/ proof.outcome # outcome THEN "not_found"
  ELSE IF proof.status # "revealed" THEN "invalid_transition"
  ELSE LET derived == VerifyDerivation(proof, configs[proof.config])
       IN IF derived # "verified" THEN derived ELSE VerifyEventChain(proof, events)

------------------------------------------------------------------------------
(***************************************************************************)
(* The life of the proof.                                                  *)
(***************************************************************************)
Times == 0 .. MaxTime
Fingerprint(client) == <<"evaluate_fairness", client>>

\* A new proof: a commitment to the seed, and no result.
Committed(seed, c, bands) ==
  [f \in RevealedFields \cup {"status"} |->
     CASE f = "status" -> "committed"
       [] f = "version" -> "v1"
       [] f = "commitment" -> Commitment(seed)
       [] f = "nonce" -> 0
       [] f = "config" -> c
       [] f = "session" -> "session"
       [] f = "mapping" -> MappingDigest(bands)
       [] OTHER -> None]

\* NULL is no value of a column.
ASSUME NullAssumption ==
  /\ None \notin {"v1", "session", "outcome"} \cup Nat \cup Seeds \cup ClientSeeds \cup SpinConfigs
  /\ \A client \in ClientSeeds : None # Fingerprint(client)
  /\ \A seed \in Seeds, c \in SpinConfigs, bands \in Maps :
       /\ None \notin {Commitment(seed), MappingDigest(bands)} \cup {bands[i].key : i \in DOMAIN bands}
       /\ None \notin {<<"event/1", 0, "committed", 0, None>>,
                       <<"event/2", 0, "committed", 0, None, CommitEvidence(Committed(seed, c, bands))>>}
       /\ \A client \in ClientSeeds, k \in 0 .. Attempts - 1 :
            None # Digest([client |-> client, nonce |-> 0, config |-> c, session |-> "session"],
                          seed, bands, k)

\* commit_fairness
Commit(seed, c) ==
  /\ proof = NoRow
  /\ proof' = Committed(seed, c, configs[c])
  /\ custody' = seed
  /\ events' = <<NewEvent(0, "committed", CommitEvidence(proof'), 0)>>
  /\ committed' = CommitEvidence(proof')
  /\ original' = proof'
  /\ UNCHANGED <<configs, legacy, changes>>

SessionActive_Unchecked == original # NoRow
\* The session, whose status no corruption changes, is active.
SessionActive == original # NoRow /\ original.status = "committed"

\* evaluate_fairness of a committed proof.
Evaluate(client, now) ==
  LET given == [proof EXCEPT !.client = client]
      d == Derivation(given, custody, configs[proof.config])
      revealed == [given EXCEPT
        !.status = "revealed", !.seed = custody, !.outcome = "outcome",
        !.raw = d.raw, !.normalized = d.normalized, !.attempt = d.attempt,
        !.reward_key = d.reward_key, !.reward_value = d.reward_value,
        !.fingerprint = IF legacy THEN None ELSE Fingerprint(client),
        !.evaluated = now, !.revealed = now]
  IN
  /\ SessionActive /\ proof.status = "committed" /\ proof.version = "v1"
  /\ custody # None /\ events # <<>>
  /\ proof' = revealed
  /\ events' = Append(events, NewEvent(1, "revealed", RevealedEvidence(revealed), now))
  /\ original' = revealed
  /\ UNCHANGED <<configs, custody, legacy, committed, changes>>

\* end_committed_fairness_proof
End(status, now) ==
  /\ SessionActive /\ proof.status = "committed" /\ events # <<>>
  /\ proof' = [proof EXCEPT !.status = status]
  /\ custody' = None
  /\ events' = Append(events, NewEvent(events[Len(events)].sequence + 1, status,
                                       [evidence |-> CommitEvidence(proof), at |-> now], now))
  /\ original' = [original EXCEPT !.status = status]
  /\ UNCHANGED <<configs, legacy, committed, changes>>

Marked_AllSeeds(p) ==
  IF p # NoRow /\ p.status # "committed" THEN [p EXCEPT !.fingerprint = Fingerprint(p.client)] ELSE p
\* A revealed proof gets the fingerprint of its request.
Marked(p) ==
  IF p # NoRow /\ p.status = "revealed" THEN [p EXCEPT !.fingerprint = Fingerprint(p.client)] ELSE p

\* Migration 0012; the events so far are of format 1.
Migrate ==
  /\ legacy
  /\ legacy' = FALSE
  /\ proof' = Marked(proof) /\ original' = Marked(original)
  /\ UNCHANGED <<configs, custody, events, committed, changes>>
------------------------------------------------------------------------------
(***************************************************************************)
(* Corruption: one column of one row takes another value of its kind.      *)
(***************************************************************************)
Column(f) ==
  CASE f = "status" -> {"committed", "revealed", "expired", "cancelled"}
    [] f = "version" -> {"v1", "v2"}
    [] f = "commitment" -> {Commitment(s) : s \in Seeds}
    [] f = "nonce" -> {0, 1}
    [] f = "config" -> SpinConfigs
    [] f = "session" -> {"session", "another"}
    [] f = "mapping" -> {MappingDigest(m) : m \in Maps}
    [] f = "client" -> ClientSeeds
    [] f = "seed" -> Seeds
    [] f = "raw" -> {Digest([proof EXCEPT !.client = k], proof.seed, configs[proof.config], n) :
                       k \in ClientSeeds, n \in 0 .. Attempts - 1}
    [] f = "normalized" -> 0 .. MaxWeight - 1
    [] f = "attempt" -> 0 .. Attempts - 1
    [] f = "reward_key" -> UNION {{m[i].key : i \in DOMAIN m} : m \in Maps}
    [] f = "reward_value" -> 0 .. MaxValue
    [] f = "fingerprint" -> {Fingerprint(k) : k \in ClientSeeds}
    [] f = "outcome" -> {"outcome", "another"}
    [] f \in {"evaluated", "revealed"} -> Times

Corruption ==
  changes < MaxChanges /\ changes' = changes + 1 /\ UNCHANGED <<legacy, committed, original>>

CorruptProof(f) ==
  /\ proof # NoRow /\ proof[f] # None
  /\ \E v \in Column(f) \ {proof[f]} : proof' = [proof EXCEPT ![f] = v]
  /\ Corruption /\ UNCHANGED <<configs, custody, events>>

\* Other events with the place of e: one column changed, or the hash made to fit.
OtherEvents(e) ==
  {Hashed(e)}
    \cup {[e EXCEPT !.sequence = n] : n \in 0 .. 2}
    \cup {[e EXCEPT !.status = v] : v \in Column("status")}
    \cup {[e EXCEPT !.created = n] : n \in Times}
    \cup {[e EXCEPT !.previous = events[i].hash] : i \in DOMAIN events}
    \cup {[e EXCEPT !.format = n] : n \in 1 .. 3}
    \cup {[e EXCEPT !.payload = CommitEvidence(proof)], [e EXCEPT !.payload = RevealedEvidence(proof)]}

CorruptEvent(i) ==
  /\ \E e \in OtherEvents(events[i]) \ {events[i]} : events' = [events EXCEPT ![i] = e]
  /\ Corruption /\ UNCHANGED <<configs, proof, custody>>

LoseEvent(i) ==
  /\ events' = RemoveAt(events, i)
  /\ Corruption /\ UNCHANGED <<configs, proof, custody>>

CorruptMap(c) ==
  /\ \E m \in Maps \ {configs[c]} : configs' = [configs EXCEPT ![c] = m]
  /\ Corruption /\ UNCHANGED <<proof, custody, events>>

CorruptCustody ==
  /\ custody # None
  /\ \E s \in Seeds \ {custody} : custody' = s
  /\ Corruption /\ UNCHANGED <<configs, proof, events>>

Init ==
  /\ configs \in [SpinConfigs -> Maps]
  /\ proof = NoRow /\ custody = None /\ events = <<>>
  /\ committed = NoRow /\ original = NoRow
  /\ legacy \in BOOLEAN
  /\ changes = 0

Next ==
  \/ \E seed \in Seeds, c \in SpinConfigs : Commit(seed, c)
  \/ \E now \in Times :
       \/ \E client \in ClientSeeds : Evaluate(client, now)
       \/ \E status \in {"expired", "cancelled"} : End(status, now)
  \/ Migrate
  \/ \E f \in RevealedFields \cup {"status"} : CorruptProof(f)
  \/ \E i \in DOMAIN events : CorruptEvent(i) \/ LoseEvent(i)
  \/ \E c \in SpinConfigs : CorruptMap(c)
  \/ CorruptCustody

Spec == Init /\ [][Next]_vars

------------------------------------------------------------------------------
(***************************************************************************)
(* What the schema admits: the constraints of migrations 0007 and 0012 on  *)
(* proofs and events, and the triggers of 0007, 0008 and 0012.             *)
(***************************************************************************)
OutcomeFields == DerivedFields \cup {"client", "seed", "outcome", "evaluated", "revealed"}
Held(p, fields) == \A f \in fields : p[f] # None
Empty(p, fields) == \A f \in fields : p[f] = None

\* A row of fairness_proofs, whatever its status.
ProofRow(p) ==
  /\ Held(p, CommitFields)
  /\ \A f \in {"nonce", "normalized", "attempt", "reward_value"} : p[f] # None => p[f] >= 0

\* ck_fairness_proof_lifecycle_evidence of 0007: a proof that ended without a result may
\* have a client seed.
EvidenceOf0007(p) ==
  CASE p.status = "committed" -> Empty(p, OutcomeFields)
    [] p.status = "revealed" -> Held(p, OutcomeFields)
    [] OTHER -> Empty(p, OutcomeFields \ {"client"})

\* The same of 0012, with the fingerprint of the request.
EvidenceOf0012(p) ==
  IF p.status = "revealed" THEN Held(p, OutcomeFields \cup {"fingerprint"})
  ELSE Empty(p, OutcomeFields \cup {"fingerprint"})

\* protect_finalized_fairness_proof: an update that turns p into q, by 0008 and by 0012.
TransitionOf0008(p, q) ==
  \/ p.status = "committed" /\ q.status \in {"evaluated", "revealed", "expired", "cancelled", "failed"}
  \/ p.status = "evaluated" /\ q.status \in {"revealed", "failed"}
TransitionOf0012(p, q) == p.status = "committed" /\ q.status \in {"revealed", "expired", "cancelled"}

\* The rows of fairness_proof_events that belong to a proof.
EventRows(es) ==
  /\ \A i, j \in DOMAIN es : es[i].sequence = es[j].sequence => i = j
  /\ \A i \in DOMAIN es : es[i].sequence >= 0 /\ ((es[i].sequence = 0) = (es[i].previous = None))

\* protect_fairness_proof_event
AppendOnly == IsPrefix(events, events')

------------------------------------------------------------------------------
(***************************************************************************)
(* Properties.                                                             *)
(***************************************************************************)
\* Every variable has its type; a revealed proof has all its evidence (a value below
\* MaxWeight, a reward of some map), and there is one terminal event at most.
TypeOK ==
  /\ configs \in [SpinConfigs -> Maps]
  /\ custody \in Seeds \cup {None}
  /\ legacy \in BOOLEAN /\ changes \in 0 .. MaxChanges
  /\ (proof = NoRow) = (original = NoRow)
  /\ proof # NoRow =>
       /\ DOMAIN proof = RevealedFields \cup {"status"}
       /\ \A f \in CommitFields \cup {"status"} : proof[f] \in Column(f)
       /\ proof.status = "revealed" /\ changes = 0 =>
            \A f \in RevealedFields \ {"fingerprint"} : proof[f] \in Column(f)
  /\ Len(events) <= 2

\* What a verdict of "verified" establishes of the result, whatever was changed before.
\* The payload of the last event, if it has one, covers all of it.  Without a payload
\* (a reveal before migration 0012) one change shows in the derivation wherever it is
\* made, and two can move the digest together with one of its inputs, or a commitment
\* or mapping digest that was made not to fit before the reveal, but not the prize.
Established ==
  IF events[Len(events)].format = 2 THEN RevealedFields
  ELSE IF changes <= 1 THEN CommitFields \cup DerivedFields \cup {"client", "seed"}
  ELSE {"version", "seed", "normalized", "attempt", "reward_key", "reward_value"}

\* What it establishes of the promise that was made before the client chose a seed.
\* Without a payload in the first event no nonce, configuration or session is, and
\* with two changes no commitment either: the row and the custody can be exchanged
\* together before the reveal.
Promised ==
  IF events[1].format = 2 THEN CommitFields
  ELSE IF changes <= 1 THEN {"version", "commitment", "mapping"}
  ELSE {"version"}

\* A proof that verifies has the result that evaluate_fairness computed and paid
\* (Established) for the promise that commit_fairness published (Promised), although up
\* to two columns of the proof, its events, its map and its seed in custody have become
\* others, before or after the reveal, and services of before migration 0012 may have
\* written it.  Nothing is said of columns that verify_fairness_proof does not read or
\* only hashes: custody after the reveal, and created_at of the last event, which
\* anyone can hash anew.
VerifiedIsGenuine ==
  Verify("outcome") = "verified" =>
    /\ \A f \in Established : proof[f] = original[f]
    /\ \A f \in Promised : proof[f] = committed[f]

\* A revealed proof verifies as long as nothing has changed, also when migration 0012
\* came after its commitment or after its reveal.
GenuineVerifies ==
  proof # NoRow /\ proof.status = "revealed" /\ changes = 0 => Verify("outcome") = "verified"

\* No step of the services or of migration 0012 runs into the lifecycle constraint of a
\* proof, its transition trigger, the order of its events or their append-only trigger,
\* which is why the actions have none of them in their guards: every row they leave has
\* the evidence its status asks for, a proof is updated once, from its commitment to its
\* end, and events are appended only.  (Uniqueness over proofs, foreign keys and the
\* patterns of hexadecimal columns are no part of it.)  The migration fills the fingerprints with the
\* trigger switched off, and adds the new constraint to the rows it finds.
SchemaAdmits ==
  [][changes' = 0 =>
       /\ proof' # NoRow =>
            /\ ProofRow(proof')
            /\ IF legacy' THEN EvidenceOf0007(proof') ELSE EvidenceOf0012(proof')
       /\ proof # NoRow => proof' # NoRow
       /\ proof # NoRow /\ proof' # proof /\ legacy' = legacy =>
            IF legacy THEN TransitionOf0008(proof, proof') ELSE TransitionOf0012(proof, proof')
       /\ AppendOnly /\ EventRows(events')]_vars

==============================================================================
