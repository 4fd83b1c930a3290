---------------------- MODULE ProofVerification_proofs ----------------------
(***************************************************************************)
(* Theorems about the evidence of a spin, for any seeds, reward maps,      *)
(* digests, times and number of corruptions.                               *)
(*                                                                         *)
(* As long as nothing is corrupted the rows are genuine: custody,          *)
(* commitment, result and events belong together column by column          *)
(* (Genuine).  After a corruption each row is compared with the one the    *)
(* services wrote, and the differences are counted (TwoInv).               *)
(***************************************************************************)
EXTENDS ProofVerification, GameRules_proofs, SequenceTheorems

Ended == {"expired", "cancelled"}

\* The first event of the proof: its commitment.
GenuineStart(e) ==
  /\ e.sequence = 0 /\ e.status = "committed" /\ e.previous = None
  /\ e.format \in {1, 2} /\ e.hash = EventHash(e) /\ e.hash # None
  /\ legacy => e.format = 1
  /\ e.format = 2 => e.payload = CommitEvidence(proof)

\* The second one: its end.
GenuineEnd(first, e) ==
  /\ e.sequence = 1 /\ e.status = proof.status /\ e.previous = first.hash
  /\ e.format \in {1, 2} /\ e.hash = EventHash(e)
  /\ legacy => e.format = 1
  /\ proof.status = "revealed" /\ e.format = 2 => e.payload = RevealedEvidence(proof)

\* The commitment in the row of the proof.
GenuineCommitment ==
  /\ proof.version = "v1" /\ proof.nonce = 0 /\ proof.session = "session"
  /\ proof.config \in SpinConfigs /\ proof.mapping = MappingDigest(configs[proof.config])
  /\ \E seed \in Seeds : proof.commitment = Commitment(seed)

\* The result in the row of the proof.
GenuineResult ==
  /\ proof.seed \in Seeds /\ proof.client \in ClientSeeds
  /\ proof.commitment = Commitment(proof.seed)
  /\ proof.outcome = "outcome" /\ proof.evaluated \in Times /\ proof.revealed \in Times
  /\ \A f \in DerivedFields :
       proof[f] = Derivation(proof, proof.seed, configs[proof.config])[f]
  /\ ~legacy => proof.fingerprint = Fingerprint(proof.client)

Genuine ==
  IF proof = NoRow THEN events = <<>>
  ELSE /\ original.status = proof.status
       /\ GenuineCommitment
       /\ events # <<>> /\ GenuineStart(events[1])
       /\ proof.status = "committed" =>
            /\ Len(events) = 1
            /\ custody \in Seeds /\ proof.commitment = Commitment(custody)
       /\ proof.status # "committed" => Len(events) = 2 /\ GenuineEnd(events[1], events[2])
       /\ proof.status = "revealed" => GenuineResult
       /\ proof.status # "revealed" => Empty(proof, OutcomeFields \cup {"fingerprint"})

Fields == RevealedFields \cup {"status"}

\* One event at most before the session ends, and two in all.
OneEnd == Len(events) <= 2 /\ (original # NoRow /\ original.status = "committed" => Len(events) <= 1)

Types ==
  /\ configs \in [SpinConfigs -> Maps]
  /\ custody \in Seeds \cup {None}
  /\ legacy \in BOOLEAN /\ changes \in 0 .. MaxChanges
  /\ (proof = NoRow) = (original = NoRow)
  /\ \E S : events \in Seq(S)
  /\ proof # NoRow =>
       /\ DOMAIN proof = Fields /\ DOMAIN original = Fields
       /\ \A f \in CommitFields \cup {"status"} : proof[f] \in Column(f)

IInv == Types /\ OneEnd /\ (changes = 0 => Genuine)

------------------------------------------------------------------------------
(***************************************************************************)
(* Sequences of events.                                                    *)
(***************************************************************************)
LEMMA Appended ==
  ASSUME NEW S, NEW es \in Seq(S), NEW e
  PROVE  /\ Append(es, e) \in Seq(S \cup {e})
         /\ Len(Append(es, e)) = Len(es) + 1 /\ Append(es, e)[Len(es) + 1] = e
         /\ \A i \in 1 .. Len(es) : Append(es, e)[i] = es[i]
         /\ IsPrefix(es, Append(es, e))
<1>1. es \in Seq(S \cup {e}) /\ e \in S \cup {e}
  OBVIOUS
<1>2. /\ Append(es, e) \in Seq(S \cup {e})
      /\ Len(Append(es, e)) = Len(es) + 1 /\ Append(es, e)[Len(es) + 1] = e
      /\ \A i \in 1 .. Len(es) : Append(es, e)[i] = es[i]
  BY <1>1
<1>3. SubSeq(es, 1, Len(es)) = SubSeq(Append(es, e), 1, Len(es))
  BY <1>1, <1>2
<1>. QED  BY <1>2, <1>3 DEF IsPrefix

LEMMA Unchanged ==
  ASSUME NEW S, NEW es \in Seq(S)
  PROVE  IsPrefix(es, es)
BY DEF IsPrefix

LEMMA Replaced ==
  ASSUME NEW S, NEW es \in Seq(S), NEW i \in DOMAIN es, NEW e
  PROVE  [es EXCEPT ![i] = e] \in Seq(S \cup {e}) /\ Len([es EXCEPT ![i] = e]) = Len(es)
<1>1. es \in Seq(S \cup {e}) /\ e \in S \cup {e}
  OBVIOUS
<1>. QED  BY <1>1

LEMMA Removed ==
  ASSUME NEW S, NEW es \in Seq(S), NEW i \in DOMAIN es
  PROVE  RemoveAt(es, i) \in Seq(S) /\ Len(RemoveAt(es, i)) = Len(es) - 1
<1>. DEFINE a == SubSeq(es, 1, i - 1)
            b == SubSeq(es, i + 1, Len(es))
<1>1. a \in Seq(S) /\ Len(a) = i - 1 /\ b \in Seq(S) /\ Len(b) = Len(es) - i
  OBVIOUS
<1>2. RemoveAt(es, i) = a \o b /\ i \in Int /\ Len(es) \in Int
  BY DEF RemoveAt
<1>. HIDE DEF a, b
<1>3. a \o b \in Seq(S) /\ Len(a \o b) = Len(a) + Len(b)
  BY <1>1, ConcatProperties
<1>. QED  BY <1>1, <1>2, <1>3

LEMMA OneSequence ==
  ASSUME NEW e
  PROVE  <<e>> \in Seq({e}) /\ Len(<<e>>) = 1 /\ <<e>>[1] = e
OBVIOUS

------------------------------------------------------------------------------
(***************************************************************************)
(* The derivation.                                                         *)
(***************************************************************************)
\* It depends on the client seed, the nonce, the configuration and the session alone.
LEMMA SameDerivation ==
  ASSUME NEW p, NEW q, NEW seed, NEW bands,
         p.client = q.client, p.nonce = q.nonce, p.config = q.config, p.session = q.session
  PROVE  /\ \A k : Digest(p, seed, bands, k) = Digest(q, seed, bands, k)
         /\ Derivation(p, seed, bands) = Derivation(q, seed, bands)
<1>1. \A k : Digest(p, seed, bands, k) = Digest(q, seed, bands, k)
  BY DEF Digest
<1>2. [k \in 0 .. Attempts - 1 |-> Value(Digest(p, seed, bands, k))]
        = [k \in 0 .. Attempts - 1 |-> Value(Digest(q, seed, bands, k))]
  BY <1>1
<1>. QED  BY <1>1, <1>2, Zenon DEF Derivation

\* Its draw is over within the attempts.
LEMMA Drawn ==
  ASSUME NEW seed \in Seeds, NEW client \in ClientSeeds, NEW c \in SpinConfigs, NEW bands \in Maps
  PROVE  LET p == [client |-> client, nonce |-> 0, config |-> c, session |-> "session"]
         IN /\ \A k \in 0 .. Attempts - 1 : Value(Digest(p, seed, bands, k)) \in 0 .. Space - 1
            /\ \E k \in 0 .. Attempts - 1 :
                 Value(Digest(p, seed, bands, k)) < Limit(TotalWeight(bands))
<1>. DEFINE P(n, s) == [client |-> client, nonce |-> n, config |-> c, session |-> s]
            Over(p) ==
              /\ \A k \in 0 .. Attempts - 1 : Value(Digest(p, seed, bands, k)) \in 0 .. Space - 1
              /\ \E k \in 0 .. Attempts - 1 :
                   Value(Digest(p, seed, bands, k)) < Limit(TotalWeight(bands))
<1>1. \A n \in {0, 1}, s \in {"session", "another"} : Over(P(n, s))
  BY DrawAssumption, ZenonT(40)
<1>2. Over(P(0, "session"))
  <2>. HIDE DEF Over
  <2>. QED  BY <1>1
<1>. QED  BY <1>2

\* What it yields.
LEMMA Derived ==
  ASSUME NEW p, NEW seed \in Seeds, NEW bands \in Maps,
         p.client \in ClientSeeds, p.config \in SpinConfigs, p.nonce = 0, p.session = "session"
  PROVE  LET d == Derivation(p, seed, bands)
         IN /\ d.attempt \in 0 .. Attempts - 1
            /\ d.normalized \in 0 .. TotalWeight(bands) - 1
            /\ d.raw = Digest(p, seed, bands, d.attempt) /\ d.raw # None
            /\ \E i \in DOMAIN bands : d.reward_key = bands[i].key /\ d.reward_value = bands[i].value
<1>. DEFINE q == [client |-> p.client, nonce |-> 0, config |-> p.config, session |-> "session"]
            raw == [k \in 0 .. Attempts - 1 |-> Value(Digest(q, seed, bands, k))]
            total == TotalWeight(bands)
            d == Derivation(q, seed, bands)
<1>1. /\ \A k : Digest(p, seed, bands, k) = Digest(q, seed, bands, k)
      /\ Derivation(p, seed, bands) = d
  <2>1. p.client = q.client /\ p.nonce = q.nonce /\ p.config = q.config /\ p.session = q.session
    OBVIOUS
  <2>. HIDE DEF q
  <2>. QED  BY <2>1, SameDerivation
<1>2. /\ \A k \in 0 .. Attempts - 1 : Value(Digest(q, seed, bands, k)) \in 0 .. Space - 1
      /\ \E k \in 0 .. Attempts - 1 : Value(Digest(q, seed, bands, k)) < Limit(total)
  BY Drawn
<1>. HIDE DEF q
<1>3. raw \in [0 .. Attempts - 1 -> 0 .. Space - 1] /\ \E k \in 0 .. Attempts - 1 : raw[k] < Limit(total)
  BY <1>2
<1>4. total \in Nat \ {0} /\ Attempts - 1 \in Nat
  BY MapAssumption, EvidenceBounds
<1>5. Attempt(raw, total) \in 0 .. Attempts - 1 /\ Uniform(raw, total) \in 0 .. total - 1
  <2>. HIDE DEF raw, total
  <2>. QED  BY <1>3, <1>4, DrawIsAResult
<1>6. /\ d.attempt = Attempt(raw, total) /\ d.normalized = Uniform(raw, total)
      /\ d.raw = Digest(q, seed, bands, Attempt(raw, total))
      /\ d.reward_key = SelectReward(bands, Uniform(raw, total)).key
      /\ d.reward_value = SelectReward(bands, Uniform(raw, total)).value
  BY DEF Derivation
<1>. HIDE DEF raw, total, d
<1>7. PICK i \in DOMAIN bands : SelectReward(bands, Uniform(raw, total)) = bands[i]
  BY <1>5, MapAssumption DEF total
<1>8. d.raw # None
  <2>1. \A k \in 0 .. Attempts - 1 : None # Digest(q, seed, bands, k)
    BY NullAssumption, Zenon DEF q
  <2>. QED  BY <1>5, <1>6, <2>1
<1>. QED  BY <1>1, <1>5, <1>6, <1>7, <1>8 DEF total

------------------------------------------------------------------------------
(***************************************************************************)
(* The invariant.                                                          *)
(***************************************************************************)
LEMMA NewEventFacts ==
  ASSUME NEW n, NEW status, NEW payload, NEW now
  PROVE  LET e == NewEvent(n, status, payload, now)
         IN /\ e.sequence = n /\ e.status = status /\ e.created = now
            /\ e.format = (IF legacy THEN 1 ELSE 2)
            /\ e.payload = (IF legacy THEN None ELSE payload)
            /\ e.previous = (IF events = <<>> THEN None ELSE events[Len(events)].hash)
            /\ e.hash = EventHash(e)
BY DEF NewEvent, Hashed, EventHash

\* The columns of a commitment do not depend on the state.
LEMMA SameColumns == \A f \in CommitFields \cup {"status"} : Column(f)' = Column(f)
BY DEF Column, CommitFields

LEMMA CommittedFacts ==
  ASSUME NEW seed \in Seeds, NEW c \in SpinConfigs, NEW bands \in Maps,
         NEW p, p = Committed(seed, c, bands)
  PROVE  /\ DOMAIN p = Fields /\ p # NoRow
         /\ p.status = "committed" /\ p.version = "v1" /\ p.commitment = Commitment(seed)
         /\ p.nonce = 0 /\ p.config = c /\ p.session = "session"
         /\ p.mapping = MappingDigest(bands)
         /\ \A f \in CommitFields \cup {"status"} : p[f] \in Column(f)
         /\ Empty(p, OutcomeFields \cup {"fingerprint"})
<1>1. DOMAIN p = Fields
  BY DEF Committed, Fields
<1>2. /\ p.status = "committed" /\ p.version = "v1" /\ p.commitment = Commitment(seed)
      /\ p.nonce = 0 /\ p.config = c /\ p.session = "session" /\ p.mapping = MappingDigest(bands)
  BY DEF Committed, RevealedFields, CommitFields
<1>3. Empty(p, OutcomeFields \cup {"fingerprint"})
  BY DEF Committed, Empty, OutcomeFields, DerivedFields, RevealedFields, CommitFields
<1>4. \A f \in CommitFields \cup {"status"} : p[f] \in Column(f)
  <2>. QED  BY <1>2 DEF Column, CommitFields
<1>5. p # NoRow
  BY <1>1 DEF NoRow, Fields
<1>. QED  BY <1>1, <1>2, <1>3, <1>4, <1>5

LEMMA InitInv == Init => IInv
<1>. SUFFICES ASSUME Init PROVE IInv
  OBVIOUS
<1>1. events \in Seq({}) /\ Len(events) = 0
  BY DEF Init
<1>2. Types
  BY <1>1, EvidenceBounds DEF Init, Types
<1>. QED  BY <1>1, <1>2 DEF Init, IInv, OneEnd, Genuine

LEMMA CommitInv ==
  ASSUME IInv, NEW seed \in Seeds, NEW c \in SpinConfigs, Commit(seed, c)
  PROVE  IInv'
<1>. DEFINE e == NewEvent(0, "committed", CommitEvidence(proof'), 0)
<1>1. /\ proof = NoRow /\ proof' = Committed(seed, c, configs[c]) /\ original' = proof'
      /\ custody' = seed /\ events' = <<e>> /\ configs' = configs /\ legacy' = legacy
      /\ changes' = changes
  BY DEF Commit
<1>2. configs[c] \in Maps
  BY DEF IInv, Types
<1>3. /\ DOMAIN proof' = Fields /\ proof' # NoRow
      /\ proof'.status = "committed" /\ proof'.version = "v1" /\ proof'.commitment = Commitment(seed)
      /\ proof'.nonce = 0 /\ proof'.config = c /\ proof'.session = "session"
      /\ proof'.mapping = MappingDigest(configs[c])
      /\ \A f \in CommitFields \cup {"status"} : proof'[f] \in Column(f)
      /\ Empty(proof', OutcomeFields \cup {"fingerprint"})
  <2>1. PICK bands \in Maps : bands = configs[c]
    BY <1>2
  <2>2. PICK p : p = Committed(seed, c, bands)
    OBVIOUS
  <2>3. /\ DOMAIN p = Fields /\ p # NoRow
        /\ p.status = "committed" /\ p.version = "v1" /\ p.commitment = Commitment(seed)
        /\ p.nonce = 0 /\ p.config = c /\ p.session = "session" /\ p.mapping = MappingDigest(bands)
        /\ \A f \in CommitFields \cup {"status"} : p[f] \in Column(f)
        /\ Empty(p, OutcomeFields \cup {"fingerprint"})
    BY <2>2, CommittedFacts
  <2>4. proof' = p
    BY <1>1, <2>1, <2>2
  <2>. QED  BY <2>1, <2>3, <2>4
<1>4. events' \in Seq({e}) /\ Len(events') = 1 /\ events'[1] = e
  BY <1>1, OneSequence
<1>5. Types'
  BY <1>1, <1>3, <1>4, SameColumns DEF IInv, Types
<1>6. OneEnd'
  BY <1>4 DEF OneEnd
<1>7. ASSUME changes' = 0 PROVE Genuine'
  <2>1. events = <<>>
    BY <1>1, <1>7 DEF IInv, Genuine
  <2>2. /\ e.sequence = 0 /\ e.status = "committed" /\ e.created = 0
        /\ e.format = (IF legacy THEN 1 ELSE 2)
        /\ e.payload = (IF legacy THEN None ELSE CommitEvidence(proof'))
        /\ e.previous = None /\ e.hash = EventHash(e)
    BY <2>1, NewEventFacts
  <2>3. e.hash # None
    <3>1. None \notin {<<"event/1", 0, "committed", 0, None>>,
                       <<"event/2", 0, "committed", 0, None,
                         CommitEvidence(Committed(seed, c, configs[c]))>>}
      BY <1>2, NullAssumption
    <3>. HIDE DEF e
    <3>2. EventHash(e) \in {<<"event/1", 0, "committed", 0, None>>,
                            <<"event/2", 0, "committed", 0, None,
                              CommitEvidence(Committed(seed, c, configs[c]))>>}
      BY <1>1, <2>2 DEF EventHash
    <3>. QED  BY <2>2, <3>1, <3>2
  <2>. HIDE DEF e
  <2>4. legacy \in BOOLEAN
    BY DEF IInv, Types
  <2>5. GenuineStart(events[1])'
    BY <1>1, <1>4, <2>2, <2>3, <2>4 DEF GenuineStart
  <2>6. GenuineCommitment'
    BY <1>1, <1>3 DEF GenuineCommitment
  <2>. QED  BY <1>1, <1>3, <1>4, <2>5, <2>6 DEF Genuine
<1>. QED  BY <1>5, <1>6, <1>7 DEF IInv

\* What a corruption leaves is not described any more.
LEMMA CorruptionInv ==
  ASSUME IInv, Corruption, configs' \in [SpinConfigs -> Maps], custody' \in Seeds \cup {None},
         proof' # NoRow <=> proof # NoRow,
         proof # NoRow =>
           DOMAIN proof' = Fields /\ \A f \in CommitFields \cup {"status"} : proof'[f] \in Column(f),
         \E S : events' \in Seq(S), Len(events') <= Len(events)
  PROVE  IInv'
<1>1. changes' \in 0 .. MaxChanges /\ changes' # 0 /\ original' = original /\ legacy' = legacy
  BY EvidenceBounds DEF Corruption, IInv, Types
<1>2. Len(events) \in Nat /\ Len(events') \in Nat
  BY DEF IInv, Types
<1>3. Types'
  BY <1>1, SameColumns DEF IInv, Types
<1>4. OneEnd'
  BY <1>1, <1>2 DEF IInv, OneEnd
<1>. QED  BY <1>1, <1>3, <1>4 DEF IInv

LEMMA CorruptProofInv ==
  ASSUME IInv, NEW f \in Fields, CorruptProof(f)
  PROVE  IInv'
<1>1. PICK v \in Column(f) : proof' = [proof EXCEPT ![f] = v]
  BY DEF CorruptProof
<1>2. /\ proof # NoRow /\ Corruption /\ configs' = configs /\ custody' = custody /\ events' = events
      /\ DOMAIN proof = Fields /\ \A g \in CommitFields \cup {"status"} : proof[g] \in Column(g)
  BY DEF CorruptProof, IInv, Types
<1>3. DOMAIN proof' = Fields
  BY <1>1, <1>2
<1>4. proof' # NoRow
  BY <1>3 DEF NoRow, Fields
<1>5. ASSUME NEW g \in CommitFields \cup {"status"} PROVE proof'[g] \in Column(g)
  <2>1. g \in Fields
    BY DEF Fields, RevealedFields
  <2>. QED  BY <1>1, <1>2, <2>1
<1>6. Len(events) \in Nat /\ \E S : events' \in Seq(S)
  BY <1>2 DEF IInv, Types
<1>. QED  BY <1>2, <1>3, <1>4, <1>5, <1>6, CorruptionInv DEF IInv, Types

LEMMA CorruptEventInv ==
  ASSUME IInv, NEW i \in DOMAIN events, CorruptEvent(i) \/ LoseEvent(i)
  PROVE  IInv'
<1>1. PICK S : events \in Seq(S)
  BY DEF IInv, Types
<1>2. Corruption /\ configs' = configs /\ proof' = proof /\ custody' = custody
  BY DEF CorruptEvent, LoseEvent
<1>3. (\E T : events' \in Seq(T)) /\ Len(events') <= Len(events)
  <2>1. Len(events) \in Nat
    BY <1>1
  <2>2. CASE CorruptEvent(i)
    <3>1. PICK e : events' = [events EXCEPT ![i] = e]
      BY <2>2 DEF CorruptEvent
    <3>2. [events EXCEPT ![i] = e] \in Seq(S \cup {e}) /\ Len([events EXCEPT ![i] = e]) = Len(events)
      BY <1>1, Replaced
    <3>3. events' \in Seq(S \cup {e}) /\ Len(events') = Len(events)
      BY <3>1, <3>2, Zenon
    <3>. QED  BY <2>1, <3>3
  <2>3. CASE LoseEvent(i)
    <3>1. events' = RemoveAt(events, i)
      BY <2>3 DEF LoseEvent
    <3>. QED  BY <1>1, <2>1, <3>1, Removed
  <2>. QED  BY <2>2, <2>3
<1>. QED  BY <1>2, <1>3, CorruptionInv DEF IInv, Types

LEMMA CorruptRestInv ==
  ASSUME IInv, CorruptCustody \/ \E c \in SpinConfigs : CorruptMap(c)
  PROVE  IInv'
<1>1. /\ Corruption /\ proof' = proof /\ events' = events
      /\ configs' \in [SpinConfigs -> Maps] /\ custody' \in Seeds \cup {None}
  BY DEF CorruptCustody, CorruptMap, IInv, Types
<1>2. Len(events) \in Nat /\ \E S : events' \in Seq(S)
  BY <1>1 DEF IInv, Types
<1>. QED  BY <1>1, <1>2, CorruptionInv DEF IInv, Types

LEMMA RowHasColumns == \A p : DOMAIN p = Fields => p # NoRow
<1>1. DOMAIN NoRow = {} /\ "status" \in Fields
  BY DEF NoRow, Fields
<1>. QED  BY <1>1

\* What a terminal step appends.
LEMMA EndAppended ==
  ASSUME IInv, NEW n, NEW status, NEW payload, NEW now, events # <<>>,
         SessionActive, events' = Append(events, NewEvent(n, status, payload, now))
  PROVE  LET e == NewEvent(n, status, payload, now)
         IN /\ \E S : events' \in Seq(S)
            /\ Len(events) = 1 /\ Len(events') = 2
            /\ events'[1] = events[1] /\ events'[2] = e /\ IsPrefix(events, events')
            /\ e.previous = events[1].hash
<1>. DEFINE e == NewEvent(n, status, payload, now)
<1>1. PICK S : events \in Seq(S)
  BY DEF IInv, Types
<1>2. Len(events) = 1
  <2>1. Len(events) <= 1
    BY DEF IInv, OneEnd, SessionActive
  <2>2. Len(events) \in Nat /\ Len(events) # 0
    BY <1>1, EmptySeq
  <2>3. \A k \in Nat : k <= 1 /\ k # 0 => k = 1
    OBVIOUS
  <2>. QED  BY ONLY <2>1, <2>2, <2>3, Zenon
<1>3. e.previous = events[1].hash
  BY <1>2, NewEventFacts
<1>. HIDE DEF e
<1>4. events' = Append(events, e)
  BY DEF e
<1>5. /\ Append(events, e) \in Seq(S \cup {e})
      /\ Len(Append(events, e)) = Len(events) + 1 /\ Append(events, e)[Len(events) + 1] = e
      /\ \A i \in 1 .. Len(events) : Append(events, e)[i] = events[i]
      /\ IsPrefix(events, Append(events, e))
  BY <1>1, Appended
<1>6. /\ events' \in Seq(S \cup {e}) /\ Len(events') = 2 /\ events'[1] = events[1]
      /\ events'[2] = e /\ IsPrefix(events, events')
  BY <1>2, <1>4, <1>5
<1>. QED  BY <1>2, <1>3, <1>6 DEF e

\* What evaluate_fairness writes into the proof.
LEMMA EvaluateFacts ==
  ASSUME IInv, NEW client \in ClientSeeds, NEW now \in Times, Evaluate(client, now)
  PROVE  /\ DOMAIN proof' = Fields /\ proof' # NoRow
         /\ \A f \in CommitFields : proof'[f] = proof[f]
         /\ proof'.status = "revealed" /\ proof'.client = client /\ proof'.seed = custody
         /\ proof'.outcome = "outcome" /\ proof'.evaluated = now /\ proof'.revealed = now
         /\ proof'.fingerprint = (IF legacy THEN None ELSE Fingerprint(client))
         /\ \A f \in DerivedFields : proof'[f] = Derivation(proof', custody, configs[proof.config])[f]
         /\ DOMAIN original' = Fields /\ original'.status = "revealed" /\ original' # NoRow
         /\ original' = proof' /\ custody \in Seeds /\ proof # NoRow
<1>. DEFINE given == [proof EXCEPT !.client = client]
            d == Derivation(given, custody, configs[proof.config])
            revealed == [given EXCEPT
              !.status = "revealed", !.seed = custody, !.outcome = "outcome",
              !.raw = d.raw, !.normalized = d.normalized, !.attempt = d.attempt,
              !.reward_key = d.reward_key, !.reward_value = d.reward_value,
              !.fingerprint = IF legacy THEN None ELSE Fingerprint(client),
              !.evaluated = now, !.revealed = now]
<1>1. proof # NoRow /\ custody \in Seeds /\ DOMAIN proof = Fields
  BY DEF Evaluate, SessionActive, IInv, Types
<1>2. DOMAIN given = Fields /\ given.client = client /\ \A f \in Fields \ {"client"} : given[f] = proof[f]
  BY <1>1 DEF Fields, RevealedFields
<1>3. proof' = revealed /\ original' = revealed
  BY DEF Evaluate
<1>. HIDE DEF given, d
<1>4. /\ DOMAIN revealed = Fields
      /\ revealed.status = "revealed" /\ revealed.client = client /\ revealed.seed = custody
      /\ revealed.outcome = "outcome" /\ revealed.evaluated = now /\ revealed.revealed = now
      /\ revealed.fingerprint = (IF legacy THEN None ELSE Fingerprint(client))
      /\ revealed.raw = d.raw /\ revealed.normalized = d.normalized /\ revealed.attempt = d.attempt
      /\ revealed.reward_key = d.reward_key /\ revealed.reward_value = d.reward_value
  BY <1>2 DEF Fields, RevealedFields, DerivedFields
<1>5. \A f \in CommitFields : revealed[f] = proof[f]
  BY <1>2 DEF Fields, RevealedFields, CommitFields
<1>6. DOMAIN original' = Fields /\ original'.status = "revealed" /\ original' = proof'
  BY <1>3, <1>4
<1>. HIDE DEF revealed
<1>7. proof' # NoRow /\ original' # NoRow
  <2>1. DOMAIN proof' = Fields /\ DOMAIN original' = Fields
    BY <1>3, <1>4, <1>6
  <2>2. \A p : DOMAIN p = Fields => p # NoRow
    BY RowHasColumns
  <2>. QED  BY <2>1, <2>2
<1>8. Derivation(proof', custody, configs[proof.config]) = d
  <2>1. /\ proof'.client = given.client /\ proof'.nonce = given.nonce
        /\ proof'.config = given.config /\ proof'.session = given.session
    BY <1>2, <1>3, <1>4, <1>5 DEF CommitFields, Fields, RevealedFields
  <2>2. PICK p : p = proof'
    OBVIOUS
  <2>3. Derivation(p, custody, configs[proof.config]) = d
    BY <2>1, <2>2, SameDerivation DEF d
  <2>. QED  BY <2>2, <2>3
<1>9. \A f \in DerivedFields : proof'[f] = d[f]
  BY <1>3, <1>4 DEF DerivedFields
<1>. QED  BY <1>1, <1>3, <1>4, <1>5, <1>6, <1>7, <1>8, <1>9

LEMMA EvaluateInv ==
  ASSUME IInv, NEW client \in ClientSeeds, NEW now \in Times, Evaluate(client, now)
  PROVE  IInv'
<1>. DEFINE payload == RevealedEvidence(proof')
            e == NewEvent(1, "revealed", payload, now)
<1>1. /\ SessionActive /\ events # <<>> /\ proof.status = "committed"
      /\ configs' = configs /\ custody' = custody /\ legacy' = legacy /\ changes' = changes
  BY DEF Evaluate
<1>2. events' = Append(events, e)
  BY DEF Evaluate
<1>3. /\ DOMAIN proof' = Fields /\ proof' # NoRow
      /\ \A f \in CommitFields : proof'[f] = proof[f]
      /\ proof'.status = "revealed" /\ proof'.client = client /\ proof'.seed = custody
      /\ proof'.outcome = "outcome" /\ proof'.evaluated = now /\ proof'.revealed = now
      /\ proof'.fingerprint = (IF legacy THEN None ELSE Fingerprint(client))
      /\ \A f \in DerivedFields : proof'[f] = Derivation(proof', custody, configs[proof.config])[f]
      /\ DOMAIN original' = Fields /\ original'.status = "revealed" /\ original' # NoRow
      /\ custody \in Seeds /\ proof # NoRow
  BY EvaluateFacts
<1>4. /\ \E S : events' \in Seq(S)
      /\ Len(events) = 1 /\ Len(events') = 2
      /\ events'[1] = events[1] /\ events'[2] = e
      /\ e.previous = events[1].hash
  <2>. HIDE DEF payload
  <2>. QED  BY <1>1, <1>2, EndAppended
<1>5. Types'
  <2>1. \A f \in CommitFields \cup {"status"} : proof[f] \in Column(f) /\ Column(f)' = Column(f)
    BY <1>3, SameColumns DEF IInv, Types
  <2>2. \A f \in CommitFields \cup {"status"} : proof'[f] \in Column(f)'
    <3>1. "revealed" \in Column("status")'
      BY DEF Column
    <3>. QED  BY <1>3, <2>1, <3>1
  <2>. QED  BY <1>1, <1>3, <1>4, <2>2 DEF IInv, Types
<1>6. OneEnd'
  BY <1>3, <1>4 DEF OneEnd
<1>7. ASSUME changes' = 0 PROVE Genuine'
  <2>1. /\ GenuineCommitment /\ GenuineStart(events[1])
        /\ proof.commitment = Commitment(custody)
    BY <1>1, <1>3, <1>7 DEF IInv, Genuine
  <2>2. /\ e.sequence = 1 /\ e.status = "revealed" /\ e.format = (IF legacy THEN 1 ELSE 2)
        /\ e.payload = (IF legacy THEN None ELSE payload) /\ e.hash = EventHash(e)
    BY NewEventFacts
  <2>. HIDE DEF e
  <2>3. proof'.config = proof.config
    BY <1>3 DEF CommitFields
  <2>4. GenuineCommitment'
    BY <1>1, <1>3, <2>1, <2>3 DEF GenuineCommitment, CommitFields
  <2>5. GenuineStart(events'[1])
    BY <1>4, <2>1
  <2>6. GenuineStart(events[1])'
    <3>1. CommitEvidence(proof') = CommitEvidence(proof)
      BY <1>3 DEF CommitEvidence, Evidence
    <3>. QED  BY <1>1, <2>5, <3>1 DEF GenuineStart
  <2>7. GenuineEnd(events[1], events[2])'
    <3>1. legacy \in BOOLEAN
      BY DEF IInv, Types
    <3>. QED  BY <1>1, <1>3, <1>4, <2>2, <3>1 DEF GenuineEnd
  <2>8. GenuineResult'
    BY <1>1, <1>3, <2>1, <2>3 DEF GenuineResult, CommitFields
  <2>9. events' # <<>>
    <3>1. Len(<<>>) = 0 /\ 0 # 2
      OBVIOUS
    <3>. QED  BY <1>4, <3>1, Zenon
  <2>. QED  BY <1>3, <1>4, <2>4, <2>6, <2>7, <2>8, <2>9 DEF Genuine
<1>. QED  BY <1>5, <1>6, <1>7 DEF IInv

LEMMA EndInv ==
  ASSUME IInv, NEW status \in Ended, NEW now \in Times, End(status, now)
  PROVE  IInv'
<1>. DEFINE n == events[Len(events)].sequence + 1
            payload == [evidence |-> CommitEvidence(proof), at |-> now]
            e == NewEvent(n, status, payload, now)
<1>1. /\ SessionActive /\ events # <<>> /\ proof.status = "committed"
      /\ configs' = configs /\ custody' = None /\ legacy' = legacy /\ changes' = changes
      /\ proof' = [proof EXCEPT !.status = status] /\ original' = [original EXCEPT !.status = status]
      /\ events' = Append(events, e)
  BY DEF End
<1>2. proof # NoRow /\ DOMAIN proof = Fields /\ DOMAIN original = Fields
  BY <1>1 DEF SessionActive, IInv, Types
<1>3. /\ DOMAIN proof' = Fields /\ DOMAIN original' = Fields
      /\ proof'.status = status /\ original'.status = status
      /\ \A f \in Fields \ {"status"} : proof'[f] = proof[f]
  BY <1>1, <1>2 DEF Fields
<1>4. proof' # NoRow /\ original' # NoRow
  BY <1>3, RowHasColumns
<1>5. /\ \E S : events' \in Seq(S)
      /\ Len(events) = 1 /\ Len(events') = 2
      /\ events'[1] = events[1] /\ events'[2] = e
      /\ e.previous = events[1].hash
  <2>. HIDE DEF payload, n
  <2>. QED  BY <1>1, EndAppended
<1>6. \A f \in CommitFields : proof'[f] = proof[f]
  BY <1>3 DEF CommitFields, Fields, RevealedFields
<1>7. Types'
  <2>1. \A f \in CommitFields \cup {"status"} : proof[f] \in Column(f) /\ Column(f)' = Column(f)
    BY <1>2, SameColumns DEF IInv, Types
  <2>2. \A f \in CommitFields \cup {"status"} : proof'[f] \in Column(f)'
    <3>1. status \in Column("status")'
      BY DEF Column, Ended
    <3>. QED  BY <1>3, <1>6, <2>1, <3>1
  <2>. QED  BY <1>1, <1>3, <1>4, <1>5, <2>2 DEF IInv, Types
<1>8. OneEnd'
  BY <1>3, <1>5 DEF OneEnd, Ended
<1>9. ASSUME changes' = 0 PROVE Genuine'
  <2>1. /\ GenuineCommitment /\ GenuineStart(events[1])
        /\ Empty(proof, OutcomeFields \cup {"fingerprint"})
    BY <1>1, <1>2, <1>9 DEF IInv, Genuine
  <2>2. /\ e.sequence = n /\ e.status = status /\ e.format = (IF legacy THEN 1 ELSE 2)
        /\ e.hash = EventHash(e)
    BY NewEventFacts
  <2>3. n = 1
    BY <1>5, <2>1 DEF GenuineStart
  <2>. HIDE DEF e, n
  <2>4. GenuineCommitment'
    BY <1>1, <1>6, <2>1 DEF GenuineCommitment, CommitFields
  <2>5. GenuineStart(events[1])'
    <3>1. CommitEvidence(proof') = CommitEvidence(proof)
      BY <1>6 DEF CommitEvidence, Evidence
    <3>. QED  BY <1>1, <1>5, <2>1, <3>1 DEF GenuineStart
  <2>6. GenuineEnd(events[1], events[2])'
    <3>1. legacy \in BOOLEAN
      BY DEF IInv, Types
    <3>. QED  BY <1>1, <1>3, <1>5, <2>2, <2>3, <3>1 DEF GenuineEnd, Ended
  <2>7. Empty(proof', OutcomeFields \cup {"fingerprint"})
    BY <1>3, <2>1 DEF Empty, OutcomeFields, DerivedFields, Fields, RevealedFields
  <2>8. events' # <<>>
    <3>1. Len(<<>>) = 0 /\ 0 # 2
      OBVIOUS
    <3>. QED  BY <1>5, <3>1, Zenon
  <2>. QED  BY <1>3, <1>4, <1>5, <2>4, <2>5, <2>6, <2>7, <2>8 DEF Genuine, Ended
<1>. QED  BY <1>7, <1>8, <1>9 DEF IInv

LEMMA MarkedFacts ==
  ASSUME NEW p, DOMAIN p = Fields
  PROVE  /\ DOMAIN Marked(p) = Fields
         /\ \A f \in Fields \ {"fingerprint"} : Marked(p)[f] = p[f]
         /\ p.status = "revealed" => Marked(p).fingerprint = Fingerprint(p.client)
         /\ p.status # "revealed" => Marked(p) = p
<1>1. p # NoRow /\ "fingerprint" \in Fields
  BY RowHasColumns DEF Fields, RevealedFields
<1>2. CASE p.status = "revealed"
  <2>1. Marked(p) = [p EXCEPT !.fingerprint = Fingerprint(p.client)]
    BY <1>1, <1>2 DEF Marked
  <2>. QED  BY <1>1, <1>2, <2>1
<1>3. CASE p.status # "revealed"
  BY <1>3 DEF Marked
<1>. QED  BY <1>2, <1>3

LEMMA MigrateInv ==
  ASSUME IInv, Migrate
  PROVE  IInv'
<1>1. /\ legacy /\ legacy' = FALSE /\ proof' = Marked(proof) /\ original' = Marked(original)
      /\ configs' = configs /\ custody' = custody /\ events' = events /\ changes' = changes
  BY DEF Migrate
<1>2. CASE proof = NoRow
  <2>1. proof' = NoRow /\ original' = NoRow
    BY <1>1, <1>2 DEF Marked, IInv, Types
  <2>2. Types'
    BY <1>1, <1>2, <2>1 DEF IInv, Types
  <2>3. OneEnd'
    BY <1>1, <2>1 DEF IInv, OneEnd
  <2>4. changes' = 0 => Genuine'
    BY <1>1, <1>2, <2>1 DEF IInv, Genuine
  <2>. QED  BY <2>2, <2>3, <2>4 DEF IInv
<1>3. CASE proof # NoRow
  <2>1. DOMAIN proof = Fields /\ DOMAIN original = Fields
    BY <1>3 DEF IInv, Types
  <2>2. /\ DOMAIN proof' = Fields
        /\ \A f \in Fields \ {"fingerprint"} : proof'[f] = proof[f]
        /\ proof.status = "revealed" => proof'.fingerprint = Fingerprint(proof.client)
        /\ proof.status # "revealed" => proof' = proof
    BY <1>1, <2>1, MarkedFacts
  <2>3. DOMAIN original' = Fields /\ original'.status = original.status
    <3>1. "status" \in Fields \ {"fingerprint"}
      BY DEF Fields
    <3>2. /\ DOMAIN original' = Fields
          /\ \A f \in Fields \ {"fingerprint"} : original'[f] = original[f]
      BY <1>1, <2>1, MarkedFacts
    <3>. QED  BY <3>1, <3>2
  <2>4. proof' # NoRow /\ original' # NoRow /\ original # NoRow
    BY <2>1, <2>2, <2>3, RowHasColumns
  <2>5. /\ proof'.status = proof.status
        /\ \A f \in CommitFields \cup DerivedFields
                      \cup {"client", "seed", "outcome", "evaluated", "revealed"} : proof'[f] = proof[f]
    BY <2>2 DEF Fields, RevealedFields, CommitFields, DerivedFields
  <2>6. Types'
    <3>1. \A f \in CommitFields \cup {"status"} : proof[f] \in Column(f) /\ Column(f)' = Column(f)
      BY <1>3, SameColumns DEF IInv, Types
    <3>2. \A f \in CommitFields \cup {"status"} : proof'[f] \in Column(f)'
      BY <2>5, <3>1
    <3>. QED  BY <1>1, <2>2, <2>3, <2>4, <3>2 DEF IInv, Types
  <2>7. OneEnd'
    BY <1>1, <2>3, <2>4 DEF IInv, OneEnd
  <2>8. ASSUME changes' = 0 PROVE Genuine'
    <3>1. /\ original.status = proof.status
          /\ GenuineCommitment
          /\ events # <<>> /\ GenuineStart(events[1])
          /\ proof.status = "committed" =>
               /\ Len(events) = 1
               /\ custody \in Seeds /\ proof.commitment = Commitment(custody)
          /\ proof.status # "committed" => Len(events) = 2 /\ GenuineEnd(events[1], events[2])
          /\ proof.status = "revealed" => GenuineResult
          /\ proof.status # "revealed" => Empty(proof, OutcomeFields \cup {"fingerprint"})
      BY <1>1, <1>3, <2>8 DEF IInv, Genuine
    <3>2. GenuineCommitment'
      BY <1>1, <2>5, <3>1 DEF GenuineCommitment, CommitFields
    <3>3. GenuineStart(events[1])'
      BY <1>1, <3>1 DEF GenuineStart
    <3>4. proof.status # "committed" => GenuineEnd(events[1], events[2])'
      BY <1>1, <2>5, <3>1 DEF GenuineEnd
    <3>5. proof.status = "revealed" => GenuineResult'
      <4>. SUFFICES ASSUME proof.status = "revealed" PROVE GenuineResult'
        OBVIOUS
      <4>1. PICK p, q : p = proof' /\ q = proof
        OBVIOUS
      <4>2. Derivation(p, q.seed, configs[q.config]) = Derivation(q, q.seed, configs[q.config])
        <5>1. p.client = q.client /\ p.nonce = q.nonce /\ p.config = q.config /\ p.session = q.session
          BY <2>5, <4>1 DEF CommitFields
        <5>. QED  BY <5>1, SameDerivation
      <4>3. GenuineResult
        BY <3>1
      <4>4. \A f \in DerivedFields :
              proof'[f] = Derivation(proof', proof'.seed, configs[proof'.config])[f]
        <5>1. \A f \in DerivedFields : proof[f] = Derivation(proof, proof.seed, configs[proof.config])[f]
          BY <4>3 DEF GenuineResult
        <5>2. proof'.seed = proof.seed /\ proof'.config = proof.config
          BY <2>5 DEF CommitFields
        <5>. QED  BY <2>5, <4>1, <4>2, <5>1, <5>2
      <4>. QED  BY <1>1, <2>2, <2>5, <4>3, <4>4 DEF GenuineResult, CommitFields
    <3>6. proof.status # "revealed" => Empty(proof', OutcomeFields \cup {"fingerprint"})
      BY <2>2, <3>1
    <3>7. proof'.commitment = proof.commitment
      BY <2>5 DEF CommitFields
    <3>. QED  BY <1>1, <2>3, <2>4, <2>5, <3>7, <3>1, <3>2, <3>3, <3>4, <3>5, <3>6 DEF Genuine
  <2>. QED  BY <2>6, <2>7, <2>8 DEF IInv
<1>. QED  BY <1>2, <1>3

LEMMA StutterInv ==
  ASSUME IInv, UNCHANGED vars
  PROVE  IInv'
<1>1. /\ proof' = proof /\ original' = original /\ legacy' = legacy /\ configs' = configs
      /\ custody' = custody /\ events' = events /\ changes' = changes
  BY DEF vars
<1>2. Types'
  BY <1>1, SameColumns DEF IInv, Types
<1>3. OneEnd'
  BY <1>1 DEF IInv, OneEnd
<1>4. changes' = 0 => Genuine'
  <2>1. Genuine => Genuine'
    BY <1>1 DEF Genuine, GenuineCommitment, GenuineStart, GenuineEnd, GenuineResult
  <2>. QED  BY <1>1, <2>1 DEF IInv
<1>. QED  BY <1>2, <1>3, <1>4 DEF IInv

LEMMA NextInv == IInv /\ [Next]_vars => IInv'
<1>. SUFFICES ASSUME IInv, [Next]_vars PROVE IInv'
  OBVIOUS
<1>1. ASSUME NEW seed \in Seeds, NEW c \in SpinConfigs, Commit(seed, c) PROVE IInv'
  BY <1>1, CommitInv
<1>2. ASSUME NEW client \in ClientSeeds, NEW now \in Times, Evaluate(client, now) PROVE IInv'
  BY <1>2, EvaluateInv
<1>3. ASSUME NEW status \in {"expired", "cancelled"}, NEW now \in Times, End(status, now) PROVE IInv'
  BY <1>3, EndInv DEF Ended
<1>4. CASE Migrate
  BY <1>4, MigrateInv
<1>5. ASSUME NEW f \in RevealedFields \cup {"status"}, CorruptProof(f) PROVE IInv'
  BY <1>5, CorruptProofInv DEF Fields
<1>6. ASSUME NEW i \in DOMAIN events, CorruptEvent(i) \/ LoseEvent(i) PROVE IInv'
  BY <1>6, CorruptEventInv
<1>7. CASE CorruptCustody \/ \E c \in SpinConfigs : CorruptMap(c)
  BY <1>7, CorruptRestInv
<1>8. CASE UNCHANGED vars
  BY <1>8, StutterInv
<1>. QED  BY <1>1, <1>2, <1>3, <1>4, <1>5, <1>6, <1>7, <1>8 DEF Next

\* The rows are genuine until something is corrupted.
THEOREM Invariance == Spec => []IInv
BY InitInv, NextInv, PTL DEF Spec

------------------------------------------------------------------------------
(***************************************************************************)
(* Types.                                                                  *)
(***************************************************************************)
\* The result of a genuine proof is drawn within the reward map.
LEMMA ResultFacts ==
  ASSUME IInv, changes = 0, proof # NoRow, proof.status = "revealed"
  PROVE  /\ proof.attempt \in 0 .. Attempts - 1 /\ proof.normalized \in 0 .. MaxWeight - 1
         /\ proof.raw = Digest(proof, proof.seed, configs[proof.config], proof.attempt)
         /\ proof.raw # None
         /\ \E bands \in Maps : \E i \in DOMAIN bands :
              proof.reward_key = bands[i].key /\ proof.reward_value = bands[i].value
         /\ proof.reward_value \in 0 .. MaxValue
<1>. DEFINE bands == configs[proof.config]
<1>1. GenuineCommitment /\ GenuineResult /\ bands \in Maps
  BY DEF IInv, Types, Genuine, GenuineCommitment
<1>2. PICK p : p = proof
  OBVIOUS
<1>3. /\ p.client \in ClientSeeds /\ p.config \in SpinConfigs /\ p.nonce = 0 /\ p.session = "session"
      /\ p.seed \in Seeds
  BY <1>1, <1>2 DEF GenuineCommitment, GenuineResult
<1>4. /\ p.attempt = Derivation(p, p.seed, bands).attempt
      /\ p.normalized = Derivation(p, p.seed, bands).normalized
      /\ p.raw = Derivation(p, p.seed, bands).raw
      /\ p.reward_key = Derivation(p, p.seed, bands).reward_key
      /\ p.reward_value = Derivation(p, p.seed, bands).reward_value
  <2>1. \A f \in DerivedFields : p[f] = Derivation(p, p.seed, bands)[f]
    BY <1>1, <1>2 DEF GenuineResult
  <2>. QED  BY <2>1 DEF DerivedFields
<1>. HIDE DEF bands
<1>5. /\ p.attempt \in 0 .. Attempts - 1 /\ p.normalized \in 0 .. TotalWeight(bands) - 1
      /\ p.raw = Digest(p, p.seed, bands, p.attempt) /\ p.raw # None
      /\ \E i \in DOMAIN bands : p.reward_key = bands[i].key /\ p.reward_value = bands[i].value
  <2>1. PICK s \in Seeds : s = p.seed
    BY <1>3
  <2>2. PICK d : d = Derivation(p, s, bands)
    OBVIOUS
  <2>3. /\ d.attempt \in 0 .. Attempts - 1 /\ d.normalized \in 0 .. TotalWeight(bands) - 1
        /\ d.raw = Digest(p, s, bands, d.attempt) /\ d.raw # None
        /\ \E i \in DOMAIN bands : d.reward_key = bands[i].key /\ d.reward_value = bands[i].value
    BY <1>1, <1>3, <2>2, Derived
  <2>. QED  BY <1>4, <2>1, <2>2, <2>3
<1>6. ValidBands(bands) /\ TotalWeight(bands) \in Nat
  BY <1>1, MapAssumption
<1>7. \A i \in DOMAIN bands : bands[i].value \in 0 .. MaxValue
  BY <1>6 DEF ValidBands
<1>8. p.normalized \in 0 .. MaxWeight - 1
  <2>1. TotalWeight(bands) <= MaxWeight
    BY <1>6 DEF ValidBands
  <2>. QED  BY <1>5, <1>6, <2>1, RewardBounds
<1>. QED  BY <1>1, <1>2, <1>5, <1>7, <1>8 DEF bands

LEMMA InvTypeOK == IInv => TypeOK
<1>. SUFFICES ASSUME IInv PROVE TypeOK
  OBVIOUS
<1>1. ASSUME proof # NoRow, proof.status = "revealed", changes = 0,
             NEW f \in RevealedFields \ {"fingerprint"}
      PROVE  proof[f] \in Column(f)
  <2>1. /\ proof.attempt \in 0 .. Attempts - 1 /\ proof.normalized \in 0 .. MaxWeight - 1
        /\ proof.raw = Digest(proof, proof.seed, configs[proof.config], proof.attempt)
        /\ \E bands \in Maps : \E i \in DOMAIN bands :
             proof.reward_key = bands[i].key /\ proof.reward_value = bands[i].value
        /\ proof.reward_value \in 0 .. MaxValue
    BY <1>1, ResultFacts
  <2>2. GenuineResult /\ DOMAIN proof = Fields
    BY <1>1 DEF IInv, Types, Genuine
  <2>3. CASE f \in CommitFields
    BY <1>1, <2>3 DEF IInv, Types
  <2>4. CASE f = "raw"
    <3>1. PICK q : q = [proof EXCEPT !.client = proof.client]
      OBVIOUS
    <3>2. q.client = proof.client /\ q.nonce = proof.nonce /\ q.config = proof.config
          /\ q.session = proof.session
      BY <2>2, <3>1 DEF Fields, RevealedFields
    <3>3. Digest(q, proof.seed, configs[proof.config], proof.attempt) = proof.raw
      BY <2>1, <3>2 DEF Digest
    <3>4. proof.client \in ClientSeeds
      BY <2>2 DEF GenuineResult
    <3>5. proof.raw \in {Digest([proof EXCEPT !.client = k], proof.seed, configs[proof.config], n) :
                           k \in ClientSeeds, n \in 0 .. Attempts - 1}
      BY <2>1, <3>1, <3>3, <3>4
    <3>. QED  BY <2>4, <3>5 DEF Column
  <2>5. CASE f = "reward_key"
    BY <2>1, <2>5 DEF Column
  <2>6. CASE f \in {"attempt", "normalized", "reward_value"}
    <3>1. Column("attempt") = 0 .. Attempts - 1 /\ Column("normalized") = 0 .. MaxWeight - 1
          /\ Column("reward_value") = 0 .. MaxValue
      BY DEF Column
    <3>. QED  BY <2>1, <2>6, <3>1
  <2>7. CASE f \in {"client", "seed", "outcome", "evaluated", "revealed"}
    BY <2>2, <2>7 DEF GenuineResult, Column
  <2>. QED  BY <2>3, <2>4, <2>5, <2>6, <2>7 DEF RevealedFields, DerivedFields
<1>. QED  BY <1>1 DEF TypeOK, IInv, Types, OneEnd, Fields

\* Columns have their types, and a revealed proof that nobody changed has a result drawn
\* within its reward map: commit_fairness, evaluate_fairness, derive_daily_spin.
THEOREM TypeCorrect == Spec => []TypeOK
BY Invariance, InvTypeOK, PTL

------------------------------------------------------------------------------
(***************************************************************************)
(* Genuine evidence verifies.                                              *)
(***************************************************************************)
LEMMA NoFailure ==
  ASSUME NEW checks, \A i \in DOMAIN checks : checks[i][1]
  PROVE  FirstFailure(checks) = "verified"
BY DEF FirstFailure

LEMMA DerivationVerifies ==
  ASSUME NEW p, NEW bands, p.version = "v1", p.commitment = Commitment(p.seed),
         p.mapping = MappingDigest(bands),
         \A f \in DerivedFields : p[f] = Derivation(p, p.seed, bands)[f]
  PROVE  VerifyDerivation(p, bands) = "verified"
<1>. DEFINE d == Derivation(p, p.seed, bands)
            checks == <<
              <<p.version = "v1", "unsupported_fairness_version">>,
              <<p.commitment = Commitment(p.seed), "commitment_mismatch">>,
              <<p.mapping = MappingDigest(bands), "mapping_digest_mismatch">>,
              <<p.raw = d.raw, "raw_digest_mismatch">>,
              <<p.normalized = d.normalized, "normalized_value_mismatch">>,
              <<p.attempt = d.attempt, "attempt_mismatch">>,
              <<p.reward_key = d.reward_key /\ p.reward_value = d.reward_value, "reward_mismatch">> >>
<1>1. VerifyDerivation(p, bands) = FirstFailure(checks)
  BY DEF VerifyDerivation
<1>2. /\ p.raw = d.raw /\ p.normalized = d.normalized /\ p.attempt = d.attempt
      /\ p.reward_key = d.reward_key /\ p.reward_value = d.reward_value
  <2>. HIDE DEF d
  <2>1. \A f \in DerivedFields : p[f] = d[f]
    BY DEF d
  <2>. QED  BY <2>1 DEF DerivedFields
<1>. HIDE DEF d
<1>3. DOMAIN checks = 1 .. 7
  OBVIOUS
<1>4. /\ checks[1][1] /\ checks[2][1] /\ checks[3][1] /\ checks[4][1]
      /\ checks[5][1] /\ checks[6][1] /\ checks[7][1]
  BY <1>2
<1>. HIDE DEF checks
<1>5. \A i \in DOMAIN checks : checks[i][1]
  <2>1. \A i \in 1 .. 7 : i \in {1, 2, 3, 4, 5, 6, 7}
    OBVIOUS
  <2>. QED  BY <1>3, <1>4, <2>1
<1>. QED  BY <1>1, <1>5, NoFailure

LEMMA ChainVerifies ==
  ASSUME NEW S, NEW es \in Seq(S), NEW p, Len(es) = 2,
         es[1].sequence = 0, es[1].previous = None, es[1].format \in {1, 2},
         es[1].hash = EventHash(es[1]), es[1].format = 2 => es[1].payload = CommitEvidence(p),
         es[2].sequence = 1, es[2].previous = es[1].hash, es[2].format \in {1, 2},
         es[2].hash = EventHash(es[2]), es[2].status = p.status,
         p.status = "revealed" /\ es[2].format = 2 => es[2].payload = RevealedEvidence(p)
  PROVE  VerifyEventChain(p, es) = "verified"
<1>1. DOMAIN es = 1 .. 2 /\ es # <<>>
  <2>1. DOMAIN es = 1 .. 2
    OBVIOUS
  <2>2. Len(<<>>) = 0 /\ 0 # 2
    OBVIOUS
  <2>3. es # <<>>
    BY <2>2, Zenon
  <2>. QED  BY <2>1, <2>3
<1>2. ASSUME NEW i \in 1 .. 2 PROVE FirstFailure(EventChecks(es, i)) = "verified"
  <2>1. /\ es[i].sequence = i - 1 /\ es[i].previous = (IF i = 1 THEN None ELSE es[i - 1].hash)
        /\ es[i].format \in {1, 2} /\ es[i].hash = EventHash(es[i])
    <3>1. CASE i = 1
      BY <3>1
    <3>2. CASE i = 2
      BY <3>2
    <3>. QED  BY <3>1, <3>2
  <2>2. DOMAIN EventChecks(es, i) = 1 .. 3
    BY DEF EventChecks
  <2>3. /\ EventChecks(es, i)[1][1] /\ EventChecks(es, i)[2][1] /\ EventChecks(es, i)[3][1]
    BY <2>1 DEF EventChecks
  <2>4. \A k \in 1 .. 3 : k \in {1, 2, 3}
    OBVIOUS
  <2>5. \A k \in DOMAIN EventChecks(es, i) : EventChecks(es, i)[k][1]
    BY <2>2, <2>3, <2>4
  <2>. QED  BY <2>5, NoFailure
<1>3. FirstFailure(ProofChecks(p, es)) = "verified"
  <2>1. DOMAIN ProofChecks(p, es) = 1 .. 3
    BY DEF ProofChecks
  <2>2. ProofChecks(p, es)[1][1] /\ ProofChecks(p, es)[2][1] /\ ProofChecks(p, es)[3][1]
    BY DEF ProofChecks
  <2>3. \A k \in 1 .. 3 : k \in {1, 2, 3}
    OBVIOUS
  <2>4. \A k \in DOMAIN ProofChecks(p, es) : ProofChecks(p, es)[k][1]
    BY <2>1, <2>2, <2>3
  <2>. QED  BY <2>4, NoFailure
<1>4. {i \in DOMAIN es : FirstFailure(EventChecks(es, i)) # "verified"} = {}
  BY <1>1, <1>2
<1>. QED  BY <1>1, <1>3, <1>4 DEF VerifyEventChain

LEMMA InvVerifies == IInv => GenuineVerifies
<1>. SUFFICES ASSUME IInv, proof # NoRow, proof.status = "revealed", changes = 0
              PROVE  Verify("outcome") = "verified"
  BY DEF GenuineVerifies
<1>1. /\ GenuineCommitment /\ GenuineResult /\ GenuineStart(events[1])
      /\ Len(events) = 2 /\ GenuineEnd(events[1], events[2])
  BY DEF IInv, Genuine
<1>2. PICK p, bands : p = proof /\ bands = configs[proof.config]
  OBVIOUS
<1>3. VerifyDerivation(p, bands) = "verified"
  <2>1. /\ p.version = "v1" /\ p.commitment = Commitment(p.seed) /\ p.mapping = MappingDigest(bands)
        /\ \A f \in DerivedFields : p[f] = Derivation(p, p.seed, bands)[f]
    BY <1>1, <1>2 DEF GenuineCommitment, GenuineResult
  <2>. QED  BY <2>1, DerivationVerifies
<1>4. VerifyEventChain(p, events) = "verified"
  <2>1. PICK S, es : es \in Seq(S) /\ es = events
    BY DEF IInv, Types
  <2>2. /\ Len(es) = 2 /\ es[1].sequence = 0 /\ es[1].previous = None /\ es[1].format \in {1, 2}
        /\ es[1].hash = EventHash(es[1]) /\ (es[1].format = 2 => es[1].payload = CommitEvidence(p))
        /\ es[2].sequence = 1 /\ es[2].previous = es[1].hash /\ es[2].format \in {1, 2}
        /\ es[2].hash = EventHash(es[2]) /\ es[2].status = p.status
        /\ (p.status = "revealed" /\ es[2].format = 2 => es[2].payload = RevealedEvidence(p))
    BY <1>1, <1>2, <2>1 DEF GenuineStart, GenuineEnd
  <2>3. VerifyEventChain(p, es) = "verified"
    BY <2>1, <2>2, ChainVerifies
  <2>. QED  BY <2>1, <2>3
<1>5. proof.outcome = "outcome"
  BY <1>1 DEF GenuineResult
<1>. QED  BY <1>2, <1>3, <1>4, <1>5 DEF Verify

\* Evidence that nobody changed verifies, for every seed, reward map and digest, whether
\* migration 0012 came before the commitment, before the reveal or after it:
\* verify_fairness_proof with verify_daily_spin_proof and verify_fairness_event_chain.
THEOREM GenuineEvidenceVerifies == Spec => []GenuineVerifies
BY Invariance, InvVerifies, PTL

------------------------------------------------------------------------------
(***************************************************************************)
(* The schema.  What it asks of rows follows from the invariant; what it   *)
(* asks of updates, from the steps.                                        *)
(***************************************************************************)
RowsAdmitted ==
  changes = 0 =>
    /\ proof # NoRow =>
         /\ ProofRow(proof)
         /\ IF legacy THEN EvidenceOf0007(proof) ELSE EvidenceOf0012(proof)
    /\ EventRows(events)

StepAdmitted ==
  changes' = 0 =>
    /\ proof # NoRow => proof' # NoRow
    /\ proof # NoRow /\ proof' # proof /\ legacy' = legacy =>
         IF legacy THEN TransitionOf0008(proof, proof') ELSE TransitionOf0012(proof, proof')
    /\ AppendOnly

LEMMA InvRows == IInv => RowsAdmitted
<1>. SUFFICES ASSUME IInv, changes = 0
              PROVE  /\ proof # NoRow =>
                          /\ ProofRow(proof)
                          /\ IF legacy THEN EvidenceOf0007(proof) ELSE EvidenceOf0012(proof)
                     /\ EventRows(events)
  BY DEF RowsAdmitted
<1>1. CASE proof = NoRow
  <2>1. events = <<>>
    BY <1>1 DEF IInv, Genuine
  <2>2. DOMAIN <<>> = {}
    OBVIOUS
  <2>. QED  BY <1>1, <2>1, <2>2 DEF EventRows
<1>2. CASE proof # NoRow
  <2>1. /\ GenuineCommitment /\ GenuineStart(events[1])
        /\ proof.status = "committed" => Len(events) = 1
        /\ proof.status # "committed" => Len(events) = 2 /\ GenuineEnd(events[1], events[2])
        /\ proof.status = "revealed" => GenuineResult
        /\ proof.status # "revealed" => Empty(proof, OutcomeFields \cup {"fingerprint"})
    BY <1>2 DEF IInv, Genuine
  <2>2. /\ configs[proof.config] \in Maps
        /\ proof.version = "v1" /\ proof.nonce = 0 /\ proof.session = "session"
        /\ proof.config \in SpinConfigs /\ proof.mapping = MappingDigest(configs[proof.config])
        /\ \E seed \in Seeds : proof.commitment = Commitment(seed)
    BY <2>1 DEF GenuineCommitment, IInv, Types
  <2>3. Held(proof, CommitFields)
    <3>1. PICK seed \in Seeds, bands \in Maps :
            proof.commitment = Commitment(seed) /\ proof.mapping = MappingDigest(bands)
      BY <2>2
    <3>2. None # Commitment(seed) /\ None # MappingDigest(bands)
      BY <2>2, NullAssumption
    <3>3. None \notin {"v1", "session"} \cup Nat \cup SpinConfigs
      BY NullAssumption
    <3>. QED  BY <2>2, <3>1, <3>2, <3>3 DEF Held, CommitFields
  <2>4. EventRows(events)
    <3>1. PICK S : events \in Seq(S)
      BY DEF IInv, Types
    <3>2. events[1].sequence = 0 /\ events[1].previous = None /\ events[1].hash # None
      BY <2>1 DEF GenuineStart
    <3>3. CASE proof.status = "committed"
      <4>1. DOMAIN events = {1}
        BY <2>1, <3>1, <3>3
      <4>. QED  BY <3>2, <4>1 DEF EventRows
    <3>4. CASE proof.status # "committed"
      <4>1. DOMAIN events = {1, 2}
        BY <2>1, <3>1, <3>4
      <4>2. events[2].sequence = 1 /\ events[2].previous = events[1].hash
        BY <2>1, <3>4 DEF GenuineEnd
      <4>. QED  BY <3>2, <4>1, <4>2 DEF EventRows
    <3>. QED  BY <3>3, <3>4
  <2>5. CASE proof.status = "revealed"
    <3>1. /\ proof.attempt \in 0 .. Attempts - 1 /\ proof.normalized \in 0 .. MaxWeight - 1
          /\ proof.raw # None
          /\ \E bands \in Maps : \E i \in DOMAIN bands : proof.reward_key = bands[i].key
          /\ proof.reward_value \in 0 .. MaxValue
      BY <1>2, <2>5, ResultFacts
    <3>2. GenuineResult
      BY <2>1, <2>5
    <3>3. None \notin Nat \cup Seeds \cup ClientSeeds \cup {"outcome"}
      BY NullAssumption
    <3>4. proof.reward_key # None
      <4>1. PICK bands \in Maps : \E i \in DOMAIN bands : proof.reward_key = bands[i].key
        BY <3>1
      <4>2. \E seed \in Seeds, c \in SpinConfigs : TRUE
        BY <2>2
      <4>3. None \notin {bands[j].key : j \in DOMAIN bands}
        BY <4>2, NullAssumption
      <4>. QED  BY <4>1, <4>3
    <3>5. /\ proof.attempt \in Nat /\ proof.normalized \in Nat /\ proof.reward_value \in Nat
          /\ proof.evaluated \in Nat /\ proof.revealed \in Nat
      BY <3>1, <3>2, RewardBounds, EvidenceBounds DEF GenuineResult, Times
    <3>6. Held(proof, OutcomeFields)
      BY <3>1, <3>2, <3>3, <3>4, <3>5 DEF Held, OutcomeFields, DerivedFields, GenuineResult
    <3>7. ProofRow(proof)
      BY <2>2, <2>3, <3>5 DEF ProofRow
    <3>8. ~legacy => Held(proof, OutcomeFields \cup {"fingerprint"})
      <4>1. ~legacy => proof.fingerprint # None
        BY <3>2, NullAssumption DEF GenuineResult
      <4>. QED  BY <3>6, <4>1 DEF Held
    <3>9. EvidenceOf0007(proof)
      BY <2>5, <3>6 DEF EvidenceOf0007
    <3>10. ~legacy => EvidenceOf0012(proof)
      BY <2>5, <3>8 DEF EvidenceOf0012
    <3>. QED  BY <1>2, <2>4, <3>7, <3>9, <3>10
  <2>6. CASE proof.status # "revealed"
    <3>1. Empty(proof, OutcomeFields \cup {"fingerprint"})
      BY <2>1, <2>6
    <3>2. Empty(proof, OutcomeFields) /\ Empty(proof, OutcomeFields \ {"client"})
      BY <3>1 DEF Empty
    <3>3. ProofRow(proof)
      BY <2>2, <2>3, <3>2 DEF ProofRow, Empty, OutcomeFields, DerivedFields
    <3>4. EvidenceOf0007(proof)
      BY <2>6, <3>2 DEF EvidenceOf0007
    <3>5. EvidenceOf0012(proof)
      BY <2>6, <3>1 DEF EvidenceOf0012
    <3>. QED  BY <1>2, <2>4, <3>3, <3>4, <3>5
  <2>. QED  BY <2>5, <2>6
<1>. QED  BY <1>1, <1>2

LEMMA InvSteps == IInv /\ [Next]_vars => StepAdmitted
<1>. SUFFICES ASSUME IInv, [Next]_vars, changes' = 0 PROVE StepAdmitted
  BY DEF StepAdmitted
<1>. USE DEF StepAdmitted
<1>1. PICK S : events \in Seq(S)
  BY DEF IInv, Types
<1>2. changes \in Nat /\ ~ Corruption
  BY EvidenceBounds DEF IInv, Types, Corruption
<1>3. ASSUME NEW seed \in Seeds, NEW c \in SpinConfigs, Commit(seed, c) PROVE StepAdmitted
  <2>1. proof = NoRow /\ changes' = changes
    BY <1>3 DEF Commit
  <2>2. events = <<>>
    BY <2>1 DEF IInv, Genuine
  <2>3. PICK e : events' = <<e>>
    BY <1>3 DEF Commit
  <2>4. IsPrefix(<<>>, <<e>>)
    BY DEF IsPrefix
  <2>. QED  BY <2>1, <2>2, <2>3, <2>4 DEF AppendOnly
<1>4. ASSUME NEW client \in ClientSeeds, NEW now \in Times, Evaluate(client, now) PROVE StepAdmitted
  <2>1. proof.status = "committed" /\ proof'.status = "revealed" /\ proof' # NoRow
    BY <1>4, EvaluateFacts DEF Evaluate
  <2>2. PICK e : events' = Append(events, e)
    BY <1>4 DEF Evaluate
  <2>3. AppendOnly
    BY <1>1, <2>2, Appended DEF AppendOnly
  <2>. QED  BY <2>1, <2>3 DEF TransitionOf0008, TransitionOf0012
<1>5. ASSUME NEW status \in {"expired", "cancelled"}, NEW now \in Times, End(status, now)
      PROVE  StepAdmitted
  <2>1. proof.status = "committed" /\ proof' = [proof EXCEPT !.status = status] /\ SessionActive
    BY <1>5 DEF End
  <2>2. DOMAIN proof = Fields
    BY <2>1 DEF SessionActive, IInv, Types
  <2>3. DOMAIN proof' = Fields /\ proof'.status = status
    BY <2>1, <2>2 DEF Fields
  <2>4. proof' # NoRow
    BY <2>3, RowHasColumns
  <2>5. PICK e : events' = Append(events, e)
    BY <1>5 DEF End
  <2>6. AppendOnly
    BY <1>1, <2>5, Appended DEF AppendOnly
  <2>. QED  BY <2>1, <2>3, <2>4, <2>6 DEF TransitionOf0008, TransitionOf0012
<1>6. CASE Migrate
  <2>1. legacy /\ ~legacy' /\ proof' = Marked(proof) /\ events' = events
    BY <1>6 DEF Migrate
  <2>2. proof # NoRow => proof' # NoRow
    <3>1. proof # NoRow => DOMAIN Marked(proof) = Fields
      BY MarkedFacts DEF IInv, Types
    <3>. QED  BY <2>1, <3>1, RowHasColumns
  <2>. QED  BY <1>1, <2>1, <2>2, Unchanged DEF AppendOnly
<1>7. CASE UNCHANGED vars
  BY <1>1, <1>7, Unchanged DEF vars, AppendOnly
<1>8. ASSUME Next PROVE StepAdmitted
  BY <1>2, <1>3, <1>4, <1>5, <1>6, <1>8
  DEF Next, CorruptProof, CorruptEvent, LoseEvent, CorruptMap, CorruptCustody
<1>. QED  BY <1>7, <1>8

\* No step of the services or of migration 0012 runs into a constraint or a trigger of
\* the schema, for any seeds, reward maps and times: migrations 0007, 0008 and 0012.
THEOREM SchemaIsMet == Spec => SchemaAdmits
<1>1. Spec => []RowsAdmitted
  BY Invariance, InvRows, PTL
<1>2. Spec => [][StepAdmitted]_vars
  BY Invariance, InvSteps, PTL DEF Spec
<1>3. RowsAdmitted' /\ [StepAdmitted]_vars =>
        [changes' = 0 =>
           /\ proof' # NoRow =>
                /\ ProofRow(proof')
                /\ IF legacy' THEN EvidenceOf0007(proof') ELSE EvidenceOf0012(proof')
           /\ proof # NoRow => proof' # NoRow
           /\ proof # NoRow /\ proof' # proof /\ legacy' = legacy =>
                IF legacy THEN TransitionOf0008(proof, proof') ELSE TransitionOf0012(proof, proof')
           /\ AppendOnly /\ EventRows(events')]_vars
  BY DEF RowsAdmitted, StepAdmitted
<1>. QED  BY <1>1, <1>2, <1>3, PTL DEF SchemaAdmits

------------------------------------------------------------------------------
(***************************************************************************)
(* What a verdict of "verified" says.                                      *)
(***************************************************************************)
LEMMA LeastOne ==
  ASSUME NEW S, S \subseteq Nat, S # {}
  PROVE  \E m \in S : \A x \in S : m <= x
<1>1. PICK m \in S : \A y \in S : ~ (<<y, m>> \in OpToRel(<, Nat))
  BY NatLessThanWellFounded, WFMin, Zenon
<1>2. ASSUME NEW y \in S PROVE m <= y
  <2>1. y \in Nat /\ m \in Nat
    OBVIOUS
  <2>2. ~ (<<y, m>> \in {ss \in Nat \X Nat : ss[1] < ss[2]})
    BY <1>1 DEF OpToRel
  <2>. QED  BY <2>1, <2>2
<1>. QED  BY <1>2

LEMMA AllChecked ==
  ASSUME NEW n \in Nat, NEW checks, DOMAIN checks = 1 .. n,
         \A i \in 1 .. n : checks[i][2] # "verified", FirstFailure(checks) = "verified"
  PROVE  \A i \in 1 .. n : checks[i][1]
<1>. DEFINE failed == {i \in DOMAIN checks : ~checks[i][1]}
            k == CHOOSE i \in failed : \A j \in failed : i <= j
<1>1. SUFFICES ASSUME failed # {} PROVE FALSE
  OBVIOUS
<1>2. k \in failed
  <2>1. failed \subseteq Nat
    OBVIOUS
  <2>2. \E m \in failed : \A x \in failed : m <= x
    <3>. HIDE DEF failed
    <3>. QED  BY <1>1, <2>1, LeastOne
  <2>. QED  BY <2>2, Zenon
<1>3. FirstFailure(checks) = checks[k][2]
  BY <1>1 DEF FirstFailure
<1>. QED  BY <1>2, <1>3

LEMMA VerifiedDerivation ==
  ASSUME NEW p, NEW bands, VerifyDerivation(p, bands) = "verified"
  PROVE  /\ p.version = "v1" /\ p.commitment = Commitment(p.seed) /\ p.mapping = MappingDigest(bands)
         /\ \A f \in DerivedFields : p[f] = Derivation(p, p.seed, bands)[f]
<1>. DEFINE d == Derivation(p, p.seed, bands)
            checks == <<
              <<p.version = "v1", "unsupported_fairness_version">>,
              <<p.commitment = Commitment(p.seed), "commitment_mismatch">>,
              <<p.mapping = MappingDigest(bands), "mapping_digest_mismatch">>,
              <<p.raw = d.raw, "raw_digest_mismatch">>,
              <<p.normalized = d.normalized, "normalized_value_mismatch">>,
              <<p.attempt = d.attempt, "attempt_mismatch">>,
              <<p.reward_key = d.reward_key /\ p.reward_value = d.reward_value, "reward_mismatch">> >>
<1>1. FirstFailure(checks) = "verified"
  BY DEF VerifyDerivation
<1>. HIDE DEF d
<1>2. DOMAIN checks = 1 .. 7
  OBVIOUS
<1>3. \A i \in 1 .. 7 : checks[i][2] # "verified"
  <2>1. /\ checks[1][2] # "verified" /\ checks[2][2] # "verified" /\ checks[3][2] # "verified"
        /\ checks[4][2] # "verified" /\ checks[5][2] # "verified" /\ checks[6][2] # "verified"
        /\ checks[7][2] # "verified"
    OBVIOUS
  <2>. HIDE DEF checks
  <2>2. \A i \in 1 .. 7 : i \in {1, 2, 3, 4, 5, 6, 7}
    OBVIOUS
  <2>. QED  BY <2>1, <2>2
<1>4. \A i \in 1 .. 7 : checks[i][1]
  <2>. HIDE DEF checks
  <2>. QED  BY <1>1, <1>2, <1>3, AllChecked
<1>5. /\ checks[1][1] /\ checks[2][1] /\ checks[3][1] /\ checks[4][1]
      /\ checks[5][1] /\ checks[6][1] /\ checks[7][1]
  <2>. HIDE DEF checks
  <2>. QED  BY <1>4
<1>6. /\ p.version = "v1" /\ p.commitment = Commitment(p.seed) /\ p.mapping = MappingDigest(bands)
      /\ p.raw = d.raw /\ p.normalized = d.normalized /\ p.attempt = d.attempt
      /\ p.reward_key = d.reward_key /\ p.reward_value = d.reward_value
  BY <1>5
<1>7. \A f \in DerivedFields : p[f] = d[f]
  BY <1>6 DEF DerivedFields
<1>. QED  BY <1>6, <1>7 DEF d

\* An event whose hash fits, and two events that tell the same of their proof.
Sound(e) == e.format \in {1, 2} /\ e.hash = EventHash(e)

Agrees(e, g) ==
  /\ e.format = g.format /\ e.status = g.status /\ e.sequence = g.sequence
  /\ g.format = 2 => e.payload = g.payload

LEMMA VerifiedChain ==
  ASSUME NEW S, NEW es \in Seq(S), NEW p, p.status = "revealed", VerifyEventChain(p, es) = "verified"
  PROVE  /\ Len(es) >= 1
         /\ \A i \in 1 .. Len(es) : Sound(es[i]) /\ es[i].sequence = i - 1
         /\ es[1].format = 2 => es[1].payload = CommitEvidence(p)
         /\ es[Len(es)].status = "revealed"
         /\ es[Len(es)].format = 2 => es[Len(es)].payload = RevealedEvidence(p)
<1>. DEFINE verdict(i) == FirstFailure(EventChecks(es, i))
            broken == {i \in DOMAIN es : verdict(i) # "verified"}
            k == CHOOSE i \in broken : \A j \in broken : i <= j
<1>1. es # <<>>
  <2>1. "event_chain_missing" # "verified"
    OBVIOUS
  <2>. QED  BY <2>1, Zenon DEF VerifyEventChain
<1>2. Len(es) \in Nat /\ Len(es) >= 1 /\ DOMAIN es = 1 .. Len(es)
  BY <1>1, EmptySeq
<1>3. broken = {}
  <2>. SUFFICES ASSUME broken # {} PROVE FALSE
    OBVIOUS
  <2>1. verdict(k) = "verified"
    BY <1>1 DEF VerifyEventChain
  <2>2. k \in broken
    <3>1. broken \subseteq Nat
      BY <1>2
    <3>2. \E m \in broken : \A x \in broken : m <= x
      <4>. HIDE DEF broken
      <4>. QED  BY <3>1, LeastOne
    <3>. QED  BY <3>2, Zenon
  <2>. QED  BY <2>1, <2>2
<1>4. FirstFailure(ProofChecks(p, es)) = "verified"
  BY <1>1, <1>3 DEF VerifyEventChain
<1>5. ASSUME NEW i \in 1 .. Len(es) PROVE Sound(es[i]) /\ es[i].sequence = i - 1
  <2>1. FirstFailure(EventChecks(es, i)) = "verified"
    BY <1>2, <1>3
  <2>2. PICK c : c = EventChecks(es, i)
    OBVIOUS
  <2>3. DOMAIN c = 1 .. 3 /\ c[1][2] # "verified" /\ c[2][2] # "verified" /\ c[3][2] # "verified"
    BY <2>2 DEF EventChecks
  <2>4. \A j \in 1 .. 3 : j \in {1, 2, 3}
    OBVIOUS
  <2>5. \A j \in 1 .. 3 : c[j][2] # "verified"
    BY <2>3, <2>4
  <2>6. \A j \in 1 .. 3 : c[j][1]
    <3>1. FirstFailure(c) = "verified"
      BY <2>1, <2>2
    <3>. QED  BY <2>3, <2>5, <3>1, AllChecked
  <2>7. c[1][1] /\ c[2][1] /\ c[3][1]
    BY <2>6
  <2>. QED  BY <2>2, <2>7 DEF EventChecks, Sound
<1>6. /\ es[1].format = 2 => es[1].payload = CommitEvidence(p)
      /\ es[Len(es)].status = "revealed"
      /\ es[Len(es)].format = 2 => es[Len(es)].payload = RevealedEvidence(p)
  <2>2. PICK c : c = ProofChecks(p, es)
    OBVIOUS
  <2>3. DOMAIN c = 1 .. 3 /\ c[1][2] # "verified" /\ c[2][2] # "verified" /\ c[3][2] # "verified"
    BY <2>2 DEF ProofChecks
  <2>4. \A j \in 1 .. 3 : j \in {1, 2, 3}
    OBVIOUS
  <2>5. \A j \in 1 .. 3 : c[j][2] # "verified"
    BY <2>3, <2>4
  <2>6. \A j \in 1 .. 3 : c[j][1]
    <3>1. FirstFailure(c) = "verified"
      BY <1>4, <2>2
    <3>. QED  BY <2>3, <2>5, <3>1, AllChecked
  <2>7. c[1][1] /\ c[2][1] /\ c[3][1]
    BY <2>6
  <2>. QED  BY <2>2, <2>7 DEF ProofChecks
<1>. QED  BY <1>2, <1>5, <1>6

\* The hash of an event binds what it tells.
LEMMA SoundAgree ==
  ASSUME NEW e, NEW g, Sound(e), Sound(g), e.hash = g.hash
  PROVE  Agrees(e, g)
<1>1. EventHash(e) = EventHash(g)
  BY DEF Sound
<1>2. /\ EventHash(e)[1] = (IF e.format = 1 THEN "event/1" ELSE "event/2")
      /\ EventHash(e)[2] = e.sequence /\ EventHash(e)[3] = e.status
      /\ e.format # 1 => EventHash(e)[6] = e.payload
  BY DEF EventHash
<1>3. /\ EventHash(g)[1] = (IF g.format = 1 THEN "event/1" ELSE "event/2")
      /\ EventHash(g)[2] = g.sequence /\ EventHash(g)[3] = g.status
      /\ g.format # 1 => EventHash(g)[6] = g.payload
  BY DEF EventHash
<1>4. e.format \in {1, 2} /\ g.format \in {1, 2}
  BY DEF Sound
<1>5. PICK h : h = EventHash(e)
  OBVIOUS
<1>. QED  BY <1>1, <1>2, <1>3, <1>4, <1>5 DEF Agrees

------------------------------------------------------------------------------
(***************************************************************************)
(* Two changes.  Every row is compared with what the services once wrote:  *)
(* g and h are the events as they were appended, bands is the map of the   *)
(* reveal.  A commitment, a proof, an event's columns and an event's hash  *)
(* that have become another count one each, and there are at most as many  *)
(* of them as there were changes: too few to agree on another result.      *)
(***************************************************************************)
EventColumns == {"sequence", "status", "created", "format", "payload", "previous", "hash"}

Count(b) == IF b THEN 1 ELSE 0
Off(e, g) == Count(~Agrees(e, g)) + Count(e.hash # g.hash)

IsRow(p) == p = [f \in Fields |-> p[f]]
Same(p, q, fields) == \A f \in fields : p[f] = q[f]

\* The event of the commitment, which tells of it if it has a payload, and that of the result.
First(g) ==
  /\ Sound(g) /\ g.sequence = 0 /\ g.status = "committed"
  /\ g.format = 2 => Same(g.payload, committed, CommitFields)
Final(h) ==
  /\ Sound(h) /\ h.sequence = 1 /\ h.status = "revealed"
  /\ h.format = 2 => h.payload = RevealedEvidence(original)

\* Where the row p does not fit its seed and its map.
Damage(p, seed, bands) ==
  Count(p.commitment # Commitment(seed)) + Count(p.mapping # MappingDigest(bands))

\* What fits is what was committed.
Kept(p, seed, bands) ==
  /\ p.commitment = committed.commitment \/ p.commitment # Commitment(seed)
  /\ p.mapping = committed.mapping \/ p.mapping # MappingDigest(bands)

\* A proof that was committed and not yet revealed.
Awaits(g) ==
  /\ First(g) /\ (legacy => g.format = 1) /\ committed.version = "v1"
  /\ Len(events) = 1 => Count(~Same(proof, committed, CommitFields)) + Off(events[1], g) <= changes
  /\ Damage(proof, custody, configs[proof.config]) <= changes
  /\ changes <= 1 => Kept(proof, custody, configs[proof.config])

\* The columns x and y are not as they were revealed ("fingerprint" stands for none).
Near(x, y, bands) ==
  /\ Same(proof, original, Fields \ {x, y, "fingerprint"})
  /\ Count(x # "fingerprint") + Count(y # "fingerprint")
       + Damage(original, original.seed, bands) + Count(bands # configs[original.config]) <= changes

\* A proof that was revealed.
Settled(g, h, bands) ==
  /\ First(g) /\ Final(h) /\ (h.format = 1 => g.format = 1) /\ (legacy => h.format = 1)
  /\ original.version = "v1" /\ committed.version = "v1"
  /\ \A f \in DerivedFields : original[f] = Derivation(original, original.seed, bands)[f]
  /\ Len(events) = 1 => \E e \in {g, h} : 1 + Off(events[1], e) <= changes
  /\ Len(events) = 2 =>
       Count(~Same(original, committed, CommitFields)) + Count(proof # original)
         + Off(events[1], g) + Off(events[2], h) <= changes
  /\ \E x, y \in Fields : Near(x, y, bands)
  /\ changes <= 1 => Kept(original, original.seed, bands)

TwoInv ==
  /\ \A i \in DOMAIN events : DOMAIN events[i] = EventColumns
  /\ proof = NoRow => events = <<>>
  /\ proof # NoRow =>
       /\ IsRow(proof) /\ IsRow(original)
       /\ original.status # "revealed" => proof.outcome = None
       /\ original.status = "committed" => \E g : Awaits(g)
       /\ original.status = "revealed" => \E g, h, bands : Settled(g, h, bands)

LEMMA CountFacts == \A b : Count(b) \in {0, 1} /\ (Count(b) = 1 <=> b)
BY DEF Count

LEMMA OffFacts ==
  ASSUME NEW e, NEW g
  PROVE  /\ Off(e, g) \in 0 .. 2
         /\ Sound(e) /\ Sound(g) /\ ~Agrees(e, g) => Off(e, g) = 2
         /\ Sound(e) /\ Sound(g) /\ Off(e, g) <= 1 => Agrees(e, g)
<1>1. Off(e, g) \in 0 .. 2
  BY DEF Off, Count
<1>2. Sound(e) /\ Sound(g) /\ ~Agrees(e, g) => Off(e, g) = 2
  BY SoundAgree DEF Off, Count
<1>. QED  BY <1>1, <1>2

LEMMA OtherFacts ==
  ASSUME NEW e, DOMAIN e = EventColumns, NEW x \in OtherEvents(e)
  PROVE  /\ DOMAIN x = EventColumns
         /\ x.hash = e.hash \/ Same(x, e, EventColumns \ {"hash"})
<1>1. \/ \E v : x = [e EXCEPT !.hash = v]
      \/ \E v : x = [e EXCEPT !.sequence = v]
      \/ \E v : x = [e EXCEPT !.status = v]
      \/ \E v : x = [e EXCEPT !.created = v]
      \/ \E v : x = [e EXCEPT !.previous = v]
      \/ \E v : x = [e EXCEPT !.format = v]
      \/ \E v : x = [e EXCEPT !.payload = v]
  BY Zenon DEF OtherEvents, Hashed
<1>. QED  BY <1>1 DEF Same, EventColumns

LEMMA OffStep ==
  ASSUME NEW e, DOMAIN e = EventColumns, NEW x \in OtherEvents(e), NEW g
  PROVE  Off(x, g) <= Off(e, g) + 1
<1>1. CASE x.hash = e.hash
  BY <1>1 DEF Off, Count
<1>2. CASE Same(x, e, EventColumns \ {"hash"})
  <2>1. Agrees(x, g) <=> Agrees(e, g)
    BY <1>2 DEF Same, EventColumns, Agrees
  <2>. QED  BY <2>1 DEF Off, Count
<1>. QED  BY <1>1, <1>2, OtherFacts

\* Rows that agree in all columns are one row.
LEMMA DifferSomewhere ==
  ASSUME NEW p, NEW q, IsRow(p), IsRow(q), Same(p, q, Fields)
  PROVE  p = q
BY DEF IsRow, Same

Inputs == {"client", "nonce", "config", "session"}
Prize == {"normalized", "attempt", "reward_key", "reward_value"}

\* The same inputs, seed and map have the same result.
LEMMA SameResult ==
  ASSUME NEW p, NEW q, NEW a, NEW b,
         \A f \in DerivedFields : p[f] = Derivation(p, p.seed, a)[f],
         \A f \in DerivedFields : q[f] = Derivation(q, q.seed, b)[f],
         Same(p, q, Inputs), p.seed = q.seed, a = b
  PROVE  Same(p, q, DerivedFields)
<1>1. p.client = q.client /\ p.nonce = q.nonce /\ p.config = q.config /\ p.session = q.session
  BY DEF Same, Inputs
<1>2. Derivation(p, p.seed, a) = Derivation(q, p.seed, a)
  BY <1>1, SameDerivation
<1>3. Derivation(p, p.seed, a) = Derivation(q, q.seed, b)
  BY <1>2
<1>. QED  BY <1>3 DEF Same

\* The same digest has the same inputs, seed, map and attempt.
LEMMA SameDigest ==
  ASSUME NEW p, NEW q, NEW a, NEW b,
         \A f \in DerivedFields : p[f] = Derivation(p, p.seed, a)[f],
         \A f \in DerivedFields : q[f] = Derivation(q, q.seed, b)[f],
         p.raw = q.raw
  PROVE  Same(p, q, Inputs \cup DerivedFields \cup {"seed"}) /\ a = b
<1>1. PICK d, c : d = Derivation(p, p.seed, a) /\ c = Derivation(q, q.seed, b)
  OBVIOUS
<1>2. d.raw = Digest(p, p.seed, a, d.attempt) /\ c.raw = Digest(q, q.seed, b, c.attempt)
  BY <1>1 DEF Derivation
<1>3. d.raw = c.raw
  BY <1>1 DEF DerivedFields
<1>4. /\ p.client = q.client /\ p.nonce = q.nonce /\ p.config = q.config /\ p.session = q.session
      /\ p.seed = q.seed /\ MappingDigest(a) = MappingDigest(b)
  BY <1>2, <1>3 DEF Digest
<1>5. a = b
  BY <1>4 DEF MappingDigest
<1>6. Same(p, q, Inputs)
  BY <1>4 DEF Same, Inputs
<1>7. Same(p, q, DerivedFields)
  BY <1>4, <1>5, <1>6, SameResult
<1>. QED  BY <1>4, <1>5, <1>6, <1>7 DEF Same

\* The proof passes verify_daily_spin_proof.
Derives ==
  /\ proof.version = "v1" /\ proof.commitment = Commitment(proof.seed)
  /\ proof.mapping = MappingDigest(configs[proof.config])
  /\ \A f \in DerivedFields : proof[f] = Derivation(proof, proof.seed, configs[proof.config])[f]

LEMMA NearCounts ==
  ASSUME NEW x, NEW y, NEW bands, Near(x, y, bands), changes \in 0 .. 2
  PROVE  /\ Near(y, x, bands)
         /\ x # "fingerprint" /\ y # "fingerprint" =>
              changes = 2 /\ bands = configs[original.config]
                /\ original.commitment = Commitment(original.seed)
                /\ original.mapping = MappingDigest(bands)
         /\ changes <= 1 /\ x # "fingerprint" =>
              y = "fingerprint" /\ bands = configs[original.config]
                /\ original.commitment = Commitment(original.seed)
                /\ original.mapping = MappingDigest(bands)
         /\ changes <= 1 /\ ( \/ original.commitment # Commitment(original.seed)
                              \/ original.mapping # MappingDigest(bands) ) =>
              x = "fingerprint" /\ y = "fingerprint" /\ bands = configs[original.config]
<1>1. {x, y, "fingerprint"} = {y, x, "fingerprint"}
  OBVIOUS
<1>2. Near(y, x, bands)
  <2>1. Same(proof, original, Fields \ {y, x, "fingerprint"})
    BY <1>1 DEF Near
  <2>2. Damage(original, original.seed, bands) \in 0 .. 2
    BY CountFacts DEF Damage
  <2>. QED  BY <2>1, <2>2, CountFacts DEF Near
<1>3. PICK a, b, c, d, m :
        /\ a = Count(x # "fingerprint") /\ b = Count(y # "fingerprint")
        /\ c = Count(original.commitment # Commitment(original.seed))
        /\ d = Count(original.mapping # MappingDigest(bands))
        /\ m = Count(bands # configs[original.config])
  OBVIOUS
<1>4. /\ a \in {0, 1} /\ (a = 1 <=> x # "fingerprint")
      /\ b \in {0, 1} /\ (b = 1 <=> y # "fingerprint")
      /\ c \in {0, 1} /\ (c = 1 <=> original.commitment # Commitment(original.seed))
      /\ d \in {0, 1} /\ (d = 1 <=> original.mapping # MappingDigest(bands))
      /\ m \in {0, 1} /\ (m = 1 <=> bands # configs[original.config])
  BY <1>3, CountFacts
<1>5. a + b + (c + d) + m <= changes
  BY <1>3 DEF Near, Damage
<1>6. /\ a = 1 /\ b = 1 => changes = 2 /\ c = 0 /\ d = 0 /\ m = 0
      /\ changes <= 1 /\ a = 1 => b = 0 /\ c = 0 /\ d = 0 /\ m = 0
      /\ changes <= 1 /\ (c = 1 \/ d = 1) => a = 0 /\ b = 0 /\ m = 0
  BY ONLY <1>4, <1>5, changes \in 0 .. 2
<1>7. x # "fingerprint" /\ y # "fingerprint" =>
        changes = 2 /\ bands = configs[original.config]
          /\ original.commitment = Commitment(original.seed)
          /\ original.mapping = MappingDigest(bands)
  BY <1>4, <1>6
<1>8. changes <= 1 /\ x # "fingerprint" =>
        y = "fingerprint" /\ bands = configs[original.config]
          /\ original.commitment = Commitment(original.seed)
          /\ original.mapping = MappingDigest(bands)
  BY <1>4, <1>6
<1>9. changes <= 1 /\ ( \/ original.commitment # Commitment(original.seed)
                       \/ original.mapping # MappingDigest(bands) ) =>
        x = "fingerprint" /\ y = "fingerprint" /\ bands = configs[original.config]
  BY <1>4, <1>6
<1>. QED  BY ONLY <1>2, <1>7, <1>8, <1>9

\* A digest that was changed leaves too few changes to move the prize or the seed as well.
LEMMA DigestChanged ==
  ASSUME NEW x, NEW y, NEW bands, Near(x, y, bands), changes \in 0 .. 2, Derives, x = "raw",
         \A f \in DerivedFields : original[f] = Derivation(original, original.seed, bands)[f],
         proof.raw # original.raw
  PROVE  changes = 2 /\ Same(proof, original, Prize \cup {"seed"})
<1>1. \A f \in Fields \ {"raw", y, "fingerprint"} : proof[f] = original[f]
  BY DEF Near, Same
<1>2. /\ Inputs \subseteq Fields /\ Prize \subseteq Fields /\ {"seed", "commitment"} \subseteq Fields
      /\ "fingerprint" \notin Inputs \cup Prize \cup {"seed", "commitment"}
      /\ "raw" \notin Inputs \cup Prize \cup {"seed", "commitment"}
      /\ "raw" \in DerivedFields /\ Prize \subseteq DerivedFields
      /\ Prize \cap (Inputs \cup {"seed"}) = {} /\ "commitment" # "seed" /\ "config" \in Inputs
  BY DEF Inputs, Prize, Fields, RevealedFields, CommitFields, DerivedFields
<1>3. proof.seed = original.seed
  <2>. SUFFICES ASSUME proof.seed # original.seed PROVE FALSE
    OBVIOUS
  <2>1. y = "seed"
    BY <1>1, <1>2
  <2>2. original.commitment = Commitment(original.seed)
    BY <2>1, NearCounts
  <2>3. proof.commitment = original.commitment
    BY <1>1, <1>2, <2>1
  <2>. QED  BY <2>2, <2>3 DEF Derives, Commitment
<1>4. ASSUME Same(proof, original, Inputs), bands = configs[original.config] PROVE FALSE
  <2>1. configs[proof.config] = bands
    BY <1>2, <1>4 DEF Same
  <2>2. Same(proof, original, DerivedFields)
    BY <1>3, <1>4, <2>1, SameResult DEF Derives
  <2>. QED  BY <1>2, <2>2 DEF Same
<1>5. changes = 2
  <2>. SUFFICES ASSUME changes <= 1 PROVE FALSE
    OBVIOUS
  <2>1. y = "fingerprint" /\ bands = configs[original.config]
    BY NearCounts
  <2>2. Same(proof, original, Inputs)
    BY <1>1, <1>2, <2>1 DEF Same
  <2>. QED  BY <1>4, <2>1, <2>2
<1>6. ASSUME NEW f \in Prize, proof[f] # original[f] PROVE FALSE
  <2>1. y = f /\ f # "fingerprint"
    BY <1>1, <1>2, <1>6
  <2>2. bands = configs[original.config]
    BY <2>1, NearCounts
  <2>3. Same(proof, original, Inputs)
    BY <1>1, <1>2, <2>1 DEF Same
  <2>. QED  BY <1>4, <2>2, <2>3
<1>. QED  BY <1>3, <1>5, <1>6 DEF Same

\* What the derivation alone establishes, without a payload.
LEMMA DerivationShows ==
  ASSUME NEW g, NEW h, NEW bands, Settled(g, h, bands), changes \in 0 .. 2, Derives
  PROVE  /\ Same(proof, original, Prize \cup {"seed", "version"})
         /\ changes <= 1 => Same(proof, original, CommitFields \cup DerivedFields \cup {"client", "seed"})
<1>1. /\ \A f \in DerivedFields : original[f] = Derivation(original, original.seed, bands)[f]
      /\ proof.version = "v1" /\ original.version = "v1"
  BY DEF Settled, Derives
<1>2. PICK x \in Fields, y \in Fields : Near(x, y, bands)
  BY DEF Settled
<1>3. CASE proof.raw = original.raw
  <2>1. Same(proof, original, Inputs \cup DerivedFields \cup {"seed"}) /\ configs[proof.config] = bands
    BY <1>1, <1>3, SameDigest DEF Derives
  <2>2. Same(proof, original, Prize \cup {"seed", "version"})
    BY <1>1, <2>1 DEF Same, Prize, DerivedFields
  <2>3. ASSUME changes <= 1
        PROVE  proof.commitment = original.commitment /\ proof.mapping = original.mapping
    <3>1. CASE x = "fingerprint" /\ y = "fingerprint"
      BY <1>2, <3>1 DEF Near, Same, Fields, RevealedFields, CommitFields
    <3>2. CASE ~(x = "fingerprint" /\ y = "fingerprint")
      <4>1. original.commitment = Commitment(original.seed) /\ original.mapping = MappingDigest(bands)
        BY <1>2, <2>3, <3>2, NearCounts
      <4>2. proof.seed = original.seed
        BY <2>1 DEF Same
      <4>. QED  BY <2>1, <4>1, <4>2 DEF Derives
    <3>. QED  BY <3>1, <3>2
  <2>4. ASSUME changes <= 1
        PROVE  Same(proof, original, CommitFields \cup DerivedFields \cup {"client", "seed"})
    <3>1. /\ proof.version = original.version /\ proof.commitment = original.commitment
          /\ proof.nonce = original.nonce /\ proof.config = original.config
          /\ proof.session = original.session /\ proof.mapping = original.mapping
          /\ proof.client = original.client /\ proof.seed = original.seed
      BY <1>1, <2>1, <2>3, <2>4 DEF Same, Inputs
    <3>. QED  BY <2>1, <3>1 DEF Same, CommitFields
  <2>. QED  BY <2>2, <2>4
<1>4. CASE proof.raw # original.raw
  <2>1. x = "raw" \/ y = "raw"
    BY <1>2, <1>4 DEF Near, Same, Fields, RevealedFields, DerivedFields
  <2>2. changes = 2 /\ Same(proof, original, Prize \cup {"seed"})
    <3>1. CASE x = "raw"
      BY <1>1, <1>2, <1>4, <3>1, DigestChanged
    <3>2. CASE y = "raw"
      BY <1>1, <1>2, <1>4, <3>2, DigestChanged, NearCounts
    <3>. QED  BY <2>1, <3>1, <3>2
  <2>. QED  BY <1>1, <2>2 DEF Same
<1>. QED  BY <1>3, <1>4

\* A proof that verifies is as it was committed and revealed, as far as the evidence tells.
LEMMA TwoVerified ==
  ASSUME IInv, TwoInv, MaxChanges <= 2
  PROVE  VerifiedIsGenuine
<1>. SUFFICES ASSUME Verify("outcome") = "verified"
              PROVE  Same(proof, original, Established) /\ Same(proof, committed, Promised)
  BY DEF VerifiedIsGenuine, Same
<1>1. /\ proof # NoRow /\ proof.outcome = "outcome" /\ proof.status = "revealed"
      /\ VerifyDerivation(proof, configs[proof.config]) = "verified"
      /\ VerifyEventChain(proof, events) = "verified"
  <2>1. "not_found" # "verified" /\ "invalid_transition" # "verified"
    OBVIOUS
  <2>. QED  BY <2>1, Zenon DEF Verify
<1>2. changes \in 0 .. 2 /\ Len(events) \in Nat /\ Len(events) <= 2
  BY <1>1, EvidenceBounds DEF IInv, Types, OneEnd
<1>3. PICK g, h, bands : Settled(g, h, bands)
  <2>1. None # "outcome"
    BY NullAssumption
  <2>. QED  BY <1>1, <2>1 DEF TwoInv
<1>4. /\ Len(events) >= 1
      /\ \A i \in 1 .. Len(events) : Sound(events[i]) /\ events[i].sequence = i - 1
      /\ events[1].format = 2 => events[1].payload = CommitEvidence(proof)
      /\ events[Len(events)].status = "revealed"
      /\ events[Len(events)].format = 2 => events[Len(events)].payload = RevealedEvidence(proof)
  <2>1. PICK S : events \in Seq(S)
    BY DEF IInv, Types
  <2>. QED  BY <1>1, <2>1, VerifiedChain
<1>5. Sound(g) /\ Sound(h)
  BY <1>3 DEF Settled, First, Final
<1>6. Len(events) = 2
  <2>0. \A k \in Nat : k <= 2 /\ k >= 1 => k = 1 \/ k = 2
    OBVIOUS
  <2>. SUFFICES ASSUME Len(events) = 1 PROVE FALSE
    BY <1>2, <1>4, <2>0
  <2>1. PICK e \in {g, h} : 1 + Off(events[1], e) <= changes
    BY <1>3 DEF Settled
  <2>2. ~Agrees(events[1], e)
    BY <1>3, <1>4 DEF Settled, First, Final, Agrees
  <2>3. Off(events[1], e) = 2
    BY <1>4, <1>5, <2>2, OffFacts
  <2>. QED  BY <1>2, <2>1, <2>3
<1>7. /\ Sound(events[1]) /\ Sound(events[2])
      /\ events[2].format = 2 => events[2].payload = RevealedEvidence(proof)
  BY <1>4, <1>6
<1>8. Derives
  BY <1>1, VerifiedDerivation DEF Derives
<1>9. /\ Same(proof, original, Prize \cup {"seed", "version"})
      /\ changes <= 1 => Same(proof, original, CommitFields \cup DerivedFields \cup {"client", "seed"})
  BY <1>2, <1>3, <1>8, DerivationShows
<1>10. /\ Off(events[1], g) <= 1 \/ (proof = original /\ Same(original, committed, CommitFields))
       /\ Off(events[2], h) <= 1 \/ proof = original
  <2>1. Count(~Same(original, committed, CommitFields)) + Count(proof # original)
          + Off(events[1], g) + Off(events[2], h) <= 2
    BY <1>2, <1>3, <1>6, CountFacts, OffFacts DEF Settled
  <2>2. PICK a, b, c, d :
          /\ a = Count(~Same(original, committed, CommitFields)) /\ b = Count(proof # original)
          /\ c = Off(events[1], g) /\ d = Off(events[2], h)
    OBVIOUS
  <2>3. /\ a \in {0, 1} /\ (a = 1 <=> ~Same(original, committed, CommitFields))
        /\ b \in {0, 1} /\ (b = 1 <=> proof # original)
        /\ c \in 0 .. 2 /\ d \in 0 .. 2 /\ a + b + c + d <= 2
    BY <2>1, <2>2, CountFacts, OffFacts
  <2>4. (c <= 1 \/ (a = 0 /\ b = 0)) /\ (d <= 1 \/ b = 0)
    BY ONLY <2>3
  <2>. QED  BY <2>2, <2>3, <2>4
<1>11. Same(proof, original, Established)
  <2>1. CASE events[2].format = 2
    <3>1. ASSUME proof # original PROVE Same(proof, original, RevealedFields)
      <4>1. Agrees(events[2], h)
        BY <1>5, <1>7, <1>10, <3>1, OffFacts
      <4>2. RevealedEvidence(proof) = RevealedEvidence(original)
        BY <1>3, <1>7, <2>1, <4>1 DEF Agrees, Settled, Final
      <4>3. \A f \in RevealedFields :
              RevealedEvidence(proof)[f] = proof[f] /\ RevealedEvidence(original)[f] = original[f]
        BY DEF RevealedEvidence, Evidence
      <4>. QED  BY <4>2, <4>3 DEF Same
    <3>2. Same(proof, original, RevealedFields)
      BY <3>1 DEF Same
    <3>3. Established = RevealedFields
      BY <1>6, <2>1 DEF Established
    <3>. QED  BY <3>2, <3>3
  <2>2. CASE events[2].format # 2
    <3>1. changes <= 1 => Established = CommitFields \cup DerivedFields \cup {"client", "seed"}
      BY <1>6, <2>2 DEF Established
    <3>2. ~(changes <= 1) => Established = Prize \cup {"seed", "version"}
      BY <1>6, <2>2 DEF Established, Prize
    <3>. QED  BY <1>9, <3>1, <3>2
  <2>. QED  BY <2>1, <2>2
<1>12. Same(proof, committed, Promised)
  <2>0. proof.version = committed.version
    BY <1>3, <1>8 DEF Settled, Derives
  <2>1. CASE events[1].format = 2
    <3>1. ASSUME Off(events[1], g) <= 1 PROVE Same(proof, committed, CommitFields)
      <4>1. Agrees(events[1], g)
        BY <1>5, <1>7, <3>1, OffFacts
      <4>2. Same(CommitEvidence(proof), committed, CommitFields)
        BY <1>3, <1>4, <2>1, <4>1 DEF Agrees, Settled, First
      <4>3. \A f \in CommitFields : CommitEvidence(proof)[f] = proof[f]
        BY DEF CommitEvidence, Evidence
      <4>. QED  BY <4>2, <4>3 DEF Same
    <3>. QED  BY <1>10, <2>1, <3>1 DEF Promised
  <2>2. CASE events[1].format # 2 /\ changes <= 1
    <3>1. /\ proof.commitment = original.commitment /\ proof.mapping = original.mapping
          /\ proof.seed = original.seed /\ proof.config = original.config
      BY <1>9, <2>2 DEF Same, CommitFields
    <3>2. Kept(original, original.seed, bands)
      BY <1>3, <2>2 DEF Settled
    <3>3. proof.commitment = committed.commitment
      BY <1>8, <3>1, <3>2 DEF Kept, Derives
    <3>4. original.mapping # MappingDigest(bands) => bands = configs[original.config]
      BY <1>2, <1>3, <2>2, NearCounts DEF Settled
    <3>5. proof.mapping = committed.mapping
      BY <1>8, <3>1, <3>2, <3>4 DEF Kept, Derives
    <3>. QED  BY <2>0, <2>2, <3>3, <3>5 DEF Promised, Same
  <2>3. CASE events[1].format # 2 /\ ~(changes <= 1)
    BY <2>0, <2>3 DEF Promised, Same
  <2>. QED  BY <2>1, <2>2, <2>3
<1>. QED  BY <1>11, <1>12

LEMMA TwoInit == Init => TwoInv
<1>. SUFFICES ASSUME Init PROVE TwoInv
  OBVIOUS
<1>1. DOMAIN events = {}
  BY DEF Init
<1>. QED  BY <1>1 DEF Init, TwoInv

\* The event that the services append.
LEMMA Appends ==
  ASSUME NEW n, NEW status, NEW payload, NEW now, NEW e, e = NewEvent(n, status, payload, now),
         legacy \in BOOLEAN
  PROVE  /\ DOMAIN e = EventColumns /\ Sound(e)
         /\ e.sequence = n /\ e.status = status
         /\ e.format = (IF legacy THEN 1 ELSE 2)
         /\ e.payload = (IF legacy THEN None ELSE payload)
<1>1. DOMAIN e = EventColumns
  BY DEF NewEvent, Hashed, EventColumns
<1>. QED  BY <1>1, NewEventFacts DEF Sound

LEMMA CommitTwo ==
  ASSUME IInv, TwoInv, NEW seed \in Seeds, NEW c \in SpinConfigs, Commit(seed, c)
  PROVE  TwoInv'
<1>0. PICK e : e = NewEvent(0, "committed", CommitEvidence(proof'), 0)
  OBVIOUS
<1>1. /\ proof' = Committed(seed, c, configs[c]) /\ original' = proof' /\ custody' = seed
      /\ events' = <<e>> /\ legacy' = legacy /\ changes' = changes /\ configs' = configs
      /\ committed' = CommitEvidence(proof')
  BY <1>0 DEF Commit
<1>2. legacy \in BOOLEAN /\ changes \in Nat
  BY DEF IInv, Types
<1>3. /\ IsRow(proof') /\ proof'.status = "committed" /\ proof'.outcome = None
      /\ proof'.version = "v1" /\ proof'.commitment = Commitment(seed)
      /\ proof'.config = c /\ proof'.mapping = MappingDigest(configs[c])
  BY <1>1 DEF Committed, IsRow, Fields, RevealedFields, CommitFields, DerivedFields
<1>4. Same(proof', committed', CommitFields)
  BY <1>1 DEF Same, CommitEvidence, Evidence
<1>5. /\ DOMAIN e = EventColumns /\ First(e)' /\ e.format = (IF legacy THEN 1 ELSE 2)
  <2>1. PICK payload : payload = CommitEvidence(proof')
    OBVIOUS
  <2>2. e = NewEvent(0, "committed", payload, 0)
    BY <1>0, <2>1
  <2>3. /\ DOMAIN e = EventColumns /\ Sound(e) /\ e.sequence = 0 /\ e.status = "committed"
        /\ e.format = (IF legacy THEN 1 ELSE 2) /\ e.payload = (IF legacy THEN None ELSE payload)
    BY <1>2, <2>2, Appends
  <2>4. Same(payload, committed', CommitFields)
    BY <1>1, <2>1 DEF Same
  <2>5. e.format = 2 => e.payload = payload
    BY <1>2, <2>3
  <2>. QED  BY <2>3, <2>4, <2>5 DEF First
<1>6. Len(events') = 1 /\ events'[1] = e /\ DOMAIN events' = {1}
  BY <1>1
<1>7. Awaits(e)'
  <2>1. committed'.version = "v1" /\ committed'.commitment = proof'.commitment
        /\ committed'.mapping = proof'.mapping
    BY <1>3, <1>4 DEF Same, CommitFields
  <2>2. Count(~Same(proof', committed', CommitFields)) + Off(events'[1], e) <= changes'
    <3>1. Off(events'[1], e) = 0 /\ Count(~Same(proof', committed', CommitFields)) = 0
      BY <1>4, <1>6 DEF Off, Count, Agrees
    <3>. QED  BY <1>1, <1>2, <3>1
  <2>3. Damage(proof', custody', configs'[proof'.config]) <= changes'
    <3>1. Damage(proof', custody', configs'[proof'.config]) = 0
      BY <1>1, <1>3 DEF Damage, Count
    <3>. QED  BY <1>1, <1>2, <3>1
  <2>4. Kept(proof, custody, configs[proof.config])'
    BY <2>1 DEF Kept
  <2>. QED  BY <1>1, <1>2, <1>5, <2>1, <2>2, <2>3, <2>4 DEF Awaits
<1>8. \A i \in DOMAIN events' : DOMAIN events'[i] = EventColumns
  BY <1>5, <1>6
<1>9. proof' # NoRow
  <2>1. DOMAIN proof' = Fields
    BY <1>3 DEF IsRow
  <2>. QED  BY <2>1, RowHasColumns
<1>. QED  BY <1>1, <1>3, <1>7, <1>8, <1>9 DEF TwoInv

\* evaluate_fairness leaves a row.
LEMMA RevealedIsRow ==
  ASSUME IsRow(proof), DOMAIN proof = Fields, NEW client, NEW now, Evaluate(client, now)
  PROVE  IsRow(proof')
<1>. DEFINE x == [proof EXCEPT !.client = client]
            y(d, p) == [p EXCEPT
              !.status = "revealed", !.seed = custody, !.outcome = "outcome",
              !.raw = d.raw, !.normalized = d.normalized, !.attempt = d.attempt,
              !.reward_key = d.reward_key, !.reward_value = d.reward_value,
              !.fingerprint = IF legacy THEN None ELSE Fingerprint(client),
              !.evaluated = now, !.revealed = now]
<1>1. proof' = y(Derivation(x, custody, configs[proof.config]), x)
  BY DEF Evaluate
<1>2. IsRow(x) /\ DOMAIN x = Fields
  BY DEF IsRow
<1>3. ASSUME NEW d, NEW p, DOMAIN p = Fields PROVE IsRow(y(d, p))
  <2>1. y(d, p) = [f \in DOMAIN p |-> y(d, p)[f]]
    OBVIOUS
  <2>. HIDE DEF y
  <2>. QED  BY <1>3, <2>1 DEF IsRow
<1>. HIDE DEF x, y
<1>. QED  BY <1>1, <1>2, <1>3

LEMMA EvaluateTwo ==
  ASSUME IInv, TwoInv, MaxChanges <= 2,
         NEW client \in ClientSeeds, NEW now \in Times, Evaluate(client, now)
  PROVE  TwoInv'
<1>0. PICK h, bands :
        h = NewEvent(1, "revealed", RevealedEvidence(proof'), now) /\ bands = configs[proof.config]
  OBVIOUS
<1>1. /\ SessionActive /\ events # <<>> /\ proof.status = "committed" /\ proof.version = "v1"
      /\ legacy' = legacy /\ changes' = changes /\ configs' = configs /\ committed' = committed
      /\ events' = Append(events, h)
  BY <1>0 DEF Evaluate
<1>2. /\ DOMAIN proof' = Fields /\ proof' # NoRow /\ proof # NoRow
      /\ \A f \in CommitFields : proof'[f] = proof[f]
      /\ proof'.status = "revealed" /\ original' = proof' /\ proof'.seed = custody
      /\ \A f \in DerivedFields : proof'[f] = Derivation(proof', custody, bands)[f]
  BY <1>0, EvaluateFacts
<1>3. /\ \E S : events' \in Seq(S)
      /\ Len(events) = 1 /\ Len(events') = 2 /\ events'[1] = events[1] /\ events'[2] = h
  <2>1. PICK payload : payload = RevealedEvidence(proof')
    OBVIOUS
  <2>2. events' = Append(events, NewEvent(1, "revealed", payload, now))
    BY <1>0, <1>1, <2>1
  <2>3. h = NewEvent(1, "revealed", payload, now)
    BY <1>0, <2>1
  <2>. QED  BY <1>1, <2>2, <2>3, EndAppended
<1>4. legacy \in BOOLEAN /\ changes \in 0 .. 2
  BY EvidenceBounds DEF IInv, Types
<1>5. DOMAIN h = EventColumns /\ Final(h)' /\ h.format = (IF legacy THEN 1 ELSE 2)
  <2>1. PICK payload : payload = RevealedEvidence(proof')
    OBVIOUS
  <2>2. h = NewEvent(1, "revealed", payload, now)
    BY <1>0, <2>1
  <2>3. /\ DOMAIN h = EventColumns /\ Sound(h) /\ h.sequence = 1 /\ h.status = "revealed"
        /\ h.format = (IF legacy THEN 1 ELSE 2) /\ h.payload = (IF legacy THEN None ELSE payload)
    BY <1>4, <2>2, Appends
  <2>4. h.format = 2 => h.payload = RevealedEvidence(original')
    BY <1>2, <1>4, <2>1, <2>3
  <2>. QED  BY <2>3, <2>4 DEF Final
<1>6. PICK g : Awaits(g)
  BY <1>1, <1>2 DEF TwoInv, SessionActive
<1>7. IsRow(proof')
  <2>1. IsRow(proof) /\ DOMAIN proof = Fields
    BY <1>2 DEF TwoInv, IInv, Types
  <2>. QED  BY <2>1, RevealedIsRow
<1>8. /\ original'.commitment = proof.commitment /\ original'.mapping = proof.mapping
      /\ original'.config = proof.config /\ original'.version = "v1" /\ original'.seed = custody
  BY <1>1, <1>2 DEF CommitFields
<1>9. Settled(g, h, bands)'
  <2>1. First(g)' /\ (h.format = 1 => g.format = 1) /\ (legacy => h.format = 1)
        /\ committed.version = "v1"
    BY <1>1, <1>4, <1>5, <1>6 DEF Awaits, First
  <2>2. Count(~Same(original', committed', CommitFields)) + Count(proof' # original')
          + Off(events'[1], g) + Off(events'[2], h) <= changes'
    <3>1. Same(original', committed', CommitFields) <=> Same(proof, committed, CommitFields)
      BY <1>1, <1>2 DEF Same
    <3>2. Count(~Same(proof, committed, CommitFields)) + Off(events[1], g) <= changes
      BY <1>3, <1>6 DEF Awaits
    <3>3. Count(proof' # original') = 0 /\ Off(events'[2], h) = 0
      BY <1>2, <1>3 DEF Count, Off, Agrees
    <3>4. Count(~Same(original', committed', CommitFields)) = Count(~Same(proof, committed, CommitFields))
      BY <3>1 DEF Count
    <3>. QED  BY <1>1, <1>3, <1>4, <3>2, <3>3, <3>4, CountFacts, OffFacts
  <2>3. Near("fingerprint", "fingerprint", bands)'
    <3>1. Damage(original', original'.seed, bands) = Damage(proof, custody, bands)
      BY <1>8 DEF Damage
    <3>2. Damage(proof, custody, bands) <= changes
      BY <1>0, <1>6 DEF Awaits
    <3>3. Damage(proof, custody, bands) \in 0 .. 2
      BY CountFacts DEF Damage
    <3>4. Count(bands # configs'[original'.config]) = 0 /\ Count("fingerprint" # "fingerprint") = 0
      BY <1>0, <1>1, <1>8 DEF Count
    <3>. QED  BY <1>1, <1>2, <1>4, <3>1, <3>2, <3>3, <3>4 DEF Near, Same
  <2>4. changes' <= 1 => Kept(original, original.seed, bands)'
    <3>1. changes <= 1 => Kept(proof, custody, bands)
      BY <1>0, <1>6 DEF Awaits
    <3>. QED  BY <1>1, <1>8, <3>1 DEF Kept
  <2>5. \A f \in DerivedFields : original'[f] = Derivation(original', original'.seed, bands)[f]
    BY <1>2
  <2>6. \E x, y \in Fields : Near(x, y, bands)'
    BY <2>3 DEF Fields, RevealedFields
  <2>. QED  BY <1>1, <1>3, <1>5, <1>8, <2>1, <2>2, <2>4, <2>5, <2>6 DEF Settled
<1>10. \A i \in DOMAIN events' : DOMAIN events'[i] = EventColumns
  <2>1. DOMAIN events' = 1 .. 2 /\ 1 \in DOMAIN events
    BY <1>3, <1>1
  <2>2. DOMAIN events[1] = EventColumns
    BY <2>1 DEF TwoInv
  <2>3. \A i \in 1 .. 2 : i = 1 \/ i = 2
    OBVIOUS
  <2>. QED  BY <1>3, <1>5, <2>1, <2>2, <2>3
<1>11. \E x, y, z : Settled(x, y, z)'
  BY <1>9
<1>. QED  BY <1>2, <1>7, <1>10, <1>11 DEF TwoInv

\* end_committed_fairness_proof: a proof that ended without a result has no outcome.
LEMMA EndTwo ==
  ASSUME IInv, TwoInv, NEW status \in Ended, NEW now \in Times, End(status, now)
  PROVE  TwoInv'
<1>0. PICK n, payload, e :
        /\ e = NewEvent(n, status, payload, now)
        /\ events' = Append(events, NewEvent(n, status, payload, now))
  BY DEF End
<1>1. /\ SessionActive /\ events # <<>>
      /\ proof' = [proof EXCEPT !.status = status] /\ original' = [original EXCEPT !.status = status]
  BY DEF End
<1>2. /\ proof # NoRow /\ DOMAIN proof = Fields /\ DOMAIN original = Fields
      /\ original.status = "committed" /\ legacy \in BOOLEAN
  BY <1>1 DEF SessionActive, IInv, Types
<1>3. /\ Len(events) = 1 /\ Len(events') = 2 /\ events'[1] = events[1] /\ events'[2] = e
      /\ \E S : events' \in Seq(S)
  BY <1>0, <1>1, EndAppended
<1>4. DOMAIN e = EventColumns
  BY <1>0, <1>2, Appends
<1>5. \A i \in DOMAIN events' : DOMAIN events'[i] = EventColumns
  <2>1. DOMAIN events' = 1 .. 2 /\ 1 \in DOMAIN events
    BY <1>1, <1>3
  <2>2. DOMAIN events[1] = EventColumns
    BY <2>1 DEF TwoInv
  <2>3. \A i \in 1 .. 2 : i = 1 \/ i = 2
    OBVIOUS
  <2>. QED  BY <1>3, <1>4, <2>1, <2>2, <2>3
<1>6. /\ IsRow(proof') /\ IsRow(original') /\ DOMAIN proof' = Fields
      /\ original'.status = status /\ proof'.outcome = proof.outcome
  BY <1>1, <1>2 DEF TwoInv, IsRow, Fields, RevealedFields
<1>7. proof' # NoRow /\ proof.outcome = None
  BY <1>2, <1>6, RowHasColumns DEF TwoInv
<1>. QED  BY <1>5, <1>6, <1>7 DEF TwoInv, Ended

LEMMA MarkedIsRow ==
  ASSUME NEW p, IsRow(p)
  PROVE  IsRow(Marked(p))
BY DEF IsRow, Marked

\* Migration 0012 marks the rows that are compared alike.
LEMMA MigrateTwo ==
  ASSUME IInv, TwoInv, Migrate
  PROVE  TwoInv'
<1>1. /\ legacy /\ ~legacy' /\ proof' = Marked(proof) /\ original' = Marked(original)
      /\ events' = events /\ changes' = changes /\ configs' = configs
      /\ custody' = custody /\ committed' = committed
  BY DEF Migrate
<1>2. CASE proof = NoRow
  BY <1>1, <1>2 DEF TwoInv, Marked
<1>3. CASE proof # NoRow
  <2>1. /\ DOMAIN proof = Fields /\ DOMAIN original = Fields /\ IsRow(proof) /\ IsRow(original)
        /\ changes \in Nat
    BY <1>3 DEF IInv, Types, TwoInv
  <2>2. /\ DOMAIN proof' = Fields /\ DOMAIN original' = Fields
        /\ \A f \in Fields \ {"fingerprint"} : proof'[f] = proof[f] /\ original'[f] = original[f]
        /\ original.status # "revealed" => original' = original
    BY <1>1, <2>1, MarkedFacts
  <2>3. IsRow(proof') /\ IsRow(original') /\ proof' # NoRow
    BY <1>1, <2>1, <2>2, MarkedIsRow, RowHasColumns
  <2>4. /\ original'.status = original.status /\ proof'.outcome = proof.outcome
        /\ CommitFields \cup DerivedFields \cup Inputs \cup {"seed"} \subseteq Fields \ {"fingerprint"}
    BY <2>2 DEF Fields, RevealedFields, CommitFields, DerivedFields, Inputs
  <2>5. \A g : First(g)' <=> First(g)
    BY <1>1 DEF First
  <2>6. /\ Same(proof', committed, CommitFields) <=> Same(proof, committed, CommitFields)
        /\ Same(original', committed, CommitFields) <=> Same(original, committed, CommitFields)
        /\ proof'.commitment = proof.commitment /\ proof'.mapping = proof.mapping
        /\ proof'.config = proof.config
        /\ original'.commitment = original.commitment /\ original'.mapping = original.mapping
        /\ original'.config = original.config /\ original'.version = original.version
        /\ original'.seed = original.seed
    BY <2>2, <2>4 DEF Same, CommitFields
  <2>7. ASSUME NEW g, Awaits(g) PROVE Awaits(g)'
    <3>1. Damage(proof', custody', configs'[proof'.config]) = Damage(proof, custody, configs[proof.config])
      BY <1>1, <2>6 DEF Damage
    <3>2. Kept(proof, custody, configs[proof.config])' <=> Kept(proof, custody, configs[proof.config])
      BY <1>1, <2>6 DEF Kept
    <3>. QED  BY <1>1, <2>5, <2>6, <2>7, <3>1, <3>2 DEF Awaits, Kept, Count
  <2>8. ASSUME NEW g, NEW h, NEW bands, Settled(g, h, bands) PROVE Settled(g, h, bands)'
    <3>1. First(g) /\ Final(h) /\ h.format = 1 /\ g.format = 1
      BY <1>1, <2>8 DEF Settled
    <3>2. First(g)' /\ Final(h)'
      BY <2>5, <3>1 DEF Final
    <3>3. \A f \in DerivedFields : original'[f] = Derivation(original', original'.seed, bands)[f]
      <4>1. Derivation(original', original.seed, bands) = Derivation(original, original.seed, bands)
        <5>1. original'.client = original.client /\ original'.nonce = original.nonce
              /\ original'.config = original.config /\ original'.session = original.session
          BY <2>2, <2>4 DEF Inputs
        <5>2. PICK q : q = original'
          OBVIOUS
        <5>3. Derivation(q, original.seed, bands) = Derivation(original, original.seed, bands)
          BY <5>1, <5>2, SameDerivation
        <5>. QED  BY <5>2, <5>3
      <4>. QED  BY <2>2, <2>4, <2>6, <2>8, <4>1 DEF Settled
    <3>4. Count(proof' # original') \in {0, 1} /\ Count(proof' # original') <= Count(proof # original)
      BY <1>1 DEF Count
    <3>5. Len(events') = 2 =>
            Count(~Same(original', committed', CommitFields)) + Count(proof' # original')
              + Off(events'[1], g) + Off(events'[2], h) <= changes'
      <4>1. Len(events) = 2 =>
              Count(~Same(original, committed, CommitFields)) + Count(proof # original)
                + Off(events[1], g) + Off(events[2], h) <= changes
        BY <2>8 DEF Settled
      <4>2. Count(~Same(original', committed, CommitFields)) = Count(~Same(original, committed, CommitFields))
        BY <2>6 DEF Count
      <4>. QED  BY <1>1, <2>1, <3>4, <4>1, <4>2, CountFacts, OffFacts
    <3>6. PICK x \in Fields, y \in Fields : Near(x, y, bands)
      BY <2>8 DEF Settled
    <3>7. Near(x, y, bands)'
      <4>1. Damage(original', original'.seed, bands) = Damage(original, original.seed, bands)
        BY <2>6 DEF Damage
      <4>2. Same(proof', original', Fields \ {x, y, "fingerprint"})
        BY <2>2, <3>6 DEF Near, Same
      <4>. QED  BY <1>1, <2>6, <3>6, <4>1, <4>2 DEF Near
    <3>8. changes' <= 1 => Kept(original, original.seed, bands)'
      BY <1>1, <2>6, <2>8 DEF Settled, Kept
    <3>9. Len(events') = 1 => \E e \in {g, h} : 1 + Off(events'[1], e) <= changes'
      BY <1>1, <2>8 DEF Settled
    <3>10. original'.version = "v1" /\ committed'.version = "v1"
      BY <1>1, <2>6, <2>8 DEF Settled
    <3>. QED  BY <1>1, <3>1, <3>2, <3>3, <3>5, <3>6, <3>7, <3>8, <3>9, <3>10 DEF Settled
  <2>9. \A i \in DOMAIN events' : DOMAIN events'[i] = EventColumns
    BY <1>1 DEF TwoInv
  <2>10. original'.status = "committed" => \E g : Awaits(g)'
    BY <1>3, <2>4, <2>7 DEF TwoInv
  <2>11. original'.status = "revealed" => \E g, h, bands : Settled(g, h, bands)'
    BY <1>3, <2>4, <2>8 DEF TwoInv
  <2>12. original'.status # "revealed" => proof'.outcome = None
    BY <1>3, <2>4 DEF TwoInv
  <2>. QED  BY <2>3, <2>9, <2>10, <2>11, <2>12 DEF TwoInv
<1>. QED  BY <1>2, <1>3

\* A change is one more.
LEMMA ChangeFacts ==
  ASSUME IInv, MaxChanges <= 2, Corruption
  PROVE  /\ changes \in {0, 1} /\ changes' = changes + 1
         /\ original' = original /\ committed' = committed /\ legacy' = legacy
         /\ \A g : First(g)' <=> First(g)
         /\ \A h : Final(h)' <=> Final(h)
<1>1. /\ changes \in Nat /\ changes < 2 /\ changes' = changes + 1
      /\ original' = original /\ committed' = committed /\ legacy' = legacy
  BY EvidenceBounds DEF IInv, Types, Corruption
<1>2. /\ \A g : First(g)' <=> First(g)
      /\ \A h : Final(h)' <=> Final(h)
  BY <1>1 DEF First, Final
<1>. QED  BY <1>1, <1>2

\* One column of the proof, or a map, or the custody: at most one more place does not fit,
\* and the first one shows.
LEMMA DamageStep ==
  ASSUME NEW p, NEW q, NEW s, NEW t, NEW a, NEW b, changes \in {0, 1},
         Damage(p, s, a) <= changes, changes <= 1 => Kept(p, s, a),
         \/ q.commitment = p.commitment /\ t = s
         \/ q.mapping = p.mapping /\ b = a,
         t = s \/ q.commitment = p.commitment,
         b = a \/ q.mapping = p.mapping
  PROVE  /\ Damage(q, t, b) <= changes + 1
         /\ changes + 1 <= 1 => Kept(q, t, b)
<1>1. Damage(q, t, b) <= changes + 1
  <2>1. CASE q.commitment = p.commitment /\ t = s
    BY <2>1, CountFacts DEF Damage
  <2>2. CASE q.mapping = p.mapping /\ b = a
    BY <2>2, CountFacts DEF Damage
  <2>. QED  BY <2>1, <2>2
<1>2. ASSUME changes = 0 PROVE Kept(q, t, b)
  <2>1. p.commitment = Commitment(s) /\ p.mapping = MappingDigest(a)
    BY <1>2 DEF Damage, Count
  <2>2. p.commitment = committed.commitment /\ p.mapping = committed.mapping
    BY <1>2, <2>1 DEF Kept
  <2>. QED  BY <2>1, <2>2 DEF Kept
<1>. QED  BY <1>1, <1>2

\* One column of the proof.
LEMMA ProofTwo ==
  ASSUME IInv, TwoInv, MaxChanges <= 2, NEW f \in Fields, CorruptProof(f)
  PROVE  TwoInv'
<1>1. PICK v : proof' = [proof EXCEPT ![f] = v]
  BY DEF CorruptProof
<1>2. /\ proof # NoRow /\ proof[f] # None /\ Corruption
      /\ configs' = configs /\ events' = events /\ custody' = custody
  BY DEF CorruptProof
<1>3. /\ changes \in {0, 1} /\ changes' = changes + 1
      /\ original' = original /\ committed' = committed /\ legacy' = legacy
      /\ \A g : First(g)' <=> First(g)
      /\ \A h : Final(h)' <=> Final(h)
  BY <1>2, ChangeFacts
<1>4. IsRow(proof) /\ DOMAIN proof = Fields
  BY <1>2 DEF TwoInv, IInv, Types
<1>5. IsRow(proof') /\ DOMAIN proof' = Fields /\ \A x \in Fields \ {f} : proof'[x] = proof[x]
  BY <1>1, <1>4 DEF IsRow
<1>6. proof' # NoRow
  BY <1>5, RowHasColumns
<1>7. ASSUME original.status # "revealed" PROVE proof'.outcome = None
  <2>1. proof.outcome = None /\ f # "outcome"
    BY <1>2, <1>7 DEF TwoInv
  <2>2. "outcome" \in Fields \ {f}
    BY <2>1 DEF Fields, RevealedFields
  <2>. QED  BY <1>5, <2>1, <2>2
<1>8. ASSUME NEW g, Awaits(g) PROVE Awaits(g)'
  <2>1. Len(events') = 1 =>
          Count(~Same(proof', committed', CommitFields)) + Off(events'[1], g) <= changes'
    <3>1. Len(events) = 1 =>
            Count(~Same(proof, committed, CommitFields)) + Off(events[1], g) <= changes
      BY <1>8 DEF Awaits
    <3>. QED  BY <1>2, <1>3, <3>1, CountFacts, OffFacts
  <2>2. /\ Damage(proof', custody, configs[proof'.config]) <= changes + 1
        /\ changes + 1 <= 1 => Kept(proof', custody, configs[proof'.config])
    <3>1. {"commitment", "mapping", "config"} \subseteq Fields
      BY DEF Fields, RevealedFields, CommitFields
    <3>2. /\ f # "commitment" => proof'.commitment = proof.commitment
          /\ f # "mapping" => proof'.mapping = proof.mapping
          /\ f # "config" => proof'.config = proof.config
      BY <1>5, <3>1
    <3>3. PICK q : q = proof'
      OBVIOUS
    <3>4. \/ q.commitment = proof.commitment
          \/ q.mapping = proof.mapping /\ configs[q.config] = configs[proof.config]
      BY <3>2, <3>3
    <3>5. configs[q.config] = configs[proof.config] \/ q.mapping = proof.mapping
      BY <3>2, <3>3
    <3>6. /\ Damage(proof, custody, configs[proof.config]) <= changes
          /\ changes <= 1 => Kept(proof, custody, configs[proof.config])
      BY <1>8 DEF Awaits
    <3>7. /\ Damage(q, custody, configs[q.config]) <= changes + 1
          /\ changes + 1 <= 1 => Kept(q, custody, configs[q.config])
      BY <1>3, <3>4, <3>5, <3>6, DamageStep
    <3>. QED  BY <3>3, <3>7
  <2>3. /\ Damage(proof', custody', configs'[proof'.config]) <= changes'
        /\ changes' <= 1 => Kept(proof, custody, configs[proof.config])'
    BY <1>2, <1>3, <2>2 DEF Kept
  <2>. QED  BY <1>3, <1>8, <2>1, <2>3 DEF Awaits
<1>9. ASSUME NEW g, NEW h, NEW bands, Settled(g, h, bands) PROVE Settled(g, h, bands)'
  <2>1. Len(events') = 1 => \E e \in {g, h} : 1 + Off(events'[1], e) <= changes'
    BY <1>2, <1>3, <1>9, OffFacts DEF Settled
  <2>2. Len(events') = 2 =>
          Count(~Same(original', committed', CommitFields)) + Count(proof' # original')
            + Off(events'[1], g) + Off(events'[2], h) <= changes'
    <3>1. Len(events) = 2 =>
            Count(~Same(original, committed, CommitFields)) + Count(proof # original)
              + Off(events[1], g) + Off(events[2], h) <= changes
      BY <1>9 DEF Settled
    <3>. QED  BY <1>2, <1>3, <3>1, CountFacts, OffFacts
  <2>3. PICK x \in Fields, y \in Fields : Near(x, y, bands)
    BY <1>9 DEF Settled
  <2>4. /\ Same(proof, original, Fields \ {x, y, "fingerprint"})
        /\ Count(x # "fingerprint") + Count(y # "fingerprint")
             + Damage(original, original.seed, bands) + Count(bands # configs[original.config]) <= changes
        /\ Damage(original, original.seed, bands) \in 0 .. 2
    BY <2>3, CountFacts DEF Near, Damage
  <2>5. \E w, z \in Fields : Near(w, z, bands)'
    <3>1. CASE x = "fingerprint"
      <4>1. Same(proof', original', Fields \ {f, y, "fingerprint"})
        BY <1>3, <1>5, <2>4, <3>1 DEF Same
      <4>2. Near(f, y, bands)'
        BY <1>2, <1>3, <2>4, <3>1, <4>1, CountFacts DEF Near
      <4>. QED  BY <4>2
    <3>2. CASE y = "fingerprint"
      <4>1. Same(proof', original', Fields \ {x, f, "fingerprint"})
        BY <1>3, <1>5, <2>4, <3>2 DEF Same
      <4>2. Near(x, f, bands)'
        BY <1>2, <1>3, <2>4, <3>2, <4>1, CountFacts DEF Near
      <4>. QED  BY <4>2
    <3>3. x = "fingerprint" \/ y = "fingerprint"
      <4>1. Count(bands # configs[original.config]) \in {0, 1}
        BY CountFacts
      <4>2. Count(x # "fingerprint") + Count(y # "fingerprint") <= 1
        BY <1>3, <2>4, <4>1, CountFacts
      <4>. QED  BY <4>2 DEF Count
    <3>. QED  BY <3>1, <3>2, <3>3
  <2>6. changes' <= 1 => Kept(original, original.seed, bands)'
    BY <1>3, <1>9 DEF Settled, Kept
  <2>. QED  BY <1>3, <1>9, <2>1, <2>2, <2>5, <2>6 DEF Settled
<1>10. \A i \in DOMAIN events' : DOMAIN events'[i] = EventColumns
  BY <1>2 DEF TwoInv
<1>11. /\ original.status = "committed" => \E g : Awaits(g)'
       /\ original.status = "revealed" => \E g, h, bands : Settled(g, h, bands)'
  BY <1>2, <1>8, <1>9 DEF TwoInv
<1>. QED  BY <1>2, <1>3, <1>5, <1>6, <1>7, <1>10, <1>11 DEF TwoInv

\* Anything but the proof: of the events that are left, each is at most one further off,
\* none if it is the map of a configuration or the custody that changes.
LEMMA RestTwo ==
  ASSUME IInv, TwoInv, MaxChanges <= 2, Corruption, proof' = proof,
         \A i \in DOMAIN events' : DOMAIN events'[i] = EventColumns,
         proof = NoRow => events' = <<>>,
         NEW S, NEW T, events \in Seq(S), events' \in Seq(T),
         \/ events' = events /\ (custody' = custody \/ configs' = configs)
         \/ /\ custody' = custody /\ configs' = configs /\ Len(events') = Len(events)
            /\ \E i \in 1 .. Len(events) :
                 /\ \A g : Off(events'[i], g) <= Off(events[i], g) + 1
                 /\ \A j \in 1 .. Len(events) \ {i} : events'[j] = events[j]
         \/ /\ custody' = custody /\ configs' = configs /\ Len(events') < Len(events)
            /\ \A i \in 1 .. Len(events') : \E j \in 1 .. Len(events) : events'[i] = events[j]
  PROVE  TwoInv'
<1>1. /\ changes \in {0, 1} /\ changes' = changes + 1
      /\ original' = original /\ committed' = committed /\ legacy' = legacy
      /\ \A g : First(g)' <=> First(g)
      /\ \A h : Final(h)' <=> Final(h)
  BY ChangeFacts
<1>2. Len(events) \in 0 .. 2 /\ Len(events') \in Nat /\ Len(events') <= Len(events)
  <2>1. Len(events) \in Nat
    BY LenProperties
  <2>2. Len(events') \in Nat
    BY LenProperties
  <2>3. Len(events) <= 2
    BY DEF IInv, OneEnd
  <2>4. Len(events') = Len(events) \/ Len(events') < Len(events)
    OBVIOUS
  <2>5. \A a, b \in Nat : b <= 2 /\ (a = b \/ a < b) => b \in 0 .. 2 /\ a <= b
    OBVIOUS
  <2>. QED  BY ONLY <2>1, <2>2, <2>3, <2>4, <2>5, Zenon
<1>3. ASSUME Len(events') = Len(events)
      PROVE  /\ Len(events) = 1 => \A g : Off(events'[1], g) <= Off(events[1], g) + 1
             /\ Len(events) = 2 =>
                  \A g, h : Off(events'[1], g) + Off(events'[2], h)
                              <= Off(events[1], g) + Off(events[2], h) + 1
  <2>0. \A e, g : Off(e, g) \in 0 .. 2
    BY OffFacts
  <2>1. CASE events' = events
    BY <2>0, <2>1
  <2>2. CASE \E i \in 1 .. Len(events) :
               /\ \A g : Off(events'[i], g) <= Off(events[i], g) + 1
               /\ \A j \in 1 .. Len(events) \ {i} : events'[j] = events[j]
    <3>1. PICK i \in 1 .. Len(events) :
               /\ \A g : Off(events'[i], g) <= Off(events[i], g) + 1
               /\ \A j \in 1 .. Len(events) \ {i} : events'[j] = events[j]
      BY <2>2
    <3>2. Len(events) = 1 => i = 1
      BY <1>2
    <3>3. ASSUME Len(events) = 2
          PROVE  \/ i = 1 /\ events'[2] = events[2]
                 \/ i = 2 /\ events'[1] = events[1]
      BY <3>1, <3>3
    <3>. QED  BY <2>0, <3>1, <3>2, <3>3
  <2>. QED  BY <1>2, <1>3, <2>1, <2>2
<1>4. ASSUME NEW g, Awaits(g), original.status = "committed", proof # NoRow PROVE Awaits(g)'
  <2>1. Len(events) <= 1
    BY <1>4 DEF IInv, OneEnd, Types
  <2>2. ASSUME Len(events') = 1
        PROVE  Count(~Same(proof, committed, CommitFields)) + Off(events'[1], g) <= changes + 1
    <3>1. Len(events) = 1
      BY ONLY <1>2, <2>1, <2>2
    <3>2. Off(events'[1], g) <= Off(events[1], g) + 1
      BY <1>3, <2>2, <3>1
    <3>3. Count(~Same(proof, committed, CommitFields)) + Off(events[1], g) <= changes
      BY <1>4, <3>1 DEF Awaits
    <3>. QED  BY <1>1, <3>2, <3>3, CountFacts, OffFacts
  <2>3. /\ Damage(proof, custody', configs'[proof.config]) <= changes + 1
        /\ changes + 1 <= 1 => Kept(proof, custody', configs'[proof.config])
    <3>1. /\ Damage(proof, custody, configs[proof.config]) <= changes
          /\ changes <= 1 => Kept(proof, custody, configs[proof.config])
      BY <1>4 DEF Awaits
    <3>2. custody' = custody \/ configs'[proof.config] = configs[proof.config]
      OBVIOUS
    <3>3. PICK t, b : t = custody' /\ b = configs'[proof.config]
      OBVIOUS
    <3>4. t = custody \/ b = configs[proof.config]
      BY <3>2, <3>3
    <3>5. /\ Damage(proof, t, b) <= changes + 1
          /\ changes + 1 <= 1 => Kept(proof, t, b)
      BY <1>1, <3>1, <3>4, DamageStep
    <3>. QED  BY <3>3, <3>5
  <2>4. changes' <= 1 => Kept(proof, custody, configs[proof.config])'
    BY <1>1, <2>3 DEF Kept
  <2>. QED  BY <1>1, <1>4, <2>2, <2>3, <2>4 DEF Awaits
<1>5. ASSUME NEW g, NEW h, NEW bands, Settled(g, h, bands), proof # NoRow
      PROVE  Settled(g, h, bands)'
  <2>0. Len(events) = 2 =>
          Count(~Same(original, committed, CommitFields)) + Count(proof # original)
            + Off(events[1], g) + Off(events[2], h) <= changes
    BY <1>5 DEF Settled
  <2>1. ASSUME Len(events') = 1
        PROVE  \E e \in {g, h} : 1 + Off(events'[1], e) <= changes + 1
    <3>1. CASE Len(events) = 1
      <4>1. PICK e \in {g, h} : 1 + Off(events[1], e) <= changes
        BY <1>5, <3>1 DEF Settled
      <4>2. Off(events'[1], e) <= Off(events[1], e) + 1
        BY <1>3, <2>1, <3>1
      <4>. QED  BY <1>1, <4>1, <4>2, OffFacts
    <3>2. CASE Len(events) = 2
      <4>1. PICK j \in 1 .. 2 : events'[1] = events[j]
        BY <2>1, <3>2
      <4>2. Off(events[1], g) <= changes /\ Off(events[2], h) <= changes
        BY <1>1, <2>0, <3>2, CountFacts, OffFacts
      <4>3. j = 1 \/ j = 2
        OBVIOUS
      <4>4. Off(events'[1], g) <= changes \/ Off(events'[1], h) <= changes
        BY <4>1, <4>2, <4>3
      <4>. QED  BY <1>1, <4>4, OffFacts
    <3>3. Len(events) # 0
      BY ONLY <1>2, <2>1
    <3>. QED  BY <1>2, <3>1, <3>2, <3>3
  <2>2. ASSUME Len(events') = 2
        PROVE  Count(~Same(original, committed, CommitFields)) + Count(proof # original)
                 + Off(events'[1], g) + Off(events'[2], h) <= changes + 1
    <3>1. Len(events) = 2
      BY ONLY <1>2, <2>2
    <3>2. Off(events'[1], g) + Off(events'[2], h) <= Off(events[1], g) + Off(events[2], h) + 1
      BY <1>3, <2>2, <3>1
    <3>. QED  BY <1>1, <2>0, <3>1, <3>2, CountFacts, OffFacts
  <2>3. \E x, y \in Fields : Near(x, y, bands)'
    <3>1. PICK x \in Fields, y \in Fields : Near(x, y, bands)
      BY <1>5 DEF Settled
    <3>2. Damage(original, original.seed, bands) \in 0 .. 2
      BY CountFacts DEF Damage
    <3>3. Near(x, y, bands)'
      BY <1>1, <3>1, <3>2, CountFacts DEF Near
    <3>. QED  BY <3>3
  <2>4. changes' <= 1 => Kept(original, original.seed, bands)'
    BY <1>1, <1>5 DEF Settled, Kept
  <2>. QED  BY <1>1, <1>5, <2>1, <2>2, <2>3, <2>4 DEF Settled
<1>6. proof # NoRow =>
       /\ original.status = "committed" => \E g : Awaits(g)'
       /\ original.status = "revealed" => \E g, h, bands : Settled(g, h, bands)'
  BY <1>4, <1>5 DEF TwoInv
<1>. QED  BY <1>1, <1>6 DEF TwoInv

\* What remains was there.
LEMMA RemovedFrom ==
  ASSUME NEW S, NEW es \in Seq(S), NEW i \in DOMAIN es
  PROVE  \A k \in 1 .. Len(RemoveAt(es, i)) : \E j \in 1 .. Len(es) : RemoveAt(es, i)[k] = es[j]
<1>. DEFINE a == SubSeq(es, 1, i - 1)
            b == SubSeq(es, i + 1, Len(es))
<1>1. /\ a \in Seq(S) /\ Len(a) = i - 1 /\ b \in Seq(S) /\ Len(b) = Len(es) - i
      /\ \A k \in 1 .. i - 1 : a[k] = es[k]
      /\ \A k \in 1 .. Len(es) - i : b[k] = es[k + i]
  OBVIOUS
<1>2. RemoveAt(es, i) = a \o b /\ i \in 1 .. Len(es) /\ Len(es) \in Nat
  BY DEF RemoveAt
<1>. HIDE DEF a, b
<1>3. /\ Len(a \o b) = Len(a) + Len(b)
      /\ \A k \in 1 .. Len(a) + Len(b) : (a \o b)[k] = IF k <= Len(a) THEN a[k] ELSE b[k - Len(a)]
  BY <1>1, ConcatProperties
<1>4. ASSUME NEW k \in 1 .. Len(es) - 1 PROVE \E j \in 1 .. Len(es) : (a \o b)[k] = es[j]
  <2>1. CASE k <= i - 1
    <3>1. k \in 1 .. i - 1 /\ k \in 1 .. Len(es)
      BY ONLY <1>2, <2>1, k \in 1 .. Len(es) - 1
    <3>2. k \in 1 .. Len(a) + Len(b) /\ k <= Len(a)
      BY ONLY <1>1, <1>2, <2>1, k \in 1 .. Len(es) - 1
    <3>3. (a \o b)[k] = a[k]
      BY <1>3, <3>2, Zenon
    <3>4. a[k] = es[k]
      BY <1>1, <3>1, Zenon
    <3>. QED  BY <3>1, <3>3, <3>4, Zenon
  <2>2. CASE k > i - 1
    <3>1. k - (i - 1) \in 1 .. Len(es) - i /\ k + 1 \in 1 .. Len(es) /\ k - (i - 1) + i = k + 1
      BY <1>2, <2>2
    <3>2. (a \o b)[k] = b[k - (i - 1)]
      <4>1. k \in 1 .. Len(a) + Len(b) /\ ~(k <= Len(a)) /\ Len(a) = i - 1
        BY ONLY <1>1, <1>2, <2>2, k \in 1 .. Len(es) - 1
      <4>. QED  BY <1>3, <4>1, Zenon
    <3>3. b[k - (i - 1)] = es[k + 1]
      BY <1>1, <3>1
    <3>. QED  BY <3>1, <3>2, <3>3
  <2>3. k <= i - 1 \/ k > i - 1
    BY <1>2
  <2>. QED  BY <2>1, <2>2, <2>3
<1>5. Len(RemoveAt(es, i)) = Len(es) - 1
  BY Removed
<1>. QED  BY <1>2, <1>4, <1>5, Zenon

LEMMA EventTwo ==
  ASSUME IInv, TwoInv, MaxChanges <= 2, NEW i \in DOMAIN events, CorruptEvent(i) \/ LoseEvent(i)
  PROVE  TwoInv'
<1>1. PICK S : events \in Seq(S)
  BY DEF IInv, Types
<1>2. Corruption /\ proof' = proof /\ custody' = custody /\ configs' = configs
  BY DEF CorruptEvent, LoseEvent
<1>3. /\ DOMAIN events = 1 .. Len(events) /\ Len(events) \in Nat
      /\ \A j \in DOMAIN events : DOMAIN events[j] = EventColumns
      /\ proof # NoRow
  <2>1. \A x \in 1 .. Len(<<>>) : FALSE
    OBVIOUS
  <2>2. DOMAIN <<>> = 1 .. Len(<<>>)
    OBVIOUS
  <2>. QED  BY <1>1, <2>1, <2>2 DEF TwoInv
<1>4. CASE CorruptEvent(i)
  <2>1. PICK x \in OtherEvents(events[i]) : events' = [events EXCEPT ![i] = x]
    BY <1>4 DEF CorruptEvent
  <2>2. [events EXCEPT ![i] = x] \in Seq(S \cup {x}) /\ Len([events EXCEPT ![i] = x]) = Len(events)
    BY <1>1, Replaced
  <2>3. events' \in Seq(S \cup {x}) /\ Len(events') = Len(events)
    BY <2>1, <2>2, Zenon
  <2>4. events'[i] = x /\ \A j \in DOMAIN events \ {i} : events'[j] = events[j]
    BY <1>1, <2>1
  <2>5. DOMAIN events' = DOMAIN events
    BY <1>1, <2>1
  <2>6. DOMAIN x = EventColumns
    BY <1>3, OtherFacts
  <2>7. \A j \in DOMAIN events' : DOMAIN events'[j] = EventColumns
    BY <1>3, <2>4, <2>5, <2>6
  <2>8. \A g : Off(events'[i], g) <= Off(events[i], g) + 1
    BY <1>3, <2>4, OffStep
  <2>9. \E k \in 1 .. Len(events) :
          /\ \A g : Off(events'[k], g) <= Off(events[k], g) + 1
          /\ \A j \in 1 .. Len(events) \ {k} : events'[j] = events[j]
    BY <1>3, <2>4, <2>8
  <2>. QED  BY <1>1, <1>2, <1>3, <2>3, <2>7, <2>9, RestTwo
<1>5. CASE LoseEvent(i)
  <2>1. events' = RemoveAt(events, i)
    BY <1>5 DEF LoseEvent
  <2>2. events' \in Seq(S) /\ Len(events') = Len(events) - 1
    BY <1>1, <2>1, Removed
  <2>3. \A k \in 1 .. Len(events') : \E j \in 1 .. Len(events) : events'[k] = events[j]
    BY <1>1, <2>1, RemovedFrom
  <2>4. DOMAIN events' = 1 .. Len(events') /\ Len(events') < Len(events)
    BY <1>3, <2>2
  <2>5. \A j \in DOMAIN events' : DOMAIN events'[j] = EventColumns
    BY <1>3, <2>3, <2>4
  <2>. QED  BY <1>1, <1>2, <1>3, <2>2, <2>3, <2>4, <2>5, RestTwo
<1>. QED  BY <1>4, <1>5

LEMMA MapTwo ==
  ASSUME IInv, TwoInv, MaxChanges <= 2, CorruptCustody \/ \E c \in SpinConfigs : CorruptMap(c)
  PROVE  TwoInv'
<1>1. Corruption /\ proof' = proof /\ events' = events /\ (custody' = custody \/ configs' = configs)
  BY DEF CorruptCustody, CorruptMap
<1>2. PICK S : events \in Seq(S)
  BY DEF IInv, Types
<1>3. \A i \in DOMAIN events' : DOMAIN events'[i] = EventColumns
  BY <1>1 DEF TwoInv
<1>4. proof = NoRow => events' = <<>>
  BY <1>1 DEF TwoInv
<1>. QED  BY <1>1, <1>2, <1>3, <1>4, RestTwo

LEMMA StutterTwo ==
  ASSUME TwoInv, UNCHANGED vars
  PROVE  TwoInv'
<1>1. /\ proof' = proof /\ original' = original /\ legacy' = legacy /\ configs' = configs
      /\ events' = events /\ changes' = changes /\ custody' = custody /\ committed' = committed
  BY DEF vars
<1>2. \A g : Awaits(g) => Awaits(g)'
  BY <1>1 DEF Awaits, First, Kept
<1>3. \A g, h, bands : Settled(g, h, bands) => Settled(g, h, bands)'
  <2>1. \A g : First(g)' <=> First(g)
    BY <1>1 DEF First
  <2>2. \A h : Final(h)' <=> Final(h)
    BY <1>1 DEF Final
  <2>3. \A bands : Kept(original, original.seed, bands)' <=> Kept(original, original.seed, bands)
    BY <1>1 DEF Kept
  <2>4. \A x, y, bands : Near(x, y, bands)' <=> Near(x, y, bands)
    BY <1>1 DEF Near
  <2>. QED  BY <1>1, <2>1, <2>2, <2>3, <2>4 DEF Settled
<1>. QED  BY <1>1, <1>2, <1>3 DEF TwoInv

LEMMA NextTwo ==
  ASSUME MaxChanges <= 2, IInv, TwoInv, [Next]_vars
  PROVE  TwoInv'
<1>1. ASSUME NEW seed \in Seeds, NEW c \in SpinConfigs, Commit(seed, c) PROVE TwoInv'
  BY <1>1, CommitTwo
<1>2. ASSUME NEW client \in ClientSeeds, NEW now \in Times, Evaluate(client, now) PROVE TwoInv'
  BY <1>2, EvaluateTwo
<1>3. ASSUME NEW status \in {"expired", "cancelled"}, NEW now \in Times, End(status, now) PROVE TwoInv'
  BY <1>3, EndTwo DEF Ended
<1>4. CASE Migrate
  BY <1>4, MigrateTwo
<1>5. ASSUME NEW f \in RevealedFields \cup {"status"}, CorruptProof(f) PROVE TwoInv'
  BY <1>5, ProofTwo DEF Fields
<1>6. ASSUME NEW i \in DOMAIN events, CorruptEvent(i) \/ LoseEvent(i) PROVE TwoInv'
  BY <1>6, EventTwo
<1>7. CASE CorruptCustody \/ \E c \in SpinConfigs : CorruptMap(c)
  BY <1>7, MapTwo
<1>8. CASE UNCHANGED vars
  BY <1>8, StutterTwo
<1>. QED  BY <1>1, <1>2, <1>3, <1>4, <1>5, <1>6, <1>7, <1>8 DEF Next

\* Whatever two columns of proof, events, map and custody change, before or after the
\* reveal, verify_fairness_proof says so unless the proof still has what its evidence
\* binds: Established of the result, Promised of the commitment.  With payloads this is
\* every column the verifier compares, without them the prize; the definitions tell what
\* is left out.  With a third change the payload of an event, its hash and the proof agree
\* on another result, which hashes without a key cannot tell; so the hypothesis is needed.
THEOREM VerifiedEvidenceIsGenuine ==
  ASSUME MaxChanges <= 2
  PROVE  Spec => []VerifiedIsGenuine
<1>1. Init => TwoInv
  BY TwoInit
<1>2. IInv /\ TwoInv /\ [Next]_vars => TwoInv'
  BY NextTwo
<1>3. IInv /\ TwoInv => VerifiedIsGenuine
  BY TwoVerified
<1>. QED  BY <1>1, <1>2, <1>3, Invariance, PTL DEF Spec

==============================================================================
