--------------------------- MODULE HttpProxyProofs ---------------------------
(***************************************************************************)
(* The HTTP proxy for any tokens, clients, ids and registry processes.     *)
(* Its step is a step of the token validator and one of the table of       *)
(* requests, of the spans and of the counters at the same time: each part  *)
(* has an invariant of its own.                                            *)
(***************************************************************************)
EXTENDS HttpProxy, FiniteSetTheorems, TLAPS

-----------------------------------------------------------------------------
(* The invariant of the token validator *)

BootStates == {"down", "generating", "up"}

Fetches == [phase: {"fetch"}, token: Tokens, jwks: Seq(Nat), since: Nat]
Lookups == [phase: {"revocation"}, token: Tokens, how: Results]
Answers == [phase: {"done"}, token: Tokens, how: Results]
Validations == {Null} \cup Fetches \cup Lookups \cup Answers

ValidatorTypeOK ==
    /\ keys \in Seq(Nat)
    /\ boot \in [Registries -> BootStates]
    /\ now \in Nat
    /\ jwksCache \in [keys: Seq(Nat), fetchedAt: Nat]
    /\ validation \in [Slots -> Validations]

\* The first key of an answer of the registry is the newest that was there when
\* the keys were read: those that came later did so at time t or after it.
ReadAt(jwks, t) ==
    /\ jwks[1] \in 1..Len(keys)
    /\ \A k \in jwks[1] + 1 .. Len(keys) : t <= keys[k]

\* Keys came in the past.
KeysInPast == \A k \in 1..Len(keys) : keys[k] <= now

\* What is cached was asked for five seconds before it arrived, or later.
CacheSound ==
    CacheFilled => /\ RegistryUrl
                   /\ jwksCache.fetchedAt <= now
                   /\ ReadAt(jwksCache.keys, jwksCache.fetchedAt - FetchTimeout)

\* So is what a fetch under way has brought.
FetchesSound ==
    \A s \in Slots : validation[s].phase = "fetch" =>
        /\ RegistryUrl
        /\ validation[s].since <= now
        /\ now <= validation[s].since + FetchTimeout
        /\ validation[s].jwks # <<>> => ReadAt(validation[s].jwks, validation[s].since)

ValidatorInv == ValidatorTypeOK /\ KeysInPast /\ CacheSound /\ FetchesSound

-----------------------------------------------------------------------------
(* The invariant of the proxy *)

Phases == {"body", "validating", "upstream", "sse", "answered"}
Requests == [phase: Phases, kind: Kinds, id: Ids, token: Tokens]
Ends == {"open", "denied", "error", "answered", "stopped"}
Span == [id: Ids, end: Ends]

ProxyTypeOK ==
    /\ request \in [Slots -> {Free} \cup Requests]
    /\ staticClaims \in Results \cup {NotValidated}
    /\ up \in BOOLEAN

\* A validation belongs to the request that waits for it, and is of its token.
ValidationsBelong ==
    \A s \in Slots :
        /\ validation[s] = Null <=> request[s].phase # "validating"
        /\ validation[s] # Null => validation[s].token = request[s].token

SpansTyped ==
    /\ spans \in Seq(Span)
    /\ DOMAIN pendingSpans \subseteq Ids
    /\ \A id \in DOMAIN pendingSpans : pendingSpans[id] \in DOMAIN spans

\* pendingSpans has open spans, each under its own id.
PendingOpen ==
    \A id \in DOMAIN pendingSpans : Entry(id).id = id /\ Entry(id).end = "open"

\* An open span is there, or was displaced by a later one with its id.
OpenTracked ==
    up => \A i \in DOMAIN spans : spans[i].end = "open" =>
        \/ \E id \in DOMAIN pendingSpans : pendingSpans[id] = i
        \/ \E j \in DOMAIN spans : i < j /\ spans[j].id = spans[i].id

SpansInv == SpansTyped /\ PendingOpen /\ OpenTracked

Metrics == [total: Nat, blocked: Nat, forwarded: Nat, errored: Nat]

CountsTyped ==
    /\ metrics \in Metrics
    /\ thrown \in Nat
    /\ IsFiniteSet(InFlight)

Balanced ==
    metrics.total = metrics.blocked + metrics.forwarded + metrics.errored
                    + thrown + Cardinality(InFlight)

CountsInv == CountsTyped /\ Balanced

TypeOK == ValidatorTypeOK /\ ProxyTypeOK /\ SpansTyped /\ CountsTyped

ProxyInv ==
    ValidatorInv /\ ProxyTypeOK /\ ValidationsBelong /\ SpansInv /\ CountsInv

-----------------------------------------------------------------------------
(* The token validator *)

\* A validation that fetches nothing (any more), by its fields.
LEMMA NotFetching ==
  ASSUME NEW t \in Tokens, NEW how \in Results
  PROVE  /\ Answer(t, how) \in Answers
         /\ CheckingRevocation(t, how) \in Lookups
         /\ Null.phase = "none"
         /\ Answer(t, how).phase = "done" /\ Answer(t, how).token = t
         /\ Answer(t, how).how = how
         /\ CheckingRevocation(t, how).phase = "revocation"
         /\ CheckingRevocation(t, how).token = t
         /\ CheckingRevocation(t, how).how = how
  BY DEF Answer, CheckingRevocation, Null, Answers, Lookups

\* What verification with a key returns is a result.
LEMMA VerifiedWithType ==
  ASSUME NEW t, NEW key
  PROVE  VerifiedWith(t, key) \in Results
  BY DEF VerifiedWith, Results

\* What a validation comes to that has looked at its token: the token stays,
\* the answer is that of VerifiedWith.
LEMMA VerifySettles ==
  ASSUME NEW s \in Slots, NEW t \in Tokens, NEW key, Verify(s, t, key)
  PROVE  \E v \in Lookups \cup Answers :
            /\ validation' = [validation EXCEPT ![s] = v]
            /\ v.token = t
            /\ v.how = VerifiedWith(t, key)
            /\ v.phase \in {"revocation", "done"}
<1> DEFINE how == VerifiedWith(t, key)
<1>1. how \in Results
  BY VerifiedWithType
<1>2. CASE how \in Accepting /\ RegistryUrl /\ t.jti
  <2> DEFINE v == CheckingRevocation(t, how)
  <2>1. validation' = [validation EXCEPT ![s] = v]
    BY <1>2 DEF Verify
  <2>2. /\ v \in Lookups \cup Answers
        /\ v.token = t /\ v.how = how /\ v.phase \in {"revocation", "done"}
    BY <1>1, <1>2, NotFetching
  <2> HIDE DEF v
  <2> QED
    BY <2>1, <2>2
<1>3. CASE ~(how \in Accepting /\ RegistryUrl /\ t.jti)
  <2> DEFINE v == Answer(t, how)
  <2>1. validation' = [validation EXCEPT ![s] = v]
    BY <1>3 DEF Verify
  <2>2. /\ v \in Lookups \cup Answers
        /\ v.token = t /\ v.how = how /\ v.phase \in {"revocation", "done"}
    BY <1>1, NotFetching
  <2> HIDE DEF v
  <2> QED
    BY <2>1, <2>2
<1> QED
  BY <1>2, <1>3

\* A validation that stops fetching, or never did, disturbs nothing.
LEMMA SettlingKeeps ==
  ASSUME ValidatorInv, NEW s \in Slots, NEW v \in {Null} \cup Lookups \cup Answers,
         validation' = [validation EXCEPT ![s] = v],
         UNCHANGED <<keyVars, jwksCache>>
  PROVE  ValidatorInv'
<1> USE DEF ValidatorInv, ValidatorTypeOK
<1>1. v \in Validations /\ v.phase # "fetch"
  BY DEF Validations, Null, Lookups, Answers
<1>2. /\ validation' \in [Slots -> Validations]
      /\ validation'[s] = v
      /\ \A q \in Slots \ {s} : validation'[q] = validation[q]
  BY <1>1
<1>3. keys' = keys /\ boot' = boot /\ now' = now
  BY DEF keyVars
<1>4. ValidatorTypeOK'
  BY <1>2, <1>3
<1>5. FetchesSound'
  BY <1>1, <1>2, <1>3 DEF FetchesSound, ReadAt
<1>6. KeysInPast' /\ CacheSound'
  BY <1>3 DEF KeysInPast, CacheSound, CacheFilled, ReadAt
<1> QED
  BY <1>4, <1>5, <1>6

\* A validation that starts uses the cached key, or asks for a new one.
LEMMA ValidateKeeps ==
  ASSUME ValidatorInv, NEW s \in Slots, NEW t \in Tokens, Validate(s, t)
  PROVE  ValidatorInv'
<1>1. UNCHANGED <<keyVars, jwksCache>>
  BY DEF Validate
<1>2. CASE t.shape = "malformed"
  <2>1. validation' = [validation EXCEPT ![s] = Answer(t, "invalid")]
    BY <1>2 DEF Validate
  <2>2. Answer(t, "invalid") \in Answers
    BY NotFetching DEF Results
  <2> QED
    BY <1>1, <2>1, <2>2, SettlingKeeps
<1>3. CASE t.shape # "malformed" /\ (CacheFresh \/ ~RegistryUrl)
  <2> DEFINE key == IF RegistryUrl THEN jwksCache.keys[1] ELSE StaticKey
  <2>1. Verify(s, t, key)
    BY <1>3 DEF Validate
  <2> HIDE DEF key
  <2>2. PICK v \in Lookups \cup Answers : validation' = [validation EXCEPT ![s] = v]
    BY <2>1, VerifySettles
  <2> QED
    BY <1>1, <2>2, SettlingKeeps
<1>4. CASE t.shape # "malformed" /\ RegistryUrl /\ ~CacheFresh
  <2> USE DEF ValidatorInv, ValidatorTypeOK
  <2>1. validation' = [validation EXCEPT ![s] = Fetching(t, <<>>)]
    BY <1>4 DEF Validate
  <2>2. /\ Fetching(t, <<>>) \in Fetches
        /\ Fetching(t, <<>>).jwks = <<>> /\ Fetching(t, <<>>).since = now
    BY DEF Fetching, Fetches
  <2>3. /\ validation' \in [Slots -> Validations]
        /\ validation'[s].jwks = <<>> /\ validation'[s].since = now
        /\ \A q \in Slots \ {s} : validation'[q] = validation[q]
    BY <2>1, <2>2 DEF Validations
  <2>4. keys' = keys /\ boot' = boot /\ now' = now /\ jwksCache' = jwksCache
    BY <1>1 DEF keyVars
  <2>5. ValidatorTypeOK' /\ KeysInPast'
    BY <2>3, <2>4 DEF KeysInPast
  <2>6. CacheSound'
    BY <2>4 DEF CacheSound, CacheFilled, ReadAt
  <2>7. FetchesSound'
    BY <1>4, <2>3, <2>4, TokenValidatorAssumption DEF FetchesSound, ReadAt
  <2> QED
    BY <2>5, <2>6, <2>7
<1> QED
  BY <1>2, <1>3, <1>4 DEF Validate

\* The keys that a registry process serves: the newest comes first.
LEMMA NewestFirst ==
  ASSUME keys \in Seq(Nat)
  PROVE  /\ getJwks \in Seq(Nat)
         /\ getJwks # <<>> => getJwks[1] = Len(keys) /\ Len(keys) \in 1..Len(keys)
<1> DEFINE ids == [k \in 1..Len(keys) |-> k]
<1>1. ids \in Seq(Nat) /\ Len(ids) = Len(keys)
  OBVIOUS
<1>2. getJwks = [i \in 1..Len(ids) |-> ids[(Len(ids) - i) + 1]]
  BY DEF getJwks, Reverse
<1>3. getJwks = [i \in 1..Len(keys) |-> (Len(keys) - i) + 1]
  BY <1>1, <1>2
<1> QED
  BY <1>3

\* The registry answers with a key that is in its table.
LEMMA JwksServedKeeps ==
  ASSUME ValidatorInv, NEW s \in Slots, JwksServed(s)
  PROVE  ValidatorInv'
<1> USE DEF ValidatorInv, ValidatorTypeOK
<1> DEFINE v == [validation[s] EXCEPT !.jwks = getJwks]
<1>1. validation[s] \in Fetches /\ validation[s].phase = "fetch"
  BY DEF JwksServed, Validations, Null, Lookups, Answers
<1>2. /\ v \in Fetches /\ v.phase = "fetch" /\ v.jwks = getJwks
      /\ v.since = validation[s].since
  BY <1>1, NewestFirst DEF Fetches
<1>3. validation' = [validation EXCEPT ![s] = v]
  BY DEF JwksServed
<1> HIDE DEF v
<1>4. /\ validation' \in [Slots -> Validations]
      /\ validation'[s] = v
      /\ \A q \in Slots \ {s} : validation'[q] = validation[q]
  BY <1>2, <1>3 DEF Validations
<1>5. keys' = keys /\ boot' = boot /\ now' = now /\ jwksCache' = jwksCache
  BY DEF JwksServed, keyVars
<1>6. ValidatorTypeOK' /\ KeysInPast'
  BY <1>4, <1>5 DEF KeysInPast
<1>7. CacheSound'
  BY <1>5 DEF CacheSound, CacheFilled, ReadAt
<1>8. v.jwks # <<>> => ReadAt(v.jwks, v.since)
  BY <1>2, NewestFirst DEF ReadAt
<1>9. FetchesSound'
  BY <1>1, <1>2, <1>4, <1>5, <1>8 DEF FetchesSound, ReadAt
<1> QED
  BY <1>6, <1>7, <1>9

\* The key that was fetched is cached from now on, so its age counts from the answer.
LEMMA FetchSucceedsKeeps ==
  ASSUME ValidatorInv, NEW s \in Slots, FetchSucceeds(s)
  PROVE  ValidatorInv'
<1> USE DEF ValidatorInv, ValidatorTypeOK
<1> DEFINE f == validation[s]
<1>1. f \in Fetches /\ f.phase = "fetch" /\ f.jwks # <<>>
  BY DEF FetchSucceeds, Validations, Null, Lookups, Answers
<1>2. f.token \in Tokens /\ f.jwks \in Seq(Nat)
  BY <1>1 DEF Fetches
<1>3. RegistryUrl /\ ReadAt(f.jwks, f.since) /\ now - FetchTimeout <= f.since
      /\ f.since \in Nat
  BY <1>1, TokenValidatorAssumption DEF FetchesSound, Fetches
<1>4. Verify(s, f.token, f.jwks[1])
  BY DEF FetchSucceeds
<1>5. jwksCache' = [keys |-> f.jwks, fetchedAt |-> now]
  BY DEF FetchSucceeds
<1>6. keys' = keys /\ boot' = boot /\ now' = now
  BY DEF FetchSucceeds, keyVars
<1> HIDE DEF f
<1>7. PICK v \in Lookups \cup Answers : validation' = [validation EXCEPT ![s] = v]
  BY <1>2, <1>4, VerifySettles
<1>8. /\ validation' \in [Slots -> Validations]
      /\ validation'[s].phase # "fetch"
      /\ \A q \in Slots \ {s} : validation'[q] = validation[q]
  BY <1>7 DEF Validations, Lookups, Answers
<1>9. ValidatorTypeOK' /\ KeysInPast'
  BY <1>2, <1>5, <1>6, <1>8 DEF KeysInPast
<1>10. CacheSound'
  <2>1. ReadAt(f.jwks, now - FetchTimeout)
    <3>1. /\ now \in Nat /\ FetchTimeout \in Nat /\ now - FetchTimeout \in Int
          /\ now - FetchTimeout <= f.since /\ f.since \in Nat
      BY <1>3, TokenValidatorAssumption
    <3>2. \A k \in 1..Len(keys) : keys[k] \in Nat
      OBVIOUS
    <3>3. /\ f.jwks[1] \in 1..Len(keys)
          /\ \A k \in f.jwks[1] + 1 .. Len(keys) : f.since <= keys[k]
      BY <1>3 DEF ReadAt
    <3>4. \A k \in f.jwks[1] + 1 .. Len(keys) : k \in 1..Len(keys)
      BY <3>3
    <3>5. ASSUME NEW k \in f.jwks[1] + 1 .. Len(keys)
          PROVE  now - FetchTimeout <= keys[k]
      <4>1. f.since <= keys[k] /\ keys[k] \in Nat
        BY <3>2, <3>3, <3>4
      <4> QED
        BY <3>1, <4>1
    <3> QED
      BY <3>3, <3>5 DEF ReadAt
  <2> QED
    BY <1>3, <1>5, <1>6, <2>1 DEF CacheSound, ReadAt
<1>11. FetchesSound'
  BY <1>6, <1>8 DEF FetchesSound, ReadAt
<1> QED
  BY <1>9, <1>10, <1>11

\* The other three ways to go on from an answer, or from none.
LEMMA ValidatesKeeps ==
  ASSUME ValidatorInv, NEW s \in Slots, Validates(s)
  PROVE  ValidatorInv'
<1> DEFINE t == validation[s].token
           how == validation[s].how
<1>1. validation[s].phase \in {"fetch", "revocation"} => t \in Tokens
  BY DEF ValidatorInv, ValidatorTypeOK, Validations, Null, Fetches, Lookups, Answers
<1>2. validation[s].phase = "revocation" => how \in Results
  BY DEF ValidatorInv, ValidatorTypeOK, Validations, Null, Fetches, Lookups, Answers
<1>3. CASE FetchFails(s)
  <2>1. /\ UNCHANGED <<keyVars, jwksCache>>
        /\ validation[s].phase = "fetch"
        /\ Verify(s, t, FallbackKey)
    BY <1>3 DEF FetchFails
  <2>2. PICK v \in Lookups \cup Answers : validation' = [validation EXCEPT ![s] = v]
    BY <1>1, <2>1, VerifySettles
  <2> QED
    BY <2>1, <2>2, SettlingKeeps
<1>4. CASE NotRevoked(s)
  <2>1. /\ UNCHANGED <<keyVars, jwksCache>>
        /\ validation[s].phase = "revocation"
        /\ validation' = [validation EXCEPT ![s] = Answer(t, how)]
    BY <1>4 DEF NotRevoked
  <2>2. Answer(t, how) \in Answers
    BY <1>1, <1>2, <2>1, NotFetching
  <2> QED
    BY <2>1, <2>2, SettlingKeeps
<1>5. CASE RevocationUnknown(s)
  <2> DEFINE to == IF FailMode = "closed" THEN "invalid" ELSE how
  <2>1. /\ UNCHANGED <<keyVars, jwksCache>>
        /\ validation[s].phase = "revocation"
        /\ validation' = [validation EXCEPT ![s] = Answer(t, to)]
    BY <1>5 DEF RevocationUnknown
  <2>2. to \in Results
    BY <1>2, <2>1 DEF Results
  <2> HIDE DEF to
  <2>3. Answer(t, to) \in Answers
    BY <1>1, <2>1, <2>2, NotFetching
  <2> QED
    BY <2>1, <2>3, SettlingKeeps
<1> QED
  BY <1>3, <1>4, <1>5, JwksServedKeeps, FetchSucceedsKeeps DEF Validates

\* A key that comes later came after every answer that was read before it; the
\* clock waits for the fetches.
LEMMA NetworkKeeps ==
  ASSUME ValidatorInv, Network
  PROVE  ValidatorInv'
<1> USE DEF ValidatorInv, ValidatorTypeOK
<1>1. ASSUME NEW r \in Registries, Starts(r), UNCHANGED validatorVars
      PROVE  ValidatorInv'
  <2>1. /\ keys' = keys /\ now' = now /\ jwksCache' = jwksCache
        /\ validation' = validation
    BY <1>1 DEF Starts, validatorVars
  <2>2. boot' \in [Registries -> BootStates]
    BY <1>1 DEF Starts, BootStates
  <2> QED
    BY <2>1, <2>2 DEF KeysInPast, CacheSound, CacheFilled, FetchesSound, ReadAt
<1>2. ASSUME NEW r \in Registries, KeyGenerated(r), UNCHANGED validatorVars
      PROVE  ValidatorInv'
  <2>1. /\ keys' = Append(keys, now) /\ now' = now /\ jwksCache' = jwksCache
        /\ validation' = validation
    BY <1>2 DEF KeyGenerated, validatorVars
  <2>2. boot' \in [Registries -> BootStates]
    BY <1>2 DEF KeyGenerated, BootStates
  <2>3. /\ keys' \in Seq(Nat) /\ Len(keys') = Len(keys) + 1
        /\ keys'[Len(keys) + 1] = now
        /\ \A k \in 1..Len(keys) : keys'[k] = keys[k]
    BY <2>1
  <2>4. ValidatorTypeOK' /\ KeysInPast'
    BY <2>1, <2>2, <2>3 DEF KeysInPast
  <2>5. CacheSound'
    <3> SUFFICES ASSUME CacheFilled
                 PROVE  ReadAt(jwksCache.keys, jwksCache.fetchedAt - FetchTimeout)'
      BY <2>1 DEF CacheSound, CacheFilled
    <3> DEFINE first == jwksCache.keys[1]
               at == jwksCache.fetchedAt - FetchTimeout
    <3>1. /\ now \in Nat /\ FetchTimeout \in Nat /\ jwksCache.fetchedAt \in Nat
          /\ jwksCache.fetchedAt <= now /\ Len(keys) \in Nat
      BY TokenValidatorAssumption DEF CacheSound
    <3>2. at <= now
      BY <3>1
    <3>3. first \in 1..Len(keys) /\ \A k \in first + 1 .. Len(keys) : at <= keys[k]
      BY DEF CacheSound, ReadAt
    <3> HIDE DEF first, at
    <3>4. \A k \in first + 1 .. Len(keys) + 1 :
             k = Len(keys) + 1 \/ (k \in first + 1 .. Len(keys) /\ k \in 1..Len(keys))
      BY <3>1, <3>3
    <3>5. /\ first \in 1..Len(keys')
          /\ \A k \in first + 1 .. Len(keys') : at <= keys'[k]
      <4>1. first \in 1..Len(keys')
        BY <2>3, <3>1, <3>3
      <4>2. ASSUME NEW k \in first + 1 .. Len(keys') PROVE at <= keys'[k]
        <5>1. k = Len(keys) + 1 \/ (k \in first + 1 .. Len(keys) /\ k \in 1..Len(keys))
          BY <2>3, <3>4
        <5>2. keys'[Len(keys) + 1] = now /\ \A j \in 1..Len(keys) : keys'[j] = keys[j]
          BY <2>3
        <5> QED
          BY <3>2, <3>3, <5>1, <5>2
      <4> QED
        BY <4>1, <4>2
    <3> QED
      BY <2>1, <3>5 DEF first, at, ReadAt
  <2>6. FetchesSound'
    <3> SUFFICES ASSUME NEW s \in Slots, validation[s].phase = "fetch"
                 PROVE  /\ RegistryUrl
                        /\ validation[s].since <= now
                        /\ now <= validation[s].since + FetchTimeout
                        /\ validation[s].jwks # <<>> =>
                              /\ validation[s].jwks[1] \in 1..Len(keys')
                              /\ \A k \in validation[s].jwks[1] + 1 .. Len(keys') :
                                    validation[s].since <= keys'[k]
      BY <2>1 DEF FetchesSound, ReadAt
    <3>1. validation[s] \in Fetches
      BY DEF Validations, Null, Lookups, Answers
    <3>2. validation[s].since \in Nat
      BY <3>1 DEF Fetches
    <3>3. /\ RegistryUrl /\ validation[s].since <= now
          /\ now <= validation[s].since + FetchTimeout
      BY DEF FetchesSound
    <3> DEFINE first == validation[s].jwks[1]
               since == validation[s].since
    <3>4. ASSUME validation[s].jwks # <<>>
          PROVE  /\ first \in 1..Len(keys')
                 /\ \A k \in first + 1 .. Len(keys') : since <= keys'[k]
      <4>1. /\ first \in 1..Len(keys)
            /\ \A k \in first + 1 .. Len(keys) : since <= keys[k]
        BY <3>4 DEF FetchesSound, ReadAt
      <4> HIDE DEF first, since
      <4>2. \A k \in first + 1 .. Len(keys') :
                (k \in first + 1 .. Len(keys)) \/ (k = Len(keys) + 1)
        <5>1. first \in Nat /\ Len(keys) \in Nat /\ Len(keys') = Len(keys) + 1
          BY <2>3, <4>1
        <5> QED
          BY <5>1
      <4>3. first \in 1..Len(keys')
        BY <2>3, <4>1
      <4>4. since <= now
        BY <3>3 DEF since
      <4>5. \A k \in first + 1 .. Len(keys) : keys'[k] = keys[k]
        BY <2>3, <4>1
      <4> QED
        BY <2>3, <4>1, <4>2, <4>3, <4>4, <4>5
    <3> QED
      BY <3>3, <3>4
  <2> QED
    BY <2>4, <2>5, <2>6
<1>3. CASE Tick
  <2>1. /\ keys' = keys /\ boot' = boot /\ now' = now + 1
        /\ jwksCache' = jwksCache /\ validation' = validation /\ ClockMayTick
    BY <1>3 DEF Tick
  <2>2. ValidatorTypeOK' /\ KeysInPast'
    BY <2>1 DEF KeysInPast
  <2>3. CacheSound'
    BY <2>1 DEF CacheSound, CacheFilled, ReadAt
  <2>4. FetchesSound'
    <3> SUFFICES ASSUME NEW s \in Slots, validation[s].phase = "fetch"
                 PROVE  /\ RegistryUrl
                        /\ validation[s].since <= now + 1
                        /\ now + 1 <= validation[s].since + FetchTimeout
                        /\ validation[s].jwks # <<>> =>
                              ReadAt(validation[s].jwks, validation[s].since)
      BY <2>1 DEF FetchesSound, ReadAt
    <3>1. validation[s] \in Fetches
      BY DEF Validations, Null, Lookups, Answers
    <3>2. validation[s].since \in Nat
      BY <3>1 DEF Fetches
    <3> QED
      BY <2>1, <3>2, TokenValidatorAssumption DEF FetchesSound, ClockMayTick
  <2> QED
    BY <2>2, <2>3, <2>4
<1> QED
  BY <1>1, <1>2, <1>3 DEF Network

\* What a step of the proxy is to the validator.
ResetStep ==
    /\ jwksCache' = NoCache
    /\ validation' = [s \in Slots |-> Null]
    /\ UNCHANGED keyVars

TakeStep(s) ==
    /\ validation' = [validation EXCEPT ![s] = Null]
    /\ UNCHANGED <<keyVars, jwksCache>>

ValidatorStep ==
    \/ Network
    \/ \E s \in Slots : Validates(s) \/ TakeStep(s)
    \/ \E s \in Slots, t \in Tokens : Validate(s, t)
    \/ ResetStep
    \/ UNCHANGED <<keyVars, validatorVars>>

\* Every step of the validator keeps the validator's part.
LEMMA ValidatorStepKeeps ==
  ASSUME ValidatorInv, ValidatorStep
  PROVE  ValidatorInv'
<1>1. CASE Network
  BY <1>1, NetworkKeeps
<1>2. ASSUME NEW s \in Slots, Validates(s)
      PROVE  ValidatorInv'
  BY <1>2, ValidatesKeeps
<1>3. ASSUME NEW s \in Slots, TakeStep(s)
      PROVE  ValidatorInv'
  BY <1>3, SettlingKeeps DEF TakeStep
<1>4. ASSUME NEW s \in Slots, NEW t \in Tokens, Validate(s, t)
      PROVE  ValidatorInv'
  BY <1>4, ValidateKeeps
<1>5. CASE ResetStep
  <2> USE DEF ValidatorInv, ValidatorTypeOK
  <2>1. /\ keys' = keys /\ boot' = boot /\ now' = now
        /\ jwksCache' = [keys |-> <<>>, fetchedAt |-> 0]
        /\ validation' = [s \in Slots |-> Null]
    BY <1>5 DEF ResetStep, keyVars, NoCache
  <2>2. ValidatorTypeOK' /\ KeysInPast' /\ CacheSound'
    BY <2>1 DEF Validations, KeysInPast, CacheSound, CacheFilled
  <2>3. FetchesSound'
    BY <2>1 DEF FetchesSound, Null
  <2> QED
    BY <2>2, <2>3
<1>6. CASE UNCHANGED <<keyVars, validatorVars>>
  BY <1>6 DEF keyVars, validatorVars, ValidatorInv, ValidatorTypeOK, KeysInPast,
     CacheSound, CacheFilled, FetchesSound, ReadAt
<1> QED
  BY <1>1, <1>2, <1>3, <1>4, <1>5, <1>6 DEF ValidatorStep

-----------------------------------------------------------------------------
(* What becomes of a token that is looked at *)

\* With which key: that of the fresh cache, the static one where there is no
\* registry, the one just fetched, or what is left when the fetch fails.
FromCache(s, key) ==
    /\ validation[s].phase = "none" /\ CacheFresh
    /\ key = jwksCache.keys[1] /\ jwksCache' = jwksCache

FromConfig(key) == ~RegistryUrl /\ key = StaticKey /\ jwksCache' = jwksCache

FromFetch(s, key) ==
    /\ validation[s].phase = "fetch" /\ validation[s].jwks # <<>>
    /\ key = validation[s].jwks[1]
    /\ jwksCache' = [keys |-> validation[s].jwks, fetchedAt |-> now]

FromFallback(s, key) ==
    /\ validation[s].phase = "fetch"
    /\ key = FallbackKey /\ jwksCache' = jwksCache

LookedAtWith(s, t, key) ==
    /\ validation'[s].how = VerifiedWith(t, key)
    /\ \/ FromCache(s, key) \/ FromConfig(key)
       \/ FromFetch(s, key) \/ FromFallback(s, key)

\* The result of the step of another validation is not this one's.
LEMMA OnlyItsOwn ==
  ASSUME NEW s, NEW q \in Slots, NEW v, LookedAt(s), s \in Slots,
         validation' = [validation EXCEPT ![q] = v], validation \in [Slots -> Validations]
  PROVE  s = q /\ validation'[s] = v
BY DEF LookedAt

\* A token is looked at with some key, unless it is malformed.
LEMMA LookingAtTokens ==
  ASSUME ValidatorInv, ValidatorStep, NEW s \in Slots, LookedAt(s)
  PROVE  /\ validation'[s].token \in Tokens
         /\ keys' = keys /\ now' = now
         /\ \/ /\ validation'[s].token.shape = "malformed"
               /\ validation'[s].how = "invalid"
            \/ \E key : LookedAtWith(s, validation'[s].token, key)
<1> DEFINE t == validation'[s].token
           Goal == /\ t \in Tokens
                   /\ keys' = keys /\ now' = now
                   /\ \/ t.shape = "malformed" /\ validation'[s].how = "invalid"
                      \/ \E key : LookedAtWith(s, t, key)
<1>0. validation \in [Slots -> Validations]
  BY DEF ValidatorInv, ValidatorTypeOK
<1>1. ~ (Network \/ UNCHANGED <<keyVars, validatorVars>>)
  BY DEF Network, Tick, validatorVars, LookedAt
<1>2. ~ ResetStep
  BY DEF ResetStep, LookedAt, Null
<1>3. \A q \in Slots : ~ TakeStep(q)
  BY <1>0, OnlyItsOwn DEF TakeStep, LookedAt, Null
<1>4. ASSUME NEW q \in Slots, NEW u \in Tokens, Validate(q, u)
      PROVE  Goal
  <2>1. keys' = keys /\ now' = now /\ jwksCache' = jwksCache /\ validation[q] = Null
    BY <1>4 DEF Validate, keyVars
  <2>2. CASE u.shape = "malformed"
    <3>1. validation' = [validation EXCEPT ![q] = Answer(u, "invalid")]
      BY <1>4, <2>2 DEF Validate
    <3>2. validation'[s] = Answer(u, "invalid")
      BY <1>0, <3>1, OnlyItsOwn
    <3>3. t = u /\ validation'[s].how = "invalid"
      BY <3>2, NotFetching DEF Results
    <3> QED
      BY <2>1, <2>2, <3>3
  <2>3. CASE u.shape # "malformed" /\ (CacheFresh \/ ~RegistryUrl)
    <3> DEFINE key == IF RegistryUrl THEN jwksCache.keys[1] ELSE StaticKey
    <3>1. Verify(q, u, key)
      BY <1>4, <2>3 DEF Validate
    <3>2. (~RegistryUrl => key = StaticKey) /\ (RegistryUrl => key = jwksCache.keys[1])
      OBVIOUS
    <3> HIDE DEF key
    <3>3. PICK v \in Lookups \cup Answers :
             /\ validation' = [validation EXCEPT ![q] = v]
             /\ v.token = u /\ v.how = VerifiedWith(u, key)
      BY <3>1, VerifySettles
    <3>4. s = q /\ validation'[s] = v
      BY <1>0, <3>3, OnlyItsOwn
    <3>5. t = u /\ validation'[s].how = VerifiedWith(u, key)
      BY <3>3, <3>4
    <3>6. FromCache(s, key) \/ FromConfig(key)
      BY <2>1, <2>3, <3>2, <3>4 DEF FromCache, FromConfig, Null
    <3> QED
      BY <2>1, <3>5, <3>6 DEF LookedAtWith
  <2>4. CASE u.shape # "malformed" /\ RegistryUrl /\ ~CacheFresh
    <3>1. validation' = [validation EXCEPT ![q] = Fetching(u, <<>>)]
      BY <1>4, <2>4 DEF Validate
    <3>2. validation'[s] = Fetching(u, <<>>)
      BY <1>0, <3>1, OnlyItsOwn
    <3> QED
      BY <3>2 DEF LookedAt, Fetching
  <2> QED
    BY <1>4, <2>2, <2>3, <2>4 DEF Validate
<1>5. ASSUME NEW q \in Slots, Validates(q)
      PROVE  Goal
  <2>0. q = s
    BY <1>0, <1>5 DEF Validates, JwksServed, FetchSucceeds, FetchFails, NotRevoked,
       RevocationUnknown, Verify, LookedAt
  <2>1. validation[s].phase \in {"none", "fetch"}
    BY DEF LookedAt
  <2>2. ~ NotRevoked(q) /\ ~ RevocationUnknown(q)
    BY <2>0, <2>1 DEF NotRevoked, RevocationUnknown
  <2>3. ~ JwksServed(q)
    <3> SUFFICES ASSUME JwksServed(q)
                 PROVE  FALSE
      OBVIOUS
    <3>1. validation[s] \in Fetches
      BY <1>0, <2>0 DEF JwksServed, Validations, Null, Lookups, Answers
    <3>2. validation'[s] = [validation[s] EXCEPT !.jwks = getJwks]
      BY <1>0, <2>0 DEF JwksServed
    <3>3. validation'[s].phase = "fetch"
      BY <3>1, <3>2 DEF Fetches
    <3> QED
      BY <3>3 DEF LookedAt
  <2>4. ASSUME NEW key, Verify(s, validation[s].token, key),
               validation[s].phase = "fetch", UNCHANGED keyVars,
               FromFetch(s, key) \/ FromFallback(s, key)
        PROVE  Goal
    <3>1. validation[s].token \in Tokens
      BY <1>0, <2>4 DEF Validations, Null, Fetches, Lookups, Answers
    <3>2. PICK v \in Lookups \cup Answers :
             /\ validation' = [validation EXCEPT ![s] = v]
             /\ v.token = validation[s].token
             /\ v.how = VerifiedWith(validation[s].token, key)
      BY <2>4, <3>1, VerifySettles
    <3>3. validation'[s] = v
      BY <1>0, <3>2
    <3> QED
      BY <2>4, <3>1, <3>2, <3>3 DEF LookedAtWith, keyVars
  <2>5. CASE FetchSucceeds(q)
    BY <2>0, <2>4, <2>5 DEF FetchSucceeds, FromFetch
  <2>6. CASE FetchFails(q)
    BY <2>0, <2>4, <2>6 DEF FetchFails, FromFallback
  <2> QED
    BY <1>5, <2>2, <2>3, <2>5, <2>6 DEF Validates
<1> QED
  BY <1>1, <1>2, <1>3, <1>4, <1>5 DEF ValidatorStep

\* The keys that tokens are verified with: those of the cache and of a fetch are
\* the registry's, and without a registry nothing is cached.
LEMMA KeysLookedAtWith ==
  ASSUME ValidatorInv, NEW s \in Slots, NEW t, NEW key, LookedAtWith(s, t, key)
  PROVE  IF CacheFilled' THEN key \in 1..Len(keys) ELSE key = StaticKey
<1> USE DEF ValidatorInv
<1>1. CASE FromCache(s, key)
  BY <1>1 DEF FromCache, CacheFresh, CacheFilled, CacheSound, ReadAt
<1>2. CASE FromConfig(key)
  BY <1>2 DEF FromConfig, CacheFilled, CacheSound
<1>3. CASE FromFetch(s, key)
  BY <1>3 DEF FromFetch, CacheFilled, FetchesSound, ReadAt
<1>4. CASE FromFallback(s, key)
  BY <1>4 DEF FromFallback, FallbackKey, CacheFilled, CacheSound, ReadAt
<1> QED
  BY <1>1, <1>2, <1>3, <1>4 DEF LookedAtWith

\* A token that is accepted is signed with the key it is looked at with, once there
\* is one.
LEMMA AcceptedStep ==
  ASSUME ValidatorInv, ValidatorStep, NEW s \in Slots, LookedAt(s),
         validation'[s].how \in Accepting
  PROVE  LET t == validation'[s].token
         IN  IF CacheFilled' THEN verifyToken([t EXCEPT !.iss = "eigent-registry"])
             ELSE /\ t.exp >= now
                  /\ StaticKey # NoKey => t.signer = StaticKey
<1> DEFINE t == validation'[s].token
<1>1. t \in Tokens
  BY LookingAtTokens
<1>2. t.exp \in Nat /\ now \in Nat
  BY <1>1, TokenValidatorAssumption DEF TokenType, ValidatorInv, ValidatorTypeOK
<1>3. PICK key : LookedAtWith(s, t, key)
  BY LookingAtTokens DEF Accepting
<1>4. IF CacheFilled' THEN key \in 1..Len(keys) ELSE key = StaticKey
  BY <1>3, KeysLookedAtWith
<1>5. VerifiedWith(t, key) \in Accepting
  BY <1>3 DEF LookedAtWith
<1> HIDE DEF t
<1>6. t.exp >= now /\ (key # NoKey => t.signer = key /\ t.exp > now)
  BY <1>2, <1>5 DEF VerifiedWith, JwtVerify, Accepting
<1>7. CacheFilled' => key # NoKey
  BY <1>4 DEF NoKey, ValidatorInv, ValidatorTypeOK
<1> DEFINE own == [t EXCEPT !.iss = "eigent-registry"]
<1>8. own.signer = t.signer /\ own.exp = t.exp /\ own.iss = "eigent-registry"
  BY <1>1, TokenValidatorAssumption DEF TokenType
<1>9. CacheFilled' => verifyToken(own)
  BY <1>4, <1>6, <1>7, <1>8 DEF verifyToken, getAllPublicKeys
<1> QED
  BY <1>4, <1>6, <1>9 DEF t

\* A token of the newest key is refused only while an older key may be cached.
LEMMA NewestStep ==
  ASSUME ValidatorInv, ValidatorStep, NEW s \in Slots, LookedAt(s),
         validation'[s].how = "invalid",
         validation'[s].token.signer = getLatestKey, hasSigningKey,
         validation'[s].token.exp > now,
         RequiredFields(validation'[s].token),
         CacheFilled',
         validation[s].phase = "none" \/ jwksCache' # jwksCache
  PROVE  now - keys[getLatestKey] < CacheTtl + FetchTimeout
<1> DEFINE t == validation'[s].token
           last == Len(keys)
<1>1. t \in Tokens /\ RequiredFields(t) /\ t.signer = last /\ t.exp > now
  BY LookingAtTokens DEF getLatestKey
<1>2. keys \in Seq(Nat) /\ now \in Nat /\ last \in Nat /\ last # 0
  BY DEF ValidatorInv, ValidatorTypeOK, hasSigningKey, getLatestKey
<1>3. PICK key : LookedAtWith(s, t, key)
  BY <1>1, LookingAtTokens DEF RequiredFields
<1>4. key \in 1..last
  BY <1>3, KeysLookedAtWith
<1>5. VerifiedWith(t, key) = "invalid"
  BY <1>3 DEF LookedAtWith
<1>6. key # last
  BY <1>1, <1>2, <1>4, <1>5 DEF VerifiedWith, JwtVerify, NoKey
<1>7. last \in key + 1 .. last /\ keys[last] \in Nat
  BY <1>2, <1>4, <1>6
<1>8. CASE FromCache(s, key)
  <2>1. ReadAt(jwksCache.keys, jwksCache.fetchedAt - FetchTimeout)
    BY <1>8 DEF ValidatorInv, CacheSound, FromCache, CacheFresh
  <2>2. jwksCache.fetchedAt - FetchTimeout <= keys[last]
    BY <1>7, <1>8, <2>1 DEF ReadAt, FromCache
  <2>3. now - jwksCache.fetchedAt < CacheTtl
    BY <1>8 DEF FromCache, CacheFresh
  <2>4. jwksCache.fetchedAt \in Nat
    BY DEF ValidatorInv, ValidatorTypeOK
  <2> QED
    BY <1>2, <1>7, <2>2, <2>3, <2>4, TokenValidatorAssumption DEF getLatestKey
<1>9. CASE FromFetch(s, key)
  <2>1. /\ ReadAt(validation[s].jwks, validation[s].since)
        /\ now <= validation[s].since + FetchTimeout
    BY <1>9 DEF ValidatorInv, FetchesSound, FromFetch
  <2>2. validation[s].since <= keys[last]
    BY <1>7, <1>9, <2>1 DEF ReadAt, FromFetch
  <2>3. validation[s].since \in Nat
    BY <1>9 DEF FromFetch, ValidatorInv, ValidatorTypeOK, Validations, Null,
       Fetches, Lookups, Answers
  <2> QED
    BY <1>2, <1>7, <2>1, <2>2, <2>3, TokenValidatorAssumption DEF getLatestKey
<1>10. ~ FromConfig(key) /\ ~ FromFallback(s, key)
  <2>1. CacheFilled' => jwksCache' # jwksCache \/ RegistryUrl
    BY DEF ValidatorInv, CacheSound, CacheFilled
  <2> QED
    BY <2>1 DEF FromConfig, FromFallback
<1> QED
  BY <1>3, <1>8, <1>9, <1>10 DEF LookedAtWith

-----------------------------------------------------------------------------
(* Requests and the validations they wait for *)

\* What a step of the proxy does to the requests and their validations.
RequestStep ==
    \/ \E s \in Slots, kind \in Kinds, id \in Ids, t \in Tokens :
          /\ request[s] = Free
          /\ request' = [request EXCEPT ![s] =
                            [phase |-> "body", kind |-> kind, id |-> id, token |-> t]]
          /\ UNCHANGED validatorVars
    \/ \E s \in Slots :
          /\ request[s].phase # "validating"
          /\ \/ request' = [request EXCEPT ![s] = Free]
             \/ \E to \in {"upstream", "sse", "answered"} :
                   /\ request[s] # Free
                   /\ request' = [request EXCEPT ![s] = At(to, request[s])]
          /\ UNCHANGED validatorVars
    \/ \E s \in Slots :
          /\ request[s].phase = "body"
          /\ Validate(s, request[s].token)
          /\ request' = [request EXCEPT ![s] = At("validating", request[s])]
    \/ \E s \in Slots :
          /\ request[s].phase = "validating"
          /\ validation' = [validation EXCEPT ![s] = Null]
          /\ \/ request' = [request EXCEPT ![s] = Free]
             \/ request' = [request EXCEPT ![s] = At("upstream", request[s])]
    \/ /\ request' = [s \in Slots |-> Free]
       /\ validation' = [s \in Slots |-> Null]
    \/ \E s \in Slots : Validates(s) /\ UNCHANGED request
    \/ UNCHANGED <<request, validation>>

\* A validation that goes on keeps its token.
LEMMA ValidationKeepsToken ==
  ASSUME ValidatorInv, NEW s \in Slots, Validates(s)
  PROVE  /\ validation[s] # Null /\ validation'[s] # Null
         /\ validation'[s].token = validation[s].token
         /\ \A q \in Slots \ {s} : validation'[q] = validation[q]
<1> USE DEF ValidatorInv, ValidatorTypeOK
<1> DEFINE t == validation[s].token
<1>1. /\ validation \in [Slots -> Validations]
      /\ validation[s].phase \in {"fetch", "revocation"}
  BY DEF Validates, JwksServed, FetchSucceeds, FetchFails, NotRevoked, RevocationUnknown
<1>2. validation[s] \in Fetches \cup Lookups /\ validation[s] # Null /\ t \in Tokens
  BY <1>1 DEF Validations, Null, Fetches, Lookups, Answers
<1>3. ASSUME NEW key, Verify(s, t, key)
      PROVE  \E v \in Lookups \cup Answers :
                validation' = [validation EXCEPT ![s] = v] /\ v.token = t
  BY <1>2, <1>3, VerifySettles
<1>4. CASE JwksServed(s)
  <2>1. validation[s] \in Fetches
    BY <1>1, <1>4 DEF JwksServed, Validations, Null, Lookups, Answers
  <2> DEFINE v == [validation[s] EXCEPT !.jwks = getJwks]
  <2>2. v.phase = "fetch" /\ v.token = t
    BY <2>1 DEF Fetches
  <2>3. validation' = [validation EXCEPT ![s] = v]
    BY <1>4 DEF JwksServed
  <2> HIDE DEF v, t
  <2>4. validation'[s] = v /\ \A q \in Slots \ {s} : validation'[q] = validation[q]
    BY <1>1, <2>3
  <2> QED
    BY <1>2, <2>2, <2>4 DEF t, Null
<1>5. CASE FetchSucceeds(s) \/ FetchFails(s)
  <2>1. PICK v \in Lookups \cup Answers :
           validation' = [validation EXCEPT ![s] = v] /\ v.token = t
    BY <1>3, <1>5 DEF FetchSucceeds, FetchFails
  <2>2. v # Null
    BY DEF Lookups, Answers, Null
  <2> QED
    BY <1>1, <1>2, <2>1, <2>2
<1>6. CASE NotRevoked(s) \/ RevocationUnknown(s)
  <2>1. PICK how : validation' = [validation EXCEPT ![s] = Answer(t, how)]
    BY <1>6 DEF NotRevoked, RevocationUnknown
  <2>2. Answer(t, how) # Null /\ Answer(t, how).token = t
    BY DEF Answer, Null
  <2> QED
    BY <1>1, <1>2, <2>1, <2>2
<1> QED
  BY <1>4, <1>5, <1>6 DEF Validates

\* A request that goes on keeps all but its phase.
LEMMA RequestFields ==
  ASSUME NEW r \in Requests, NEW to \in Phases
  PROVE  /\ At(to, r) \in Requests
         /\ At(to, r).phase = to /\ At(to, r).token = r.token
         /\ r.id \in Ids /\ r.token \in Tokens /\ r.phase \in Phases /\ r # Free
         /\ Free.phase = "free"
BY DEF Requests, At, Phases, Free

RequestInv ==
    /\ request \in [Slots -> {Free} \cup Requests]
    /\ ValidationsBelong

\* Every step of a request keeps where its slot stands.
LEMMA RequestStepKeeps ==
  ASSUME ValidatorInv, RequestInv, RequestStep
  PROVE  RequestInv'
<1> USE DEF RequestInv
<1>0. validation \in [Slots -> Validations]
  BY DEF ValidatorInv, ValidatorTypeOK
<1>1. ASSUME NEW s \in Slots, NEW v \in {Free} \cup Requests,
             request' = [request EXCEPT ![s] = v],
             \A q \in Slots \ {s} : validation'[q] = validation[q],
             validation'[s] = Null <=> v.phase # "validating",
             validation'[s] # Null => validation'[s].token = v.token
      PROVE  RequestInv'
  BY <1>1 DEF ValidationsBelong
<1>2. ASSUME NEW s \in Slots, NEW v \in {Free} \cup Requests,
             request' = [request EXCEPT ![s] = v], UNCHANGED validatorVars,
             request[s].phase # "validating", v.phase # "validating"
      PROVE  RequestInv'
  <2>1. validation' = validation /\ validation[s] = Null
    BY <1>2 DEF ValidationsBelong, validatorVars
  <2> QED
    BY <1>1, <1>2, <2>1
<1>3. ASSUME NEW s \in Slots, NEW kind \in Kinds, NEW id \in Ids, NEW t \in Tokens,
             request[s] = Free, UNCHANGED validatorVars,
             request' = [request EXCEPT ![s] =
                            [phase |-> "body", kind |-> kind, id |-> id, token |-> t]]
      PROVE  RequestInv'
  <2> DEFINE v == [phase |-> "body", kind |-> kind, id |-> id, token |-> t]
  <2>1. v \in Requests /\ v.phase = "body" /\ Free.phase = "free"
    BY DEF Requests, Phases, Free
  <2> HIDE DEF v
  <2> QED
    BY <1>2, <1>3, <2>1 DEF v
<1>4. ASSUME NEW s \in Slots, request[s].phase # "validating",
             request' = [request EXCEPT ![s] = Free], UNCHANGED validatorVars
      PROVE  RequestInv'
  <2>1. Free.phase # "validating"
    BY DEF Free
  <2> QED
    BY <1>2, <1>4, <2>1
<1>5. ASSUME NEW s \in Slots, NEW to \in {"upstream", "sse", "answered"},
             request[s].phase # "validating", request[s] # Free,
             request' = [request EXCEPT ![s] = At(to, request[s])],
             UNCHANGED validatorVars
      PROVE  RequestInv'
  <2>1. At(to, request[s]) \in Requests /\ At(to, request[s]).phase # "validating"
    <3>1. request[s] \in Requests /\ to \in Phases /\ to # "validating"
      BY <1>5 DEF Phases
    <3> QED
      BY <3>1, RequestFields
  <2> QED
    BY <1>2, <1>5, <2>1
<1>6. ASSUME NEW s \in Slots, request[s].phase = "body",
             Validate(s, request[s].token),
             request' = [request EXCEPT ![s] = At("validating", request[s])]
      PROVE  RequestInv'
  <2> DEFINE r == request[s]
  <2>1. r \in Requests
    BY <1>6 DEF Free
  <2>2. /\ At("validating", r) \in Requests
        /\ At("validating", r).phase = "validating" /\ At("validating", r).token = r.token
        /\ r.token \in Tokens
    BY <2>1, RequestFields DEF Phases
  <2>3. PICK v : /\ validation' = [validation EXCEPT ![s] = v]
                 /\ v # Null /\ v.token = r.token
    <3>1. CASE \E key : Verify(s, r.token, key)
      <4>1. PICK v \in Lookups \cup Answers :
               validation' = [validation EXCEPT ![s] = v] /\ v.token = r.token
        BY <2>2, <3>1, VerifySettles
      <4>2. v # Null
        BY DEF Lookups, Answers, Null
      <4> QED
        BY <4>1, <4>2
    <3>2. CASE validation' = [validation EXCEPT ![s] = Answer(r.token, "invalid")]
      <4>1. Answer(r.token, "invalid") # Null /\ Answer(r.token, "invalid").token = r.token
        BY DEF Answer, Null
      <4> QED
        BY <3>2, <4>1
    <3>3. CASE validation' = [validation EXCEPT ![s] = Fetching(r.token, <<>>)]
      <4>1. Fetching(r.token, <<>>) # Null /\ Fetching(r.token, <<>>).token = r.token
        BY DEF Fetching, Null
      <4> QED
        BY <3>3, <4>1
    <3> QED
      BY <1>6, <3>1, <3>2, <3>3 DEF Validate
  <2> HIDE DEF r
  <2>4. /\ validation'[s] = v
        /\ \A q \in Slots \ {s} : validation'[q] = validation[q]
    BY <1>0, <2>3
  <2>5. request' = [request EXCEPT ![s] = At("validating", r)]
    BY <1>6 DEF r
  <2> QED
    BY <1>1, <2>2, <2>3, <2>4, <2>5
<1>7. ASSUME NEW s \in Slots, request[s].phase = "validating",
             validation' = [validation EXCEPT ![s] = Null],
             \/ request' = [request EXCEPT ![s] = Free]
             \/ request' = [request EXCEPT ![s] = At("upstream", request[s])]
      PROVE  RequestInv'
  <2>1. request[s] \in Requests
    BY <1>7 DEF Free
  <2>2. PICK v \in {Free} \cup Requests :
           request' = [request EXCEPT ![s] = v] /\ v.phase # "validating"
    BY <1>7, <2>1, RequestFields DEF Free, Phases
  <2>3. /\ validation'[s] = Null
        /\ \A q \in Slots \ {s} : validation'[q] = validation[q]
    BY <1>0, <1>7
  <2> QED
    BY <1>1, <2>2, <2>3
<1>8. CASE /\ request' = [s \in Slots |-> Free]
           /\ validation' = [s \in Slots |-> Null]
  BY <1>8 DEF ValidationsBelong, Free
<1>9. ASSUME NEW s \in Slots, Validates(s), UNCHANGED request
      PROVE  RequestInv'
  BY <1>9, ValidationKeepsToken DEF ValidationsBelong
<1>10. CASE UNCHANGED <<request, validation>>
  BY <1>10 DEF ValidationsBelong
<1> QED
  BY <1>3, <1>4, <1>5, <1>6, <1>7, <1>8, <1>9, <1>10 DEF RequestStep

-----------------------------------------------------------------------------
(* Spans *)

SpanStep ==
    /\ up' => up
    /\ \/ \E id \in Ids :
             spans' = Started(id) /\ pendingSpans' = Track(id, Len(spans'))
       \/ \E id \in Ids : /\ spans' = EndSpan(Started(id), Len(spans) + 1, "denied")
                          /\ UNCHANGED pendingSpans
       \/ \E id \in Ids, how \in {"error", "answered"} : EndPending(id, how)
       \/ ~up' /\ spans' = Stopped /\ pendingSpans' = [id \in {} |-> 0]
       \/ UNCHANGED <<spans, pendingSpans>>

\* The list when a span was ended: nothing else changes.
LEMMA EndedSpan ==
  ASSUME NEW list \in Seq(Span), NEW i \in DOMAIN list, NEW how \in Ends
  PROVE  /\ EndSpan(list, i, how) \in Seq(Span)
         /\ DOMAIN EndSpan(list, i, how) = DOMAIN list
         /\ EndSpan(list, i, how)[i].end = how
         /\ \A j \in DOMAIN list : EndSpan(list, i, how)[j].id = list[j].id
         /\ \A j \in DOMAIN list \ {i} : EndSpan(list, i, how)[j] = list[j]
<1> DEFINE y == [list[i] EXCEPT !.end = how]
<1>0. list[i] \in Span
  OBVIOUS
<1>1. y \in Span /\ y.end = how /\ y.id = list[i].id
  BY <1>0 DEF Span
<1>2. EndSpan(list, i, how) = [list EXCEPT ![i] = y]
  BY DEF EndSpan
<1> HIDE DEF y
<1> QED
  BY <1>1, <1>2

\* A span that starts is open and the last.
LEMMA StartedSpan ==
  ASSUME SpansTyped, NEW id \in Ids
  PROVE  /\ Started(id) \in Seq(Span)
         /\ DOMAIN Started(id) = DOMAIN spans \cup {Len(spans) + 1}
         /\ Len(spans) + 1 \notin DOMAIN spans /\ Len(Started(id)) = Len(spans) + 1
         /\ \A i \in DOMAIN spans : i < Len(spans) + 1 /\ Started(id)[i] = spans[i]
         /\ Started(id)[Len(spans) + 1].id = id
         /\ Started(id)[Len(spans) + 1].end = "open"
<1> DEFINE x == [id |-> id, end |-> "open"]
<1>1. x \in Span /\ x.id = id /\ x.end = "open"
  BY DEF Span, Ends
<1>2. spans \in Seq(Span) /\ Started(id) = Append(spans, x)
  BY DEF SpansTyped, Started
<1> HIDE DEF x
<1> QED
  BY <1>1, <1>2

\* A request forwarded with a span: its id is that span's from now on.
LEMMA TrackedKeeps ==
  ASSUME SpansInv, NEW id \in Ids, up' => up,
         spans' = Started(id), pendingSpans' = Track(id, Len(spans'))
  PROVE  SpansInv'
<1> USE DEF SpansInv
<1> DEFINE n == Len(spans) + 1
<1>1. /\ spans' \in Seq(Span)
      /\ DOMAIN spans' = DOMAIN spans \cup {n}
      /\ n \notin DOMAIN spans /\ Len(spans') = n
      /\ \A i \in DOMAIN spans : i < n /\ spans'[i] = spans[i]
      /\ spans'[n].id = id /\ spans'[n].end = "open"
  BY StartedSpan
<1>2. /\ DOMAIN pendingSpans' = DOMAIN pendingSpans \cup {id}
      /\ pendingSpans'[id] = n
      /\ \A j \in DOMAIN pendingSpans \ {id} : pendingSpans'[j] = pendingSpans[j]
  BY <1>1 DEF Track
<1> HIDE DEF n
<1>3. SpansTyped'
  BY <1>1, <1>2 DEF SpansTyped
<1>4. PendingOpen'
  BY <1>1, <1>2 DEF PendingOpen, Entry, SpansTyped
<1>5. OpenTracked'
  <2> SUFFICES ASSUME up, NEW i \in DOMAIN spans', spans'[i].end = "open"
               PROVE  \/ \E j \in DOMAIN pendingSpans' : pendingSpans'[j] = i
                      \/ \E j \in DOMAIN spans' : i < j /\ spans'[j].id = spans'[i].id
    BY DEF OpenTracked
  <2>1. CASE i = n
    BY <1>2, <2>1
  <2>2. CASE i \in DOMAIN spans /\ \E j \in DOMAIN pendingSpans : pendingSpans[j] = i
    <3>1. PICK j \in DOMAIN pendingSpans : pendingSpans[j] = i
      BY <2>2
    <3>2. CASE j = id
      BY <1>1, <2>2, <3>1, <3>2 DEF PendingOpen, Entry
    <3> QED
      BY <1>2, <3>1, <3>2
  <2>3. CASE i \in DOMAIN spans /\ \E j \in DOMAIN spans :
                i < j /\ spans[j].id = spans[i].id
    BY <1>1, <2>3
  <2> QED
    BY <1>1, <2>1, <2>2, <2>3 DEF OpenTracked
<1> QED
  BY <1>3, <1>4, <1>5

\* A call that is denied has a span that ends at once.
LEMMA DeniedKeeps ==
  ASSUME SpansInv, NEW id \in Ids, up' => up, UNCHANGED pendingSpans,
         spans' = EndSpan(Started(id), Len(spans) + 1, "denied")
  PROVE  SpansInv'
<1> USE DEF SpansInv
<1> DEFINE n == Len(spans) + 1
<1>1. /\ Started(id) \in Seq(Span)
      /\ DOMAIN Started(id) = DOMAIN spans \cup {n}
      /\ n \notin DOMAIN spans
      /\ \A i \in DOMAIN spans : Started(id)[i] = spans[i]
  BY StartedSpan
<1>2. /\ spans' \in Seq(Span)
      /\ DOMAIN spans' = DOMAIN spans \cup {n}
      /\ \A i \in DOMAIN spans : spans'[i] = spans[i]
      /\ spans'[n].end = "denied"
  <2> DEFINE list == Started(id)
  <2>1. list \in Seq(Span) /\ n \in DOMAIN list /\ "denied" \in Ends
    BY <1>1 DEF Ends
  <2>2. spans' = EndSpan(list, n, "denied")
    OBVIOUS
  <2>3. \A i \in DOMAIN list \ {n} : list[i] = spans[i]
    BY <1>1
  <2>4. DOMAIN list \ {n} = DOMAIN spans /\ DOMAIN list = DOMAIN spans \cup {n}
    BY <1>1
  <2> HIDE DEF list, n
  <2>5. /\ EndSpan(list, n, "denied") \in Seq(Span)
        /\ DOMAIN EndSpan(list, n, "denied") = DOMAIN list
        /\ EndSpan(list, n, "denied")[n].end = "denied"
        /\ \A j \in DOMAIN list \ {n} : EndSpan(list, n, "denied")[j] = list[j]
    BY <2>1, EndedSpan
  <2> QED
    BY <2>2, <2>3, <2>4, <2>5
<1> HIDE DEF n
<1>3. SpansTyped' /\ PendingOpen'
  BY <1>2 DEF SpansTyped, PendingOpen, Entry
<1>4. OpenTracked'
  BY <1>2 DEF OpenTracked
<1> QED
  BY <1>3, <1>4

\* Whatever answer comes for an id ends the span that the id has by then.
LEMMA EndPendingKeeps ==
  ASSUME SpansInv, NEW id \in Ids, NEW how \in {"error", "answered"}, up' => up,
         EndPending(id, how)
  PROVE  SpansInv'
<1> USE DEF SpansInv
<1>1. CASE id \notin DOMAIN pendingSpans
  BY <1>1 DEF EndPending, SpansTyped, PendingOpen, Entry, OpenTracked
<1>2. CASE id \in DOMAIN pendingSpans
  <2> DEFINE i == pendingSpans[id]
  <2>1. i \in DOMAIN spans /\ spans \in Seq(Span) /\ how \in Ends
    BY <1>2 DEF SpansTyped, Ends
  <2>2. spans' = EndSpan(spans, i, how) /\ pendingSpans' = Untrack(id)
    BY <1>2 DEF EndPending
  <2>3. /\ spans' \in Seq(Span) /\ DOMAIN spans' = DOMAIN spans
        /\ spans'[i].end # "open"
        /\ \A j \in DOMAIN spans : spans'[j].id = spans[j].id
        /\ \A j \in DOMAIN spans \ {i} : spans'[j] = spans[j]
    BY <2>1, <2>2, EndedSpan
  <2>4. /\ DOMAIN pendingSpans' = DOMAIN pendingSpans \ {id}
        /\ \A j \in DOMAIN pendingSpans \ {id} : pendingSpans'[j] = pendingSpans[j]
    BY <2>2 DEF Untrack
  <2>5. \A j \in DOMAIN pendingSpans \ {id} : pendingSpans[j] # i
    BY <1>2 DEF PendingOpen, Entry
  <2>6. SpansTyped'
    BY <2>3, <2>4 DEF SpansTyped
  <2>7. PendingOpen'
    BY <2>3, <2>4, <2>5 DEF PendingOpen, Entry, SpansTyped
  <2> HIDE DEF i
  <2>8. OpenTracked'
    <3> SUFFICES ASSUME up, NEW k \in DOMAIN spans', spans'[k].end = "open"
                 PROVE  \/ \E j \in DOMAIN pendingSpans' : pendingSpans'[j] = k
                        \/ \E j \in DOMAIN spans' : k < j /\ spans'[j].id = spans'[k].id
      BY DEF OpenTracked
    <3>1. k \in DOMAIN spans /\ k # i /\ spans[k].end = "open"
      BY <2>3
    <3>2. CASE \E j \in DOMAIN pendingSpans : pendingSpans[j] = k
      BY <2>4, <3>1, <3>2 DEF i
    <3>3. CASE \E j \in DOMAIN spans : k < j /\ spans[j].id = spans[k].id
      BY <2>3, <3>1, <3>3
    <3> QED
      BY <3>1, <3>2, <3>3 DEF OpenTracked
  <2> QED
    BY <2>6, <2>7, <2>8
<1> QED
  BY <1>1, <1>2

\* Every step keeps that only a displaced span is open and not pending.
LEMMA SpanStepKeeps ==
  ASSUME SpansInv, SpanStep
  PROVE  SpansInv'
<1>1. CASE ~up' /\ spans' = Stopped /\ pendingSpans' = [id \in {} |-> 0]
  <2>1. \A i \in DOMAIN spans : [spans[i] EXCEPT !.end = "stopped"] \in Span
    <3>1. ASSUME NEW x \in Span
          PROVE  [x EXCEPT !.end = "stopped"] \in Span
      BY DEF Span, Ends
    <3> QED
      BY <3>1 DEF SpansInv, SpansTyped
  <2>2. spans' \in [DOMAIN spans -> Span]
    BY <1>1, <2>1 DEF Stopped, SpansInv, SpansTyped
  <2>3. spans' \in Seq(Span)
    BY <2>2 DEF SpansInv, SpansTyped
  <2> QED
    BY <1>1, <2>3 DEF SpansInv, SpansTyped, PendingOpen, OpenTracked
<1>2. CASE UNCHANGED <<spans, pendingSpans>>
  BY <1>2 DEF SpanStep, SpansInv, SpansTyped, PendingOpen, Entry, OpenTracked
<1> QED
  BY <1>1, <1>2, TrackedKeeps, DeniedKeeps, EndPendingKeeps DEF SpanStep

-----------------------------------------------------------------------------
(* Counters *)

\* A request arrives, leaves and is counted, leaves uncounted, or goes on.
Arrives ==
    /\ \E s : s \notin InFlight /\ InFlight' = InFlight \cup {s}
    /\ Count("total") /\ UNCHANGED thrown

Departs ==
    /\ \E s \in InFlight : InFlight' = InFlight \ {s}
    /\ Count("blocked") \/ Count("forwarded") \/ Count("errored")
    /\ UNCHANGED thrown

Vanishes ==
    /\ \E s \in InFlight : InFlight' = InFlight \ {s}
    /\ UNCHANGED metrics
    /\ thrown' = thrown + 1

Forgets ==
    /\ InFlight' = {}
    /\ metrics' = NoMetrics /\ thrown' = 0

CountStep ==
    \/ Arrives \/ Departs \/ Vanishes \/ Forgets
    \/ UNCHANGED <<InFlight, metrics, thrown>>

\* Counting adds one to one counter.
LEMMA CountedOnce ==
  ASSUME NEW m \in Metrics, NEW c \in {"total", "blocked", "forwarded", "errored"}
  PROVE  LET n == [m EXCEPT ![c] = @ + 1]
         IN  /\ n \in Metrics
             /\ n.total = IF c = "total" THEN m.total + 1 ELSE m.total
             /\ n.blocked = IF c = "blocked" THEN m.blocked + 1 ELSE m.blocked
             /\ n.forwarded = IF c = "forwarded" THEN m.forwarded + 1 ELSE m.forwarded
             /\ n.errored = IF c = "errored" THEN m.errored + 1 ELSE m.errored
BY DEF Metrics

\* A request in flight is counted in total and not yet in the others.
LEMMA CountStepKeeps ==
  ASSUME CountsInv, CountStep
  PROVE  CountsInv'
<1> USE DEF CountsInv
<1> DEFINE N == Cardinality(InFlight)
<1>0. metrics \in Metrics /\ thrown \in Nat /\ IsFiniteSet(InFlight) /\ N \in Nat
  BY FS_CardinalityType DEF CountsTyped, Metrics
<1>1. CASE Arrives
  <2>1. IsFiniteSet(InFlight') /\ Cardinality(InFlight') = N + 1
    BY <1>0, <1>1, FS_AddElement DEF Arrives
  <2>2. metrics' = [metrics EXCEPT !["total"] = @ + 1] /\ thrown' = thrown
    BY <1>1 DEF Arrives, Count
  <2>3. /\ metrics' \in Metrics
        /\ metrics'.total = metrics.total + 1 /\ metrics'.blocked = metrics.blocked
        /\ metrics'.forwarded = metrics.forwarded /\ metrics'.errored = metrics.errored
    <3> DEFINE n == [metrics EXCEPT !["total"] = @ + 1]
    <3>1. /\ n \in Metrics
          /\ n.total = metrics.total + 1 /\ n.blocked = metrics.blocked
          /\ n.forwarded = metrics.forwarded /\ n.errored = metrics.errored
      BY <1>0 DEF Metrics
    <3> QED
      BY <2>2, <3>1
  <2> QED
    BY <1>0, <2>1, <2>2, <2>3 DEF CountsTyped, Balanced, Metrics
<1>2. ASSUME \E s \in InFlight : InFlight' = InFlight \ {s}
      PROVE  IsFiniteSet(InFlight') /\ Cardinality(InFlight') = N - 1
  BY <1>0, <1>2, FS_RemoveElement
<1>3. CASE Departs
  <2>1. thrown' = thrown /\ (Count("blocked") \/ Count("forwarded") \/ Count("errored"))
    BY <1>3 DEF Departs
  <2>2. /\ metrics' \in Metrics
        /\ metrics'.total = metrics.total
        /\ metrics'.blocked + metrics'.forwarded + metrics'.errored
              = metrics.blocked + metrics.forwarded + metrics.errored + 1
    <3>1. CASE Count("blocked")
      BY <1>0, <3>1, CountedOnce DEF Count, Metrics
    <3>2. CASE Count("forwarded")
      BY <1>0, <3>2, CountedOnce DEF Count, Metrics
    <3>3. CASE Count("errored")
      BY <1>0, <3>3, CountedOnce DEF Count, Metrics
    <3> QED
      BY <2>1, <3>1, <3>2, <3>3
  <2> QED
    BY <1>0, <1>2, <1>3, <2>1, <2>2 DEF CountsTyped, Balanced, Metrics, Departs
<1>4. CASE Vanishes
  BY <1>0, <1>2, <1>4 DEF CountsTyped, Balanced, Metrics, Vanishes
<1>5. CASE Forgets
  BY <1>5, FS_EmptySet DEF Forgets, CountsTyped, Balanced, NoMetrics, Metrics
<1>6. CASE UNCHANGED <<InFlight, metrics, thrown>>
  BY <1>6 DEF CountsTyped, Balanced
<1> QED
  BY <1>1, <1>3, <1>4, <1>5, <1>6 DEF CountStep

-----------------------------------------------------------------------------
(* Every action, part by part *)

Parts ==
    /\ ValidatorStep /\ RequestStep /\ SpanStep /\ CountStep
    /\ staticClaims' \in Results \cup {NotValidated}
    /\ up' \in BOOLEAN

\* One slot goes on: how the requests in flight change.
LEMMA InFlightAfter ==
  ASSUME NEW s \in Slots, NEW v, request \in [Slots -> {Free} \cup Requests],
         request' = [request EXCEPT ![s] = v]
  PROVE  /\ v.phase \in {"body", "validating", "upstream"}
                => InFlight' = InFlight \cup {s}
         /\ v.phase \notin {"body", "validating", "upstream"}
                => InFlight' = InFlight \ {s}
         /\ s \in InFlight
                <=> request[s].phase \in {"body", "validating", "upstream"}
BY DEF InFlight

\* What a POST that arrives does to each part of the invariant.
LEMMA ReceiveParts ==
  ASSUME ProxyInv, NEW s \in Slots, NEW kind \in Kinds, NEW id \in Ids,
         NEW t \in Tokens, Receive(s, kind, id, t)
  PROVE  Parts
<1> DEFINE v == [phase |-> "body", kind |-> kind, id |-> id, token |-> t]
<1>1. /\ UNCHANGED <<keyVars, validatorVars>> /\ UNCHANGED <<spans, pendingSpans>>
      /\ staticClaims' = staticClaims /\ thrown' = thrown /\ up' = up
      /\ request[s] = Free /\ Count("total")
      /\ request' = [request EXCEPT ![s] = v]
  BY DEF Receive
<1>2. RequestStep
  BY <1>1 DEF RequestStep
<1>3. v.phase = "body" /\ Free.phase = "free"
  BY DEF Free
<1> HIDE DEF v
<1>4. CountStep
  BY <1>1, <1>3, InFlightAfter DEF CountStep, Arrives, ProxyInv, ProxyTypeOK
<1> QED
  BY <1>1, <1>2, <1>4 DEF Parts, ValidatorStep, SpanStep, ProxyInv, ProxyTypeOK

\* What an error thrown out of the handler does to a request that waits.
LEMMA ThrowParts ==
  ASSUME ProxyInv, NEW s \in Slots, Throw(s),
         request[s].phase \in {"body", "validating", "upstream"}, up' = up
  PROVE  SpanStep /\ CountStep /\ request' = [request EXCEPT ![s] = Free]
<1>1. request \in [Slots -> {Free} \cup Requests] /\ Free.phase = "free"
  BY DEF ProxyInv, ProxyTypeOK, Free
<1>2. InFlight' = InFlight \ {s} /\ s \in InFlight
  BY <1>1, InFlightAfter DEF Throw
<1>3. UNCHANGED <<spans, pendingSpans>>
  BY DEF Throw
<1>4. Vanishes
  BY <1>2 DEF Throw, Vanishes
<1> QED
  BY <1>3, <1>4 DEF Throw, SpanStep, CountStep

\* What Judge makes of a request that waits: forwarded with a span, blocked, or
\* given up with an error.
LEMMA JudgeParts ==
  ASSUME ProxyInv, NEW s \in Slots, NEW how, Judge(s, request[s], how),
         request[s].phase \in {"body", "validating"}, up' = up
  PROVE  /\ SpanStep /\ CountStep
         /\ \/ request' = [request EXCEPT ![s] = Free]
            \/ request' = [request EXCEPT ![s] = At("upstream", request[s])]
<1> DEFINE r == request[s]
<1>1. request \in [Slots -> {Free} \cup Requests] /\ r \in Requests
  BY DEF ProxyInv, ProxyTypeOK, Free
<1>2. s \in InFlight
  BY DEF InFlight
<1>3. r.id \in Ids /\ At("upstream", r).phase = "upstream" /\ Free.phase = "free"
  BY <1>1, RequestFields DEF Phases, Free
<1>4. CASE ForwardTracked(s, r) /\ UNCHANGED thrown
  <2>1. /\ request' = [request EXCEPT ![s] = At("upstream", r)]
        /\ spans' = Started(r.id) /\ pendingSpans' = Track(r.id, Len(spans'))
        /\ metrics' = metrics
    BY <1>4 DEF ForwardTracked
  <2> HIDE DEF r
  <2>2. InFlight' = InFlight
    BY <1>1, <1>2, <1>3, <2>1, InFlightAfter
  <2>3. SpanStep
    BY <1>3, <2>1 DEF SpanStep, r
  <2>4. CountStep
    BY <1>4, <2>1, <2>2 DEF CountStep
  <2> QED
    BY <2>1, <2>3, <2>4 DEF r
<1>5. CASE Block(s, r) /\ UNCHANGED thrown
  <2>1. /\ request' = [request EXCEPT ![s] = Free]
        /\ spans' = EndSpan(Started(r.id), Len(spans) + 1, "denied")
        /\ Count("blocked") /\ UNCHANGED pendingSpans
    BY <1>5 DEF Block
  <2> HIDE DEF r
  <2>2. InFlight' = InFlight \ {s}
    BY <1>1, <1>3, <2>1, InFlightAfter
  <2>3. SpanStep
    BY <1>3, <2>1 DEF SpanStep
  <2>4. CountStep
    BY <1>2, <1>5, <2>1, <2>2 DEF CountStep, Departs
  <2> QED
    BY <2>1, <2>3, <2>4
<1> QED
  BY <1>4, <1>5, ThrowParts DEF Judge

\* What a body that was parsed does to each part.
LEMMA ParsedParts ==
  ASSUME ProxyInv, NEW s \in Slots, Parsed(s)
  PROVE  Parts
<1> DEFINE r == request[s]
<1>1. /\ r.phase = "body" /\ up /\ up' = up
      /\ staticClaims' = staticClaims
  BY DEF Parsed
<1>2. request \in [Slots -> {Free} \cup Requests] /\ r \in Requests
  BY <1>1 DEF ProxyInv, ProxyTypeOK, Free
<1>3. s \in InFlight
  BY <1>1 DEF InFlight
<1>4. /\ r.id \in Ids /\ r.token \in Tokens /\ r # Free /\ Free.phase = "free"
      /\ At("upstream", r).phase = "upstream"
      /\ At("validating", r).phase = "validating"
  BY <1>2, RequestFields DEF Phases, Free
<1>5. ASSUME UNCHANGED <<keyVars, validatorVars>>, SpanStep, CountStep,
             \/ request' = [request EXCEPT ![s] = Free]
             \/ request' = [request EXCEPT ![s] = At("upstream", r)]
      PROVE  Parts
  BY <1>1, <1>4, <1>5
     DEF Parts, ValidatorStep, RequestStep, ProxyInv, ProxyTypeOK
<1>6. ASSUME r.kind = "garbage", Count("errored"),
             request' = [request EXCEPT ![s] = Free],
             UNCHANGED <<pendingSpans, spans, thrown, keyVars, validatorVars>>
      PROVE  Parts
  <2>1. InFlight' = InFlight \ {s}
    BY <1>2, <1>4, <1>6, InFlightAfter
  <2> QED
    BY <1>1, <1>3, <1>5, <1>6, <2>1 DEF SpanStep, CountStep, Departs
<1>7. ASSUME request' = [request EXCEPT ![s] = At("upstream", r)],
             UNCHANGED <<pendingSpans, spans, metrics, thrown, keyVars,
                         validatorVars>>
      PROVE  Parts
  <2>1. InFlight' = InFlight
    BY <1>2, <1>3, <1>4, <1>7, InFlightAfter
  <2> QED
    BY <1>1, <1>5, <1>7, <2>1 DEF SpanStep, CountStep
<1>8. ASSUME ForwardTracked(s, r), UNCHANGED <<thrown, keyVars, validatorVars>>
      PROVE  Parts
  <2>1. /\ request' = [request EXCEPT ![s] = At("upstream", r)]
        /\ spans' = Started(r.id) /\ pendingSpans' = Track(r.id, Len(spans'))
        /\ metrics' = metrics
    BY <1>8 DEF ForwardTracked
  <2>2. InFlight' = InFlight
    BY <1>2, <1>3, <1>4, <2>1, InFlightAfter
  <2> QED
    BY <1>1, <1>4, <1>5, <1>8, <2>1, <2>2 DEF SpanStep, CountStep
<1>9. ASSUME Judge(s, r, staticClaims), UNCHANGED <<keyVars, validatorVars>>
      PROVE  Parts
  BY <1>1, <1>5, <1>9, JudgeParts
<1>10. ASSUME Validate(s, r.token), UNCHANGED <<pendingSpans, spans, metrics, thrown>>,
              request' = [request EXCEPT ![s] = At("validating", r)]
       PROVE  Parts
  <2>1. InFlight' = InFlight
    BY <1>2, <1>3, <1>4, <1>10, InFlightAfter
  <2>2. RequestStep /\ ValidatorStep
    BY <1>1, <1>4, <1>10 DEF RequestStep, ValidatorStep
  <2> QED
    BY <1>1, <1>10, <2>1, <2>2
       DEF Parts, SpanStep, CountStep, ProxyInv, ProxyTypeOK
<1> QED
  BY <1>6, <1>7, <1>8, <1>9, <1>10 DEF Parsed

\* What the answer of the validator does to each part.
LEMMA ResolvedParts ==
  ASSUME ProxyInv, NEW s \in Slots, Resolved(s)
  PROVE  Parts
<1> DEFINE r == request[s]
<1>1. /\ r.phase = "validating" /\ up /\ up' = up
      /\ validation[s].phase = "done"
      /\ validation' = [validation EXCEPT ![s] = Null]
      /\ UNCHANGED <<keyVars, jwksCache>>
      /\ Judge(s, r, validation[s].how)
      /\ staticClaims' \in {validation[s].how, staticClaims}
  BY DEF Resolved
<1>2. validation[s].how \in Results
  <2>1. validation[s] \in Validations
    BY DEF ProxyInv, ValidatorInv, ValidatorTypeOK
  <2>2. validation[s] \in Answers
    BY <1>1, <2>1 DEF Validations, Null, Fetches, Lookups
  <2> QED
    BY <2>2 DEF Answers
<1>3. /\ SpanStep /\ CountStep
      /\ \/ request' = [request EXCEPT ![s] = Free]
         \/ request' = [request EXCEPT ![s] = At("upstream", r)]
  BY <1>1, JudgeParts
<1>4. RequestStep /\ ValidatorStep
  BY <1>1, <1>3 DEF RequestStep, ValidatorStep, TakeStep
<1> QED
  BY <1>1, <1>2, <1>3, <1>4 DEF Parts, ProxyInv, ProxyTypeOK

\* What the server's answers do: the request leaves, or goes on with a stream.
LEMMA UpstreamParts ==
  ASSUME ProxyInv, NEW s \in Slots, Answered(s) \/ SseEnds(s) \/ SseAnswer(s)
  PROVE  Parts
<1> DEFINE r == request[s]
<1>1. /\ up /\ up' = up /\ staticClaims' = staticClaims
      /\ UNCHANGED <<keyVars, validatorVars>>
      /\ r.phase \in {"upstream", "sse", "answered"}
  BY DEF Answered, JsonAnswer, OtherBody, BodyBreaks, SseOpens, Unreachable, Upstream,
     SseEnds, SseAnswer
<1>2. request \in [Slots -> {Free} \cup Requests] /\ r \in Requests
  BY <1>1 DEF ProxyInv, ProxyTypeOK, Free
<1>3. /\ r.id \in Ids /\ r # Free /\ Free.phase = "free"
      /\ At("sse", r).phase = "sse" /\ At("answered", r).phase = "answered"
  BY <1>2, RequestFields DEF Phases, Free
<1>4. ASSUME SpanStep, CountStep,
             \/ Leave(s)
             \/ request' = [request EXCEPT ![s] = At("sse", r)]
             \/ request' = [request EXCEPT ![s] = At("answered", r)]
      PROVE  Parts
  <2>1. RequestStep
    BY <1>1, <1>3, <1>4 DEF RequestStep, Leave
  <2> QED
    BY <1>1, <1>4, <2>1 DEF Parts, ValidatorStep, ProxyInv, ProxyTypeOK
<1>5. Leave(s) => InFlight' = InFlight \ {s}
  BY <1>2, <1>3, InFlightAfter DEF Leave
<1>6. r.phase = "upstream" => s \in InFlight
  BY DEF InFlight
<1>7. CASE Unreachable(s) \/ JsonAnswer(s)
  <2>1. SpanStep
    BY <1>1, <1>3, <1>7 DEF Unreachable, JsonAnswer, SpanStep
  <2>2. CountStep
    BY <1>5, <1>6, <1>7 DEF Unreachable, JsonAnswer, Upstream, CountStep, Departs
  <2> QED
    BY <1>4, <1>7, <2>1, <2>2 DEF Unreachable, JsonAnswer
<1>8. CASE OtherBody(s)
  BY <1>1, <1>4, <1>5, <1>6, <1>8
     DEF OtherBody, Upstream, SpanStep, CountStep, Departs
<1>9. CASE BodyBreaks(s)
  <2>1. Throw(s) /\ r.phase = "upstream"
    BY <1>9 DEF BodyBreaks, Upstream
  <2> QED
    BY <1>1, <1>4, <2>1, ThrowParts DEF Leave
<1>10. CASE SseOpens(s)
  <2>1. InFlight' = InFlight \ {s}
    BY <1>2, <1>3, <1>10, InFlightAfter DEF SseOpens
  <2> QED
    BY <1>1, <1>4, <1>6, <1>10, <2>1
       DEF SseOpens, Upstream, SpanStep, CountStep, Departs
<1>11. CASE SseAnswer(s)
  <2>1. InFlight' = InFlight \ {s} /\ s \notin InFlight
    BY <1>2, <1>3, <1>11, InFlightAfter DEF SseAnswer
  <2>2. SpanStep
    BY <1>1, <1>3, <1>11 DEF SseAnswer, SpanStep
  <2>3. CountStep
    BY <1>11, <2>1 DEF SseAnswer, CountStep
  <2> QED
    BY <1>4, <1>11, <2>2, <2>3 DEF SseAnswer
<1>12. CASE SseEnds(s)
  <2>1. InFlight' = InFlight
    BY <1>5, <1>12 DEF SseEnds, InFlight
  <2> QED
    BY <1>1, <1>4, <1>12, <2>1 DEF SseEnds, SpanStep, CountStep
<1> QED
  BY <1>7, <1>8, <1>9, <1>10, <1>11, <1>12 DEF Answered

\* Every step, part by part.
LEMMA NextParts ==
  ASSUME ProxyInv, Next
  PROVE  Parts
<1>1. ASSUME UNCHANGED proxyVars, ValidatorStep, RequestStep
      PROVE  Parts
  BY <1>1 DEF Parts, proxyVars, SpanStep, CountStep, InFlight, ProxyInv, ProxyTypeOK
<1>2. CASE up /\ Network /\ UNCHANGED proxyVars
  <2>1. UNCHANGED <<request, validation>>
    BY <1>2 DEF Network, Tick, validatorVars, proxyVars
  <2> QED
    BY <1>1, <1>2, <2>1 DEF ValidatorStep, RequestStep
<1>3. ASSUME NEW s \in Slots, Validates(s), UNCHANGED proxyVars
      PROVE  Parts
  BY <1>1, <1>3 DEF ValidatorStep, RequestStep, proxyVars
<1>4. ASSUME NEW s \in Slots, Handles(s) \/ SseAnswer(s)
      PROVE  Parts
  BY <1>3, <1>4, ParsedParts, ResolvedParts, UpstreamParts DEF Handles
<1>5. ASSUME NEW id \in Ids, GetAnswer(id)
      PROVE  Parts
  BY <1>5 DEF GetAnswer, Parts, ValidatorStep, RequestStep, SpanStep, CountStep,
     InFlight, ProxyInv, ProxyTypeOK, validatorVars
<1>6. CASE Stop
  <2>1. InFlight' = {}
    BY <1>6 DEF Stop, InFlight, Free
  <2> QED
    BY <1>6, <2>1 DEF Stop, Parts, ValidatorStep, ResetStep, RequestStep, SpanStep,
       CountStep, Forgets
<1> QED
  BY <1>2, <1>4, <1>5, <1>6, ReceiveParts DEF Next

\* Every step of the proxy keeps the invariant.
LEMMA StepKeeps ==
  ASSUME ProxyInv, [Next]_vars
  PROVE  ProxyInv' /\ ValidatorStep
<1>1. CASE Next
  <2>1. Parts
    BY <1>1, NextParts
  <2>2. ValidatorInv' /\ RequestInv' /\ SpansInv' /\ CountsInv'
    BY <2>1, ValidatorStepKeeps, RequestStepKeeps, SpanStepKeeps, CountStepKeeps
       DEF Parts, ProxyInv, RequestInv, ProxyTypeOK
  <2> QED
    BY <2>1, <2>2 DEF Parts, ProxyInv, RequestInv, ProxyTypeOK
<1>2. CASE UNCHANGED vars
  <2>1. ValidatorStep /\ RequestStep /\ SpanStep /\ CountStep
    BY <1>2 DEF vars, proxyVars, validatorVars, ValidatorStep, RequestStep, SpanStep,
       CountStep, InFlight
  <2>2. ValidatorInv' /\ RequestInv' /\ SpansInv' /\ CountsInv'
    BY <2>1, ValidatorStepKeeps, RequestStepKeeps, SpanStepKeeps, CountStepKeeps
       DEF ProxyInv, RequestInv, ProxyTypeOK
  <2> QED
    BY <1>2, <2>1, <2>2 DEF vars, proxyVars, ProxyInv, RequestInv, ProxyTypeOK
<1> QED
  BY <1>1, <1>2

\* At the start nothing is in flight and nothing is counted.
LEMMA InitHolds ==
  ASSUME Init
  PROVE  ProxyInv
<1>1. /\ keys = <<>> /\ boot = [r \in Registries |-> "down"] /\ now = 0
      /\ jwksCache = [keys |-> <<>>, fetchedAt |-> 0]
      /\ validation = [s \in Slots |-> Null] /\ request = [s \in Slots |-> Free]
      /\ staticClaims = NotValidated /\ up = TRUE
      /\ pendingSpans = [id \in {} |-> 0] /\ spans = <<>>
      /\ metrics = NoMetrics /\ thrown = 0
  BY DEF Init, KeysInit, NoCache
<1>2. ValidatorInv
  BY <1>1 DEF ValidatorInv, ValidatorTypeOK, BootStates, Validations, KeysInPast,
     CacheSound, CacheFilled, FetchesSound, Null
<1>3. ProxyTypeOK /\ ValidationsBelong
  BY <1>1 DEF ProxyTypeOK, ValidationsBelong, Free
<1>4. SpansInv
  BY <1>1 DEF SpansInv, SpansTyped, PendingOpen, OpenTracked
<1>5. InFlight = {}
  BY <1>1 DEF InFlight, Free
<1>6. CountsInv
  BY <1>1, <1>5, FS_EmptySet DEF CountsInv, CountsTyped, Balanced, NoMetrics, Metrics
<1> QED
  BY <1>2, <1>3, <1>4, <1>6 DEF ProxyInv

-----------------------------------------------------------------------------
(* The theorems *)

\* The inductive invariant: the keys of the cache and of the fetches are those
\* of the registry at a known time, a validation is that of the request that
\* waits for it, open spans are found or displaced, and the counters add up.
THEOREM ProxyInvariant == Spec => []ProxyInv
<1>1. Init => ProxyInv
  BY InitHolds
<1>2. ProxyInv /\ [Next]_vars => ProxyInv'
  BY StepKeeps
<1> QED
  BY <1>1, <1>2, PTL DEF Spec

\* Every variable of the proxy and of the token validator keeps its type: a row
\* of pendingSpans is one of spans, no counter is negative.
THEOREM TypeCorrect == Spec => []TypeOK
<1>1. ProxyInv => TypeOK
  BY DEF ProxyInv, TypeOK, ValidatorInv, SpansInv, CountsInv
<1> QED
  BY <1>1, ProxyInvariant, PTL

\* The counters of /metrics account for every request but those out of whose handler
\* an error was thrown, and every open span is in pendingSpans or was displaced by a
\* later request with its id.
THEOREM RequestsAreAccountedFor == Spec => []NothingUnaccounted
<1>1. ProxyInv => NothingUnaccounted
  BY DEF ProxyInv, NothingUnaccounted, CountsInv, Balanced, SpansInv, PendingOpen,
     OpenTracked
<1> QED
  BY <1>1, ProxyInvariant, PTL

\* A request is judged by the result of the validation of its own token, however
\* many validations share the cache.
THEOREM ValidationsAreTheirOwn == Spec => []ValidationsBelong
<1>1. ProxyInv => ValidationsBelong
  BY DEF ProxyInv
<1> QED
  BY <1>1, ProxyInvariant, PTL

\* TokenValidator.validate accepts only what the registry would verify with one
\* of its keys, were it the issuer; before the first fetch that succeeds, what the
\* configured key verifies, and without such a key what has not expired.
THEOREM AcceptedTokensAreSigned == Spec => AcceptedIsSigned
<1> DEFINE A == \A s \in Slots :
                   (LookedAt(s) /\ validation'[s].how \in Accepting) =>
                      LET t == validation'[s].token
                      IN  IF CacheFilled'
                          THEN verifyToken([t EXCEPT !.iss = "eigent-registry"])
                          ELSE /\ t.exp >= now
                               /\ StaticKey # NoKey => t.signer = StaticKey
<1>1. ProxyInv /\ [Next]_vars => [A]_<<keyVars, validatorVars>>
  BY StepKeeps, AcceptedStep DEF ProxyInv
<1> QED
  BY <1>1, ProxyInvariant, PTL DEF Spec, AcceptedIsSigned

\* A token signed with the registry's newest key is not refused for its key once
\* the key is as old as the cache may be and a fetch may take, unless the
\* registry cannot be reached.
THEOREM NewestKeysAreLearnt == Spec => NewestKeyIsLearnt
<1> DEFINE A == \A s \in Slots :
                   (/\ LookedAt(s) /\ validation'[s].how = "invalid"
                    /\ validation'[s].token.signer = getLatestKey /\ hasSigningKey
                    /\ validation'[s].token.exp > now
                    /\ RequiredFields(validation'[s].token)
                    /\ CacheFilled'
                    /\ \/ validation[s].phase = "none"
                       \/ jwksCache' # jwksCache)
                   => now - keys[getLatestKey] < CacheTtl + FetchTimeout
<1>1. ProxyInv /\ [Next]_vars => [A]_<<keyVars, validatorVars>>
  BY StepKeeps, NewestStep DEF ProxyInv
<1> QED
  BY <1>1, ProxyInvariant, PTL DEF Spec, NewestKeyIsLearnt
=============================================================================
