--------------------------- MODULE TokenValidator ---------------------------
(***************************************************************************)
(* TokenValidator of the sidecar: it verifies tokens with the first key of *)
(* the registry's JWKS, which it caches, and asks the registry whether the *)
(* token was revoked.  Several validations may be under way, each awaiting *)
(* a fetch of its own, and all of them share the cache.  Without any key a *)
(* token is decoded only.                                                  *)
(***************************************************************************)
EXTENDS SigningKeys

CONSTANTS
    Slots,         \* validations that may be under way at a time
    Tokens,        \* the tokens clients come with
    RegistryUrl,   \* a registry is configured
    StaticKey,     \* the key configured beside it, 0 if none
    FailMode,      \* "open" or "closed"
    CacheTtl,      \* five minutes
    FetchTimeout   \* five seconds

\* A token: the registry's key that signed it (0: some other key), the shape of
\* its claims, who issued it, when it expires, and whether it has an id and the
\* tool in scope.  The claims are those of the core library, also "chainless",
\* without the chain of the delegation, or those of the registry; or the payload
\* is "null", or the token "malformed".
Shapes == {"core", "chainless", "registry", "null", "malformed"}
TokenType == [signer: Nat, shape: Shapes, iss: {"eigent-registry", "other"},
              exp: Nat, jti: BOOLEAN, scope: BOOLEAN]

ASSUME TokenValidatorAssumption ==
    /\ Tokens \subseteq TokenType
    /\ RegistryUrl \in BOOLEAN
    /\ StaticKey \in Nat
    /\ FailMode \in {"open", "closed"}
    /\ CacheTtl \in Nat \ {0}
    /\ FetchTimeout \in Nat

VARIABLES
    jwksCache,   \* [keys, fetchedAt] of the last fetch that succeeded
    validation   \* what each validation awaits

validatorVars == <<jwksCache, validation>>

Null == [phase |-> "none"]
NoCache == [keys |-> <<>>, fetchedAt |-> 0]
NoKey == 0

Fetching(t, jwks) == [phase |-> "fetch", token |-> t, jwks |-> jwks, since |-> now]
CheckingRevocation(t, how) == [phase |-> "revocation", token |-> t, how |-> how]
Answer(t, how) == [phase |-> "done", token |-> t, how |-> how]

CacheFilled == jwksCache.keys # <<>>

\* variant: a key once cached is fresh
CacheKept == CacheFilled

CacheFresh == CacheFilled /\ now - jwksCache.fetchedAt < CacheTtl

Results == {"verified", "decoded", "invalid", "threw"}
Accepting == {"verified", "decoded"}

\* extractClaims and validateRequiredFields: the registry's own tokens have
\* neither human, agent and delegation nor an audience; of the delegation only
\* the depth is looked at.
RequiredFields(t) == t.shape \in {"core", "chainless"}

\* jwtVerify with the key; how far a verified or a merely decoded token gets, if
\* validation does not throw at what it decodes
JwtVerify(t, key) == t.signer = key /\ t.exp > now
VerifiedWith(t, key) ==
    IF key # NoKey
    THEN IF JwtVerify(t, key) /\ RequiredFields(t) THEN "verified" ELSE "invalid"
    ELSE IF t.shape = "null" THEN "threw"
    ELSE IF RequiredFields(t) /\ t.exp >= now THEN "decoded" ELSE "invalid"

\* The rest of validate once a key is there, or known to be missing.
Verify(s, t, key) ==
    validation' = [validation EXCEPT ![s] =
        IF VerifiedWith(t, key) \in Accepting /\ RegistryUrl /\ t.jti
        THEN CheckingRevocation(t, VerifiedWith(t, key))
        ELSE Answer(t, VerifiedWith(t, key))]

\* validate, and resolvePublicKey up to its fetch
Validate(s, t) ==
    /\ validation[s] = Null
    /\ UNCHANGED <<jwksCache, keyVars>>
    /\ \/ /\ t.shape = "malformed"
          /\ validation' = [validation EXCEPT ![s] = Answer(t, "invalid")]
       \/ /\ t.shape # "malformed" /\ (CacheFresh \/ ~RegistryUrl)
          /\ Verify(s, t, IF RegistryUrl THEN jwksCache.keys[1] ELSE StaticKey)
       \/ /\ t.shape # "malformed" /\ RegistryUrl /\ ~CacheFresh
          /\ validation' = [validation EXCEPT ![s] = Fetching(t, <<>>)]

\* A registry process reads the keys for the answer to the fetch ...
JwksServed(s) ==
    /\ validation[s].phase = "fetch" /\ validation[s].jwks = <<>>
    /\ Serving
    /\ validation' = [validation EXCEPT ![s].jwks = getJwks]
    /\ UNCHANGED <<jwksCache, keyVars>>

\* ... which arrives: it is cached, whatever arrived meanwhile.
FetchSucceeds(s) ==
    /\ validation[s].phase = "fetch" /\ validation[s].jwks # <<>>
    /\ jwksCache' = [keys |-> validation[s].jwks, fetchedAt |-> now]
    /\ Verify(s, validation[s].token, validation[s].jwks[1])
    /\ UNCHANGED keyVars

\* variant: keys that are out of date are no better than none
StaticKeyOnly == StaticKey

FallbackKey == IF CacheFilled THEN jwksCache.keys[1] ELSE StaticKey

\* An error, or five seconds without an answer: the cached key, however old,
\* then the static one, then none; the error itself is swallowed.
FetchFails(s) ==
    /\ validation[s].phase = "fetch"
    /\ Verify(s, validation[s].token, FallbackKey)
    /\ UNCHANGED <<jwksCache, keyVars>>

\* The registry has no such route: its answer is 404.
NotRevoked(s) ==
    /\ validation[s].phase = "revocation" /\ Serving
    /\ validation' = [validation EXCEPT ![s] =
                          Answer(validation[s].token, validation[s].how)]
    /\ UNCHANGED <<jwksCache, keyVars>>

\* No answer, or one that says neither: the fail mode decides.
RevocationUnknown(s) ==
    /\ validation[s].phase = "revocation"
    /\ validation' = [validation EXCEPT ![s] =
          Answer(validation[s].token,
                 IF FailMode = "closed" THEN "invalid" ELSE validation[s].how)]
    /\ UNCHANGED <<jwksCache, keyVars>>

\* The timers of the fetches fire in time.
ClockMayTick ==
    \A s \in Slots : validation[s].phase = "fetch"
                        => now < validation[s].since + FetchTimeout

Tick ==
    /\ now < MaxTime
    /\ ClockMayTick
    /\ now' = now + 1
    /\ UNCHANGED <<keys, boot, jwksCache, validation>>

Network ==
    \/ \E r \in Registries : (Starts(r) \/ KeyGenerated(r))
                                /\ UNCHANGED validatorVars
    \/ Tick

Validates(s) == \/ JwksServed(s) \/ FetchSucceeds(s) \/ FetchFails(s)
                \/ NotRevoked(s) \/ RevocationUnknown(s)

-----------------------------------------------------------------------------
(* Properties *)

\* The validation ends in this step, or goes on to ask about revocation: its
\* token has been looked at.
LookedAt(s) == /\ validation'[s] # validation[s]
               /\ validation'[s].phase \in {"revocation", "done"}
               /\ validation[s].phase \in {"none", "fetch"}

\* Answers overlap and keys are cached beyond their time, and yet a token that is
\* accepted is signed with a key of the registry and in date: the registry would
\* refuse it for its issuer at most, which the sidecar does not look at.  By its
\* looks a token is accepted only as long as no fetch of the keys, by whichever
\* validation, has ever succeeded, and no key is configured.
AcceptedIsSigned ==
    [][\A s \in Slots : (LookedAt(s) /\ validation'[s].how \in Accepting) =>
          LET t == validation'[s].token
          IN  IF CacheFilled' THEN verifyToken([t EXCEPT !.iss = "eigent-registry"])
              ELSE /\ t.exp >= now
                   /\ StaticKey # NoKey => t.signer = StaticKey
      ]_<<keyVars, validatorVars>>

\* A token signed with the newest key is not mistaken for a foreign one for
\* longer than a cached key lives and a fetch takes, unless the registry cannot
\* be reached.
NewestKeyIsLearnt ==
    [][\A s \in Slots :
          (/\ LookedAt(s) /\ validation'[s].how = "invalid"
           /\ validation'[s].token.signer = getLatestKey /\ hasSigningKey
           /\ validation'[s].token.exp > now
           /\ RequiredFields(validation'[s].token)
           /\ CacheFilled'
           /\ \/ validation[s].phase = "none"
              \/ jwksCache' # jwksCache)
          => now - keys[getLatestKey] < CacheTtl + FetchTimeout
      ]_<<keyVars, validatorVars>>

\* auth.ts:148, "If we cannot get a key and fail mode is closed, deny": in
\* closed mode a token is accepted only if a key verified it.
DocumentedFailClosed ==
    (RegistryUrl /\ FailMode = "closed") =>
        \A s \in Slots : validation[s].phase = "done" => validation[s].how # "decoded"
=============================================================================
