------------------------------ MODULE Sessions ------------------------------
(***************************************************************************)
(* OIDC login at the registry.  A login leaves a flow, under a random      *)
(* state; the callback takes it away and then awaits the provider several  *)
(* times: for its discovery document, for the tokens, for its keys.  Then  *)
(* it stores a session and an audit entry.  Both refer to rows that no     *)
(* code of the registry inserts: without them the database refuses.        *)
(***************************************************************************)
EXTENDS RateLimit

CONSTANTS
    Slots,       \* requests that may be under way at a time
    FlowTtl,     \* AUTH_FLOW_TTL_MS, ten minutes
    CacheTtl,    \* JWKS_CACHE_TTL_MS, an hour
    SessionTtl,  \* a day
    Seedings,    \* what may have been inserted by hand: SeedRows
    MaxFlows,    \* bound: logins
    MaxKeys,     \* bound: keys of the provider
    MaxTime      \* bound of the clock

\* A provider with id 'env-default', and with it an agent with id 'system'
SeedRows == {"none", "provider", "provider and agent"}

ASSUME SessionsAssumption ==
    /\ Seedings \subseteq SeedRows
    /\ {FlowTtl, CacheTtl, SessionTtl, MaxFlows, MaxKeys, MaxTime} \subseteq Nat

VARIABLES
    seeded,
    pendingAuthFlows,  \* state -> createdAt
    flows,             \* how many flows there have been; they are the states
    request,           \* slot -> the login or callback under way
    discoveryCache,    \* when the document was asked for
    jwksCache,         \* the keys it has, and when it was asked for
    rotations,         \* of the provider: when each of its keys was new
    sessions,          \* every session row ever stored
    answers            \* callbacks that were answered with a session

flowVars == <<pendingAuthFlows, flows>>
cacheVars == <<discoveryCache, jwksCache>>
sessionVars == <<sessions, answers>>
vars == <<now, limiterVars, seeded, flowVars, request, cacheVars, rotations, sessionVars>>

Free == [phase |-> "free"]
Never == -1
Cached(fetchedAt) == fetchedAt # Never /\ now - fetchedAt < CacheTtl

NewestKey == Len(rotations)

Awaits(phase, kind, flow, code, token) ==
    [phase |-> phase, kind |-> kind, flow |-> flow, code |-> code, token |-> token,
     since |-> now]

Done(s) == request' = [request EXCEPT ![s] = Free]

-----------------------------------------------------------------------------
(* POST /api/auth/login *)

\* State and verifier are random: no flow has them yet.
generatePKCE == flows + 1

\* The challenge goes along in the URL, and the provider binds the code to it:
\* a code is the flow that it was made for.
Codes == 1..flows

\* The flow is stored and those that are too old are removed.
StoreFlow ==
    /\ flows' = generatePKCE
    /\ pendingAuthFlows' =
          [f \in {g \in DOMAIN pendingAuthFlows : now - pendingAuthFlows[g] <= FlowTtl}
                 \cup {generatePKCE} |->
              IF f = generatePKCE THEN now ELSE pendingAuthFlows[f]]

Login(s, key) ==
    /\ request[s] = Free /\ flows < MaxFlows
    /\ Admit(key)
    /\ IF Cached(discoveryCache)
       THEN StoreFlow /\ UNCHANGED request
       ELSE /\ request' = [request EXCEPT ![s] = Awaits("discovery", "login", 0, 0, 0)]
            /\ UNCHANGED flowVars
    /\ UNCHANGED <<now, seeded, cacheVars, rotations, sessionVars>>

-----------------------------------------------------------------------------
(* POST /api/auth/callback *)

FlowsWithout(state) == DOMAIN pendingAuthFlows \ {state}

\* The flow is taken, then its age is looked at.
Callback(s, key, state, code) ==
    /\ request[s] = Free
    /\ Admit(key)
    /\ IF state \in DOMAIN pendingAuthFlows
       THEN /\ pendingAuthFlows' = [f \in FlowsWithout(state) |-> pendingAuthFlows[f]]
            /\ IF now - pendingAuthFlows[state] > FlowTtl
               THEN UNCHANGED request
               ELSE request' = [request EXCEPT ![s] =
                        Awaits(IF Cached(discoveryCache) THEN "exchange" ELSE "discovery",
                               "callback", state, code, 0)]
       ELSE UNCHANGED <<pendingAuthFlows, request>>
    /\ UNCHANGED <<now, seeded, flows, cacheVars, rotations, sessionVars>>

\* discoverProvider gets its answer
Discovered(s) ==
    LET r == request[s] IN
    /\ r.phase = "discovery"
    /\ discoveryCache' = r.since
    /\ IF r.kind = "login"
       THEN StoreFlow /\ Done(s)
       ELSE /\ request' = [request EXCEPT ![s] =
                  Awaits(IF r.token = 0 THEN "exchange" ELSE "keys",
                         "callback", r.flow, r.code, r.token)]
            /\ UNCHANGED flowVars
    /\ UNCHANGED <<now, limiterVars, seeded, jwksCache, rotations, sessionVars>>

\* exchangeCodeForTokens: the provider compares the code with the verifier of
\* the flow, and signs with its newest key.
Exchanged(s) ==
    LET r == request[s] IN
    /\ r.phase = "exchange" /\ r.code = r.flow
    /\ request' = [request EXCEPT ![s] =
          Awaits(IF Cached(discoveryCache) THEN "keys" ELSE "discovery",
                 "callback", r.flow, r.code, NewestKey)]
    /\ UNCHANGED <<now, limiterVars, seeded, flowVars, cacheVars, rotations, sessionVars>>

\* Any of the awaits throws: 500, or 401
Fails(s) ==
    /\ request[s] # Free
    /\ Done(s)
    /\ UNCHANGED <<now, limiterVars, seeded, flowVars, cacheVars, rotations, sessionVars>>

\* fetchJWKS asks the provider.  The entry will have the time of the question.
AsksForKeys(s) ==
    LET r == request[s] IN
    /\ r.phase = "keys" /\ ~Cached(jwksCache.fetchedAt)
    /\ request' = [request EXCEPT ![s] =
          [phase |-> "fetching", flow |-> r.flow, token |-> r.token,
           known |-> NewestKey, since |-> now]]
    /\ UNCHANGED <<now, limiterVars, seeded, flowVars, cacheVars, rotations, sessionVars>>

\* variant: the entry is as old as the answer
AnsweredAt(r) == now

AskedAt(r) == r.since

NewSession(flow) == [flow |-> flow, stored |-> TRUE, expires_at |-> now + SessionTtl]

\* variant: the answer does not wait for the audit entry
StoreSessionFirst(r) ==
    /\ sessions' = IF seeded = "none" THEN sessions ELSE Append(sessions, NewSession(r.flow))
    /\ answers' = IF seeded = "none" THEN answers ELSE answers \cup {Len(sessions')}

\* insertSession, then insertAuditLog: two statements, no transaction
StoreSession(r) ==
    /\ sessions' = IF seeded = "none" THEN sessions ELSE Append(sessions, NewSession(r.flow))
    /\ answers' = IF seeded = "provider and agent"
                  THEN answers \cup {Len(sessions')} ELSE answers

\* jwtVerify, and what follows it without a further await
Verified(s, known) ==
    LET r == request[s] IN
    /\ IF r.token <= known THEN StoreSession(r) ELSE UNCHANGED sessionVars
    /\ Done(s)
    /\ UNCHANGED <<now, limiterVars, seeded, flowVars, discoveryCache, rotations>>

KeysArrive(s) ==
    LET r == request[s] IN
    /\ r.phase = "fetching"
    /\ jwksCache' = [known |-> r.known, fetchedAt |-> AskedAt(r)]
    /\ Verified(s, r.known)

KeysKept(s) ==
    /\ request[s].phase = "keys" /\ Cached(jwksCache.fetchedAt)
    /\ Verified(s, jwksCache.known)
    /\ UNCHANGED jwksCache

-----------------------------------------------------------------------------
(* The sessions, and everything else *)

\* getActiveSession
Active(i) == sessions[i].stored /\ sessions[i].expires_at > now

\* POST /api/auth/session/verify: the sessions it calls valid.  A client knows of
\* those that it was answered with.
Verifiable == {i \in answers : Active(i)}

\* GET /api/auth/providers: the row, or else what the environment says; enabled
\* and under the same id either way
ListedFrom == IF seeded = "none" THEN "environment" ELSE "table"

\* POST /api/auth/logout: the row is deleted, expired or not.
Logout(key, i) ==
    /\ i \in answers /\ sessions[i].stored
    /\ Admit(key)
    /\ sessions' = [sessions EXCEPT ![i].stored = FALSE]
    /\ UNCHANGED <<now, seeded, flowVars, request, cacheVars, rotations, answers>>

TooManyRequests(key) ==
    /\ Refuse(key)
    /\ UNCHANGED <<now, seeded, flowVars, request, cacheVars, rotations, sessionVars>>

CleanupTimer ==
    /\ Cleanup
    /\ UNCHANGED <<now, seeded, flowVars, request, cacheVars, rotations, sessionVars>>

ProviderRotates ==
    /\ NewestKey < MaxKeys
    /\ rotations' = Append(rotations, now)
    /\ UNCHANGED <<now, limiterVars, seeded, flowVars, request, cacheVars, sessionVars>>

Tick ==
    /\ now < MaxTime
    /\ now' = now + 1
    /\ UNCHANGED <<limiterVars, seeded, flowVars, request, cacheVars, rotations,
                   sessionVars>>

Init ==
    /\ now = 0 /\ LimiterInit
    /\ seeded \in Seedings
    /\ pendingAuthFlows = [f \in {} |-> 0] /\ flows = 0
    /\ request = [s \in Slots |-> Free]
    /\ discoveryCache = Never /\ jwksCache = [known |-> 0, fetchedAt |-> Never]
    /\ rotations = <<0>>
    /\ sessions = <<>> /\ answers = {}

Provider(s) == \/ Discovered(s) \/ Exchanged(s) \/ AsksForKeys(s)
               \/ KeysArrive(s) \/ KeysKept(s) \/ Fails(s)

Next ==
    \/ \E s \in Slots, key \in Clients :
          \/ Login(s, key)
          \/ \E state \in 1..flows, code \in Codes : Callback(s, key, state, code)
    \/ \E s \in Slots : Provider(s)
    \/ \E key \in Clients, i \in answers : Logout(key, i)
    \/ \E key \in Clients : TooManyRequests(key)
    \/ CleanupTimer \/ ProviderRotates \/ Tick

Spec == Init /\ [][Next]_vars

-----------------------------------------------------------------------------
(* Properties *)

\* However many callbacks come with the same state, in whatever order their
\* awaits end: a login makes at most one session, and none that is verifiable
\* can be made again.  A callback that stores a session and then fails tells
\* nobody of it: the sessions that clients hold are those whose audit entry was
\* written, too, which takes two rows that only an operator's hand can have
\* inserted, though the provider is listed as enabled without them; and the
\* other sessions stay, for nothing deletes them.
LoginsSound ==
    /\ \A i, j \in DOMAIN sessions : sessions[i].flow = sessions[j].flow => i = j
    /\ \A i \in Verifiable : sessions[i].flow \notin DOMAIN pendingAuthFlows
    /\ answers # {} => seeded = "provider and agent" /\ ListedFrom = "table"
    /\ seeded = "provider and agent" => answers = DOMAIN sessions
    /\ \A i \in DOMAIN sessions \ answers : sessions[i].stored

\* A token of the provider's newest key is refused for its key only within a
\* CacheTtl of that key's first use, however long the answer with the keys took.
NewKeyIsLearnt ==
    [][\A s \in Slots :
          (/\ request[s].phase = "keys" /\ request'[s] = Free
           /\ Cached(jwksCache.fetchedAt) /\ request[s].token > jwksCache.known)
          => now - rotations[request[s].token] < CacheTtl]_vars
=============================================================================
