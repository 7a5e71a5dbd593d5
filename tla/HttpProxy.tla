----------------------------- MODULE HttpProxy -----------------------------
(***************************************************************************)
(* HttpMcpProxy in enforce mode: POST requests of several clients are      *)
(* judged by the claims of their tokens and forwarded to the MCP server,   *)
(* which answers with a JSON body or with a stream of events.  Spans are   *)
(* found again by JSON-RPC id, and the clients choose their ids without    *)
(* knowing of each other.  The claims of the proxy's own token are         *)
(* validated once and kept.                                                *)
(***************************************************************************)
EXTENDS TokenValidator

CONSTANTS
    StaticToken,  \* --eigent-token, used by requests that bring none
    Ids,          \* JSON-RPC ids
    MaxRequests   \* bound: requests received

ASSUME HttpProxyAssumption ==
    /\ StaticToken \in Tokens
    /\ MaxRequests \in Nat

VARIABLES
    request,       \* slot -> the POST being handled, if any
    staticClaims,  \* cachedStaticClaims with staticClaimsValidated
    pendingSpans,  \* id -> span, as an index of spans
    spans,         \* every span that was started
    metrics,       \* requestsTotal, -Blocked, -Forwarded, -Errored
    thrown,        \* requests out of whose handler an error was thrown
    up             \* the proxy runs

proxyVars == <<request, staticClaims, pendingSpans, spans, metrics, thrown, up>>
vars == <<keyVars, validatorVars, proxyVars>>

\* "call" names a tool; "request" is any other method; "untracked" is neither,
\* a tools/call without a name included; "garbage" is no JSON-RPC at all.
Kinds == {"call", "request", "untracked", "garbage"}

Free == [phase |-> "free"]
NotValidated == "no"

At(phase, r) == [r EXCEPT !.phase = phase]

NoMetrics == [total |-> 0, blocked |-> 0, forwarded |-> 0, errored |-> 0]
Count(counter) == metrics' = [metrics EXCEPT ![counter] = @ + 1]

-----------------------------------------------------------------------------
(* Spans *)

\* startRequestSpan and endSpan
Started(id) == Append(spans, [id |-> id, end |-> "open"])
EndSpan(list, i, how) == [list EXCEPT ![i].end = how]

\* Map.set and Map.delete
Track(id, i) ==
    [j \in DOMAIN pendingSpans \cup {id} |-> IF j = id THEN i ELSE pendingSpans[j]]
Untrack(id) == [j \in DOMAIN pendingSpans \ {id} |-> pendingSpans[j]]

\* variant: the entry of the map is forgotten, not removed
EndPendingOnly(id, how) ==
    IF id \in DOMAIN pendingSpans
    THEN /\ spans' = EndSpan(spans, pendingSpans[id], how)
         /\ UNCHANGED pendingSpans
    ELSE UNCHANGED <<spans, pendingSpans>>

\* handleUpstreamResponse and endPendingSpan: whatever span the id has
EndPending(id, how) ==
    IF id \in DOMAIN pendingSpans
    THEN /\ spans' = EndSpan(spans, pendingSpans[id], how)
         /\ pendingSpans' = Untrack(id)
    ELSE UNCHANGED <<spans, pendingSpans>>

-----------------------------------------------------------------------------
(* POST /mcp until it is forwarded *)

\* with a span that the answer will end
ForwardTracked(s, r) ==
    /\ spans' = Started(r.id)
    /\ pendingSpans' = Track(r.id, Len(spans'))
    /\ request' = [request EXCEPT ![s] = At("upstream", r)]
    /\ UNCHANGED metrics

\* a call that policy denies: its span ends at once, the client is told
Block(s, r) ==
    /\ spans' = EndSpan(Started(r.id), Len(spans) + 1, "denied")
    /\ Count("blocked")
    /\ request' = [request EXCEPT ![s] = Free]
    /\ UNCHANGED pendingSpans

\* 500, and no counter of /metrics knows of the request any more.
Throw(s) ==
    /\ thrown' = thrown + 1
    /\ request' = [request EXCEPT ![s] = Free]
    /\ UNCHANGED <<metrics, spans, pendingSpans>>

\* evaluate in enforce mode, without policy rules.  The handler throws where
\* validation did, and at accepted claims without a chain.
Judge(s, r, how) ==
    LET throws == how = "threw" \/ (how \in Accepting /\ r.token.shape = "chainless")
    IN  \/ throws /\ Throw(s)
        \/ /\ ~throws /\ UNCHANGED thrown
           /\ IF how \in Accepting /\ r.token.scope
              THEN ForwardTracked(s, r) ELSE Block(s, r)

\* The request is counted, and its body awaited.
Receive(s, kind, id, t) ==
    /\ up /\ request[s] = Free /\ metrics.total < MaxRequests
    /\ Count("total")
    /\ request' = [request EXCEPT ![s] =
                       [phase |-> "body", kind |-> kind, id |-> id, token |-> t]]
    /\ UNCHANGED <<staticClaims, pendingSpans, spans, thrown, up, keyVars,
                   validatorVars>>

Kept(r) == r.token = StaticToken /\ staticClaims # NotValidated

\* The body is there: a call is judged by the claims that were kept, or goes
\* on to have its token validated.
Parsed(s) ==
    LET r == request[s] IN
    /\ up /\ r.phase = "body"
    /\ UNCHANGED <<staticClaims, up>>
    /\ \/ /\ r.kind = "garbage"
          /\ Count("errored")
          /\ request' = [request EXCEPT ![s] = Free]
          /\ UNCHANGED <<pendingSpans, spans, thrown, keyVars, validatorVars>>
       \/ /\ r.kind = "untracked"
          /\ request' = [request EXCEPT ![s] = At("upstream", r)]
          /\ UNCHANGED <<pendingSpans, spans, metrics, thrown, keyVars,
                         validatorVars>>
       \/ /\ r.kind = "request"
          /\ ForwardTracked(s, r)
          /\ UNCHANGED <<thrown, keyVars, validatorVars>>
       \/ /\ r.kind = "call" /\ Kept(r)
          /\ Judge(s, r, staticClaims)
          /\ UNCHANGED <<keyVars, validatorVars>>
       \/ /\ r.kind = "call" /\ ~Kept(r)
          /\ Validate(s, r.token)
          /\ request' = [request EXCEPT ![s] = At("validating", r)]
          /\ UNCHANGED <<pendingSpans, spans, metrics, thrown>>

\* resolveClaimsFromToken goes on when its validation is done, and decides by
\* its own result; that of the static token is kept, a refusal too.
Resolved(s) ==
    LET r == request[s] IN
    /\ up /\ r.phase = "validating" /\ validation[s].phase = "done"
    /\ staticClaims' = IF r.token = StaticToken /\ validation[s].how # "threw"
                       THEN validation[s].how ELSE staticClaims
    /\ validation' = [validation EXCEPT ![s] = Null]
    /\ Judge(s, r, validation[s].how)
    /\ UNCHANGED <<keyVars, jwksCache, up>>

-----------------------------------------------------------------------------
(* forwardPost: what the server makes of it *)

Upstream(s) == up /\ request[s].phase = "upstream"

HasId(r) == r.kind \in {"call", "request"}

Leave(s) == request' = [request EXCEPT ![s] = Free]

\* fetch throws, after two minutes at the latest: 502
Unreachable(s) ==
    /\ Upstream(s)
    /\ IF HasId(request[s]) THEN EndPending(request[s].id, "error")
                            ELSE UNCHANGED <<spans, pendingSpans>>
    /\ Count("errored") /\ Leave(s)
    /\ UNCHANGED <<staticClaims, keyVars, validatorVars, thrown, up>>

\* a JSON body with the answer
JsonAnswer(s) ==
    /\ Upstream(s) /\ HasId(request[s])
    /\ EndPending(request[s].id, "answered")
    /\ Count("forwarded") /\ Leave(s)
    /\ UNCHANGED <<staticClaims, keyVars, validatorVars, thrown, up>>

\* a body that is no JSON-RPC response: 202 without a body, a page of HTML
OtherBody(s) ==
    /\ Upstream(s)
    /\ Count("forwarded") /\ Leave(s)
    /\ UNCHANGED <<spans, pendingSpans, staticClaims, keyVars, validatorVars, thrown, up>>

\* text() throws, out of the handler: nothing is counted, no span ends
BodyBreaks(s) ==
    /\ Upstream(s)
    /\ Throw(s)
    /\ UNCHANGED <<staticClaims, keyVars, validatorVars, up>>

\* streamSSEResponse: the answer is counted before its events come
SseOpens(s) ==
    /\ Upstream(s)
    /\ Count("forwarded")
    /\ request' = [request EXCEPT ![s] = At("sse", request[s])]
    /\ UNCHANGED <<spans, pendingSpans, staticClaims, keyVars, validatorVars,
                   thrown, up>>

\* inspectSSEEvent finds the response
SseAnswer(s) ==
    /\ up /\ request[s].phase = "sse" /\ HasId(request[s])
    /\ EndPending(request[s].id, "answered")
    /\ request' = [request EXCEPT ![s] = At("answered", request[s])]
    /\ UNCHANGED <<metrics, staticClaims, keyVars, validatorVars, thrown, up>>

\* variant: a stream whose answer has not come stays open
SseEndsAnswered(s) ==
    /\ up /\ request[s].phase = "answered"
    /\ Leave(s)
    /\ UNCHANGED <<metrics, spans, pendingSpans, staticClaims, keyVars,
                   validatorVars, thrown, up>>

\* The stream is done, or cut: by the server, by the client, or by the two
\* minutes of the abort signal, which go for the whole body.
SseEnds(s) ==
    /\ up /\ request[s].phase \in {"sse", "answered"}
    /\ Leave(s)
    /\ UNCHANGED <<metrics, spans, pendingSpans, staticClaims, keyVars, validatorVars,
                   thrown, up>>

-----------------------------------------------------------------------------
(* GET /mcp, and the end *)

\* forwardSSE: a client that lost its connection resumes, and the response to
\* its request comes here.
GetAnswer(id) ==
    /\ up /\ id \in DOMAIN pendingSpans
    /\ EndPending(id, "answered")
    /\ UNCHANGED <<request, staticClaims, metrics, thrown, up, keyVars, validatorVars>>

\* stop ends the spans it finds
Stopped ==
    [i \in DOMAIN spans |->
        IF \E id \in DOMAIN pendingSpans : pendingSpans[id] = i
        THEN [spans[i] EXCEPT !.end = "stopped"] ELSE spans[i]]

\* handleSignal: stop, and the process exits with what it kept in memory
Stop ==
    /\ up
    /\ up' = FALSE
    /\ spans' = Stopped
    /\ jwksCache' = NoCache
    /\ validation' = [s \in Slots |-> Null]
    /\ request' = [s \in Slots |-> Free]
    /\ staticClaims' = NotValidated
    /\ pendingSpans' = [id \in {} |-> 0]
    /\ metrics' = NoMetrics
    /\ thrown' = 0
    /\ UNCHANGED keyVars

-----------------------------------------------------------------------------
Init ==
    /\ KeysInit
    /\ jwksCache = NoCache
    /\ validation = [s \in Slots |-> Null]
    /\ request = [s \in Slots |-> Free]
    /\ staticClaims = NotValidated
    /\ pendingSpans = [id \in {} |-> 0] /\ spans = <<>>
    /\ metrics = NoMetrics /\ thrown = 0
    /\ up = TRUE

Answered(s) == JsonAnswer(s) \/ OtherBody(s) \/ BodyBreaks(s) \/ SseOpens(s)
               \/ Unreachable(s)

Handles(s) ==
    \/ up /\ Validates(s) /\ UNCHANGED proxyVars
    \/ Parsed(s) \/ Resolved(s) \/ Answered(s) \/ SseEnds(s)

Next ==
    \/ up /\ Network /\ UNCHANGED proxyVars
    \/ \E s \in Slots, kind \in Kinds, id \in Ids, t \in Tokens : Receive(s, kind, id, t)
    \/ \E s \in Slots : Handles(s) \/ SseAnswer(s)
    \/ \E id \in Ids : GetAnswer(id)
    \/ Stop

Spec == Init /\ [][Next]_vars

\* Every await of a handler has a timeout.
FairSpec == Spec /\ \A s \in Slots : WF_vars(Handles(s))

-----------------------------------------------------------------------------
(* Properties *)

InFlight == {s \in Slots : request[s].phase \in {"body", "validating", "upstream"}}

Entry(id) == spans[pendingSpans[id]]

\* Clients collide on ids, answers come on other connections, exchanges are cut:
\* the counters of /metrics account for every request, as blocked, forwarded,
\* failed or on its way, but for those out of whose handler an error was thrown,
\* because their JSON answer broke off or for their token; pendingSpans holds
\* only spans that nobody ended, each under its own id; and a span that is open
\* and not to be found there was displaced by a later request with its id.
NothingUnaccounted ==
    /\ metrics.total = metrics.blocked + metrics.forwarded + metrics.errored
                       + thrown + Cardinality(InFlight)
    /\ \A id \in DOMAIN pendingSpans : Entry(id).id = id /\ Entry(id).end = "open"
    /\ up => \A i \in DOMAIN spans : spans[i].end = "open" =>
          \/ \E id \in DOMAIN pendingSpans : pendingSpans[id] = i
          \/ \E j \in DOMAIN spans : i < j /\ spans[j].id = spans[i].id

\* A request comes to an end, whatever the registry and the server do.
RequestsEnd == \A s \in Slots : (request[s] # Free) ~> (request[s] = Free \/ ~up)
=============================================================================
