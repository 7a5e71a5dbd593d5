# A formal model of Eigent

Eigent gives AI agents an identity of their own. A human registers an agent
with a *registry* and gets a signed token; the agent may delegate a part of
what it may do to other agents; a *sidecar* between an agent (an MCP client)
and its tools (an MCP server) lets a call pass, refuses it, or holds it until a
human has approved; whatever happens is written to an *audit log*; and when an
agent or its human goes, everything that descends from the agent goes with it.

This directory holds TLA+ models of the parts of Eigent that keep state,
configurations with which TLC checks them, and theorems about them that TLAPS
proves. All paths below are relative to the repository (`eigent-…`) or to this
directory. `PROJECT.json` maps every definition to the lines it stands for.

    tlc -workers 2 -config Registry.cfg MCRegistry.tla    # one run
    tlapm RegistryProofs.tla                              # one module of proofs

Contents: [1. The system](#1-the-system) · [2. The modules](#2-the-modules) ·
[3. What the runs check](#3-what-the-runs-check) · [4. Fairness](#4-fairness) ·
[5. What is proved](#5-what-is-proved) · [6. Disagreements](#6-where-the-code-and-its-documentation-disagree) ·
[7. What is not modelled](#7-what-is-not-modelled) · [8. Plan](#8-plan)

## 1. The system

### Components

| Component | State | Operations | What makes it correct |
|---|---|---|---|
| Agent registry (`eigent-registry/src/server.ts`, `lifecycle.ts`, `scim.ts`, `db.ts`, `tokens.ts`) | table `agents`; signed tokens in the hands of callers; requests suspended in an await | register, delegate, rotate, revoke, deprovision an agent or a human, SCIM webhook, expiry job, verify | a delegate is bounded by its parent; endings are final and take the subtree; one token per agent is usable |
| Registry reads and compliance report (`server.ts`, `db.ts`, `compliance-report.ts`) | none: derived from `agents` | list, chain of an agent, explain, report | the three walks over the tree agree; a rating means what an auditor takes it to mean |
| Heartbeats and staleness (`lifecycle.ts`) | `last_seen_at`; reports under way | heartbeat, find stale agents, report | a report names exactly the silent agents |
| Audit log (`db.ts`, `audit-integrity.ts`) | table `audit_log`, hash-chained | `insertAuditLog`, `verifyAuditChain`, list, trace | one chain, no false alarm, no edit missed, no row hidden from a reader |
| Approvals (`server.ts`, `db.ts`, `approval-notifier.ts`, `eigent-sidecar/src/interceptor.ts`) | table `approvals`; the registry's notifications; the sidecar's poll loop | request, notify, approve, deny, list, poll, expire | no call passes without a verdict of its own; verdicts are timely and final, and the log names no other; nobody waits for ever |
| Webhooks and organisations (`webhooks.ts`, `server.ts`, `db.ts`) | configurations by organisation; retry queue and timer, in memory | create, edit, delete; fire, retry | nothing dropped or sent twice over; the timer runs exactly while it is needed; deletion is final |
| Sessions (`oidc.ts`, `server.ts`) | login flows and caches in memory, table `sessions` | login, callback, verify, list, logout | a state is used once; sessions that nobody was told of stay harmless |
| Rate limiter (`rate-limit.ts`) | timestamps per client | check, clean up | the limit holds in every window, and refuses nobody below it |
| Signing keys (`tokens.ts`, `crypto.ts`) | table `keys` | ensure, serve the JWKS, rotate the encryption key | tokens stay verifiable |
| Token validation (`eigent-sidecar/src/auth.ts`) | cached keys | validate, ask about revocation | a token that is accepted is signed with a key of the registry; a new key is learnt |
| Stdio interceptor (`interceptor.ts`, `parser.ts`, `enforcer.ts`, `telemetry.ts`) | the line that is held, spans by JSON-RPC id, claims | decide on a line; note a decision; reap spans; stop | order is kept, each call is forwarded or refused as scope, policy and approval say |
| HTTP proxy (`http-proxy.ts`) | requests under way, spans, counters, claims of its own token | forward a POST, answer with JSON or events, stream a GET | every request is accounted for, unless the handler throws, and ends |
| Policy engine (`policy.ts`, `policy-loader.ts`) | rules, sorted; watcher and timer | evaluate, load, reload | first match by priority; the last valid edit comes into force |
| Decision log (`decision-log.ts`) | the file and its predecessors | write, rotate | nothing is reordered, doubled or lost in a rotation |
| Core library (`eigent-core/src`) | revocation store | issue, delegate, validate, revoke with cascade, clean up | a line of tokens only narrows; no revocation is forgotten |
| CLI, Python client, scanner, dashboard | project file; store of scans; cache | one request per command; scan and diff | not modelled (section 7) |

### How they interact

- The registry is one Node process over synchronous SQLite. A handler runs
  without interruption until it awaits: handlers interleave at `await` and
  nowhere else. The awaits that matter are `issueToken` (registration,
  delegation, rotation), `c.req.json()` (edits), the notification of an
  approver, the identity provider (callback), and `fetch` (webhooks, reports).
- The expiry and staleness jobs (`setInterval`), the retry timer and the
  limiter's cleanup run between handlers and do not wait for what they started.
- Several registry processes may share a database; they meet in `keys`.
- The sidecar talks to the registry by HTTP: it fetches the JWKS, asks whether
  a token is revoked, posts an approval request and polls it. Either side may
  time out, retry or be gone.
- The stdio sidecar sits in two byte streams. From the client it holds one line
  at a time; from the server it forwards chunks as they come; refusals are written
  to the client's stream directly. The HTTP proxy serves clients that do not
  know of each other and finds spans by the ids they choose.
- The policy is a file that somebody else writes, several writes to an edit.
- Tables and audit log are joined by `insertAuditLog`, which most handlers call
  after, and not in the transaction of, their own write.

### What is hard about it

A state that was read before an `await` and is used after it (delegation,
rotation, edits, audit timestamps, cached keys); cascades that overlap
(revocation, deprovisioning, SCIM, expiry) with rules of their own for what they
overwrite; crashes between a commit and its audit entry; deadlines that two
processes keep separately; timer callbacks that overlap because `setInterval`
does not wait; ids that two directions of one stream, or several clients, count
independently; a store that forgets by a date that is not the token's own; pages
of a log that grows; files that move in several steps, each of which may fail.
`hazards` in `PROJECT.json` lists each of them at its line, with the properties
that would notice.

## 2. The modules

| Module | Models | Extended or instantiated by |
|---|---|---|
| `NarrowingDelegation` | *abstract*: what delegation promises, whoever implements it | instantiated by `RegistryProperties` and `CoreTokens` |
| `Registry` | agents table, tokens, every handler that writes them | `RegistryProperties` |
| `RegistryProperties` | its properties, its inductive invariant, and that it implements `NarrowingDelegation` | `RegistryReads` |
| `RegistryReads` | chains, list, explain, compliance report | `Lifecycle`, `MCRegistry` |
| `Lifecycle` | heartbeats and the staleness job beside the registry | `MCLifecycle`, `RegistryProofs` |
| `AuditLog` | the hash chain and its verification | `AuditReads` |
| `AuditReads` | paging and tracing while the log grows | `MCAuditLog`, `AuditLogProofs` |
| `Approvals` | both sides of a held call | `ApprovalNotifier` |
| `ApprovalNotifier` | the channels a registry tells, and the ways back from them | `MCApprovals`, `ApprovalsProofs` |
| `MessageFilter` | *abstract*: what an inline filter of lines promises | instantiated by `SidecarSession` |
| `Interceptor` | the stdio sidecar in enforce mode | `SidecarSession` |
| `SidecarSession` | either mode, signals; implements `MessageFilter` | `MCInterceptor`, `SidecarProofs` |
| `Webhooks` | delivery with a retry queue | `WebhookConfigs` |
| `WebhookConfigs` | organisations, configurations, edits, composed with deliveries | `MCWebhooks`, `WebhooksProofs` |
| `CoreTokens` | the core library; implements `NarrowingDelegation` | `MCCoreTokens`, `CoreTokensProofs` |
| `SigningKeys` | keys of several registry processes | `TokenValidator` |
| `TokenValidator` | the sidecar's validation over those keys | `HttpProxy` |
| `HttpProxy` | the proxy over that validation | `MCHttpProxy`, `HttpProxyProofs` |
| `RateLimit` | the sliding window | `Sessions` |
| `Sessions` | OIDC logins and sessions behind the limiter | `MCSessions`, `SessionsProofs` |
| `PolicyEngine` | rules and the ruling on a call | `PolicyReload` |
| `DecisionLog` | the rotating log | `PolicyReload` |
| `PolicyReload` | a policy that is edited while calls are judged and logged | `MCPolicy`, `SidecarProofs` |

Each component is one module with its variables, an action per handler or step,
`Spec`, and (where time matters) a fair one. Components that interact are
composed by extension: the later module adds its variables, conjoins what it does
to the actions of the earlier one and leaves the rest unchanged. A definition
preceded by the comment *variant* belongs to no behaviour: it is a plausible bug
in the definition below it, and `mutants` in `PROJECT.json` says which property
notices it.

### NarrowingDelegation

The registry does not use the delegation of `@eigent/core`: the two are written
separately, and differ (the registry looks at what a parent may delegate, the library
also at what it holds; the registry reads the clock once, the library twice).
`NarrowingDelegation` is what they have in common: a function `grants` that only grows, in
which an entry is made from nobody, or from an earlier entry, to which it is narrower
in what it allows and passes on, in the levels below it, and, up to the time its making took
(`lag`), in time. Ends are not part of it: in the registry they are the subject of
`EndsAreFinal`, and in the library which tokens a revocation takes is up to its caller.
`GrantOf` maps a row, or a token, to a grant; the `lag` of a row is nought.

### Registry, RegistryReads, Lifecycle

`agents` is the table: a function from the ids inserted so far to rows with the
columns that some handler reads. `tokens` holds the tokens that reached a caller;
a token that was signed and lost with its response is not among them. A handler
without an await is one action. Registration, delegation and rotation are two:
`Register`/`Delegate`/`RotateStart` up to `await issueToken`, `Insert`/
`RotateFinish` after it; in between the request is in `pending`, with the values
the code keeps in local variables. `Crash` is the end of the process at an
await, or (`TornWrite`) between two commits: after the row and before its audit
entry, and between two agents of the SCIM webhook. The audit log is reduced to
the set of lifecycle entries; its chain is `AuditLog`'s.

`RegistryReads` writes nothing. Chains are walked upwards by `getDelegationChain`,
downwards by the recursive query of a cascade, and over a filtered list by the
report; explain and verify decide on the same call by different rules.
The parts of the report that decide a rating are operators; its layout is
left out. `Lifecycle` adds `lastSeen` and the reports on silent agents that are on
their way (`sending`), each with the time at which it was made.

Abstracted: ids and scopes are model values (matching of a scope in
`/api/verify` is equality, as in the code: `server.ts:764`); the three columns
that name a human are one value; time is counted in ticks, each as long as any
number of milliseconds. A rotation keeps `expires_at`. The clock that a handler
reads before its await is the one at its first step.

### AuditLog, AuditReads

A row's id is made at insertion and grows (UUIDv7), so it is the index; its
timestamp is read before the await of the handler that logs. `Hash` is a pair of
what it covers: a hash that does not collide. `getLastAuditHash` picks the newest
row by timestamp, then id, as the query does. Rows of handlers that do not await
are `LogAtOnce`. `AuditReads` adds a client that pages by limit and offset, through
`ORDER BY timestamp DESC` with the ties in the order SQLite's index gives them.

### Approvals, ApprovalNotifier

The registry's table, its handlers and the sidecar's `requestAndPollApproval`
share one module because the hazards are between them. `posted` and `replies` are
requests and answers under way; both may be lost (`PostFails`, `PollFails`) or
late. The answer to a POST may never come: the handler awaits its notifications
(`notifying`) and may die in them (`RegistryCrash`), or between the UPDATE of a verdict
and its audit entry, which commit one after the other (`CrashInVerdict`). `ApprovalNotifier` says which
channels are still to be told, and that a decision arrives by the link or the
button of one that was. `approve`, `deny` and the Slack action are one `Decide`:
they differ in authentication and in wording.

### Interceptor, SidecarSession, MessageFilter

`MessageFilter` has lines that wait, and each is delivered or refused, in
order, as an unknown but fixed ruling allows, until the server exits; what waits
then may be refused or lost, but is not delivered. `Interceptor` has the rest: the
line that is `held` while claims are validated or an approval is pending, chunks
that cut a line of the server in two, spans and the map `pendingSpans` that finds
them by id, the reaper, and the exit of the server. That is two steps, as in the
code: at the event `exit` the spans that are found are ended (`ChildExit`), and the
sidecar leaves when its pipelines are drained (`Leave`); in between (`stage` is
`"draining"`) it still reads what the server wrote and goes on with the lines it
has, which may start spans that nobody ends. The order in which the
enforcer looks at scope, policy and mode is translated in `evaluate`; the
refinement compares it with `DeniedWith`, which is written without that order.

The callback of the parser may throw, and the parser then forwards the line
(`parser.ts:366`, "fail open"). A policy is a function from tools to verdicts, of which
`"throws"` stands for a rule whose pattern is no regular expression. `claims` is what
validation makes of the token: `"valid"`; `"none"`, also if it is refused;
`"chainless"`, accepted without a delegation chain, at which the callback throws
after it has decided and before it acts (`interceptor.ts:563`); `"unreadable"`, a
payload `null`, at which validation throws itself. With the last two enforce mode
forwards every call, and `RulingWith` says so.

`SidecarSession` adds the modes in which lines pass at
once and decisions are noted later (`judging`), and a signal, after which the
sidecar waits for the server and leaves after five seconds (`GiveUp`).

### Webhooks, WebhookConfigs

An entry is due (`ripe`) after its delay; which delay is data. Several runs of
`processRetryQueue` overlap, because `setInterval` does not wait and each entry
may take ten seconds: `run` holds what each of them has still to send.
`WebhookConfigs` says for which configurations a delivery is made: those of the
organisation that subscribe to the event when it fires. A retry goes by what was
read then. An edit looks its row up, awaits its body, and updates the row if it
is still there.

### CoreTokens

A jti is the index into the list of tokens. A child's parent and the two readings
of the clock are history variables of the token: no operation reads them. Scopes
are `*`, `ns:*` and `ns:op`. Which children a cascade is given is up to its
caller: any set of descendants.

### SigningKeys, TokenValidator, HttpProxy

A key is its number in the order of insertion; `boot` says what each registry
process is doing: looking for a key, awaiting its generation, ready. A token is a
record of its signer, its issuer, its shape, its expiry, and whether it has a jti and the
scope of the call. The shape is that of the core library or of the registry, `chainless`
(as the library's, but without the chain), `null` for a payload that is none, or malformed.
`TokenValidator` has validations under way that share `jwksCache`, each with the
fetch it awaits and the time it began; the network may fail at any fetch. `HttpProxy`
takes a request through parsing, validation, forwarding and its answer, each an
await at which others run. `pendingSpans` is found by the id the client chose.
Spans, counters and `thrown` are what the property compares; `thrown` counts the
requests out of whose handler an error was thrown (`Throw`), for an answer that
broke off, a token at which validation throws, or an accepted one without a chain. `Stop` ends the process: the proxy's `stop` and the
exit that follows are one step.

### RateLimit, Sessions

`allowed` is the history the limit is stated on; `check` itself reads only
`windows`. `Sessions` puts login and callback behind it. A callback
takes its flow before its first await, and then holds in `request` what it has
learnt of the provider; `discoveryCache` and `jwksCache` are the two caches with the times
they count from. `seeded` says which of the rows that the database asks for an
operator has inserted; it never changes.

### PolicyEngine, DecisionLog, PolicyReload

A pattern is the set of names it matches. `PolicyRuling` is the reference (the highest
priority that matches, and of those the first in the file); the code's rules,
sorted and searched, are `SortedRules` and `Evaluate`. A log line is
the number of the decision; files are sequences of them, and every operation on
them may fail. `PolicyReload` edits the file, notices it, restarts the timer and
reloads, while calls are judged and logged. A sidecar that starts loads the policy
first and watches the file in a step of its own (`StartWatching`); `missed` says that the
last write was one that no watcher saw.

## 3. What the runs check

All runs are exhaustive within their bounds.

| Run | Instance | Shows |
|---|---|---|
| `registry` | 3 agents, 2 humans, 2 levels, 6 bodies of which the risk checks refuse some, delegatable scopes outside the scope, 2 requests at a time, 3 tokens, clock 0..2 | the registry implements `NarrowingDelegation` (`ImplementsDelegation`); what verify lets an agent do everyone above it may pass on, and none of them has expired (`VerifiedIsGranted`); delegates that survive a cascade were under way when it ran (`NoDelegationAfterEnd`); status, dates and tokens tell one story of an agent's end (`EndsJustified`); overlapping rotations leave one usable token (`OneUsableToken`); endings are final and reach all descendants (`EndsAreFinal`), for a human too, though that handler walks no tree; the three walks over the tree agree (`ChainsAgree`); the rating COMPLIANT of a report on everyone means that what verify and explain allow is allowed up the chain (`CompliantIsNarrow`) |
| `registry_expiry` | 2 agents, fair clock and expiry job, heartbeats, one report at a time on its way | every agent ends, also one inserted below an ancestor that is gone (`EveryAgentEnds`); each expiry is logged despite crashes (`ExpiryIsAudited`); late reports name exactly the silent agents (`ReportsTrue`) |
| `audit_chain` | 4 rows, 2 awaiting handlers, clock 0..2, pages of 2 rows | rows that arrive on time form one chain from genesis and late rows hang off it (`OnTimeRowsChained`); verification raises no false alarm (`HonestLogVerifies`) and misses no edit (`EditsDetected`); a client that pages while the log grows misses nothing that was there, and the newest row can be traced (`ReadersSeeTheLog`) |
| `approvals` | 2 calls, 2 approvals, a Slack channel, clock 0..4, lifetime 2 | a forwarded call had a verdict of its own, given in time, and the log names no verdict that the table does not have (`ApprovalsSound`); verdicts are final (`DecisionIsFinal`); every held call ends although nothing is assumed of registry, network and human (`HeldCallsEnd`) |
| `interceptor` | both modes, 2 lines of the client of every kind, one request of the server with a colliding id, the four outcomes of a validation | the sidecar implements `MessageFilter`, liveness included (`ImplementsFilter`), with the ruling *pass* for tokens at which the callback throws; late decisions are noted where they still can be (`NotesFit`); no span is lost track of but in the known collision (`OpenSpansTracked`), and none stays open but that one, a held call's at the exit, and those started after the exit (`SpansEnd`) |
| `interceptor_doc_stream` | the same | *violation*: a refusal breaks a line of the server (section 6) |
| `webhooks` | 2 organisations, 2 configurations, 2 deliveries, 2 overlapping runs, 3 retries | a delivery is in exactly one place while it is open (`InOnePlace`); the timer is never cleared under an entry, and is cleared in the end (`QueueHasTimer`, `DeliveriesEnd`); every delivery ends; a deleted or disabled configuration gets no new one (`NothingAfterDeletion`) |
| `core_tokens` | 3 tokens, 2 delegations under way, wildcards, roots that may delegate what they do not hold | the library implements `NarrowingDelegation` too (`ImplementsDelegation`), lines narrow and live no longer (`ChildrenBounded`), `canDelegate`, `delegateToken` and `validateDelegationChain` agree (`DecisionsAgree`), the store forgets no valid revoked token (`RevokedNotForgotten`, but see section 6) |
| `http_proxy` | 2 registry processes on one database, 2 requests at a time, one JSON-RPC id, 4 tokens (one of the library, one without a chain, a payload `null`, no JWT), closed fail mode, clock 0..2 | a token that is accepted is signed with a key of the registry and in date, or no key was ever had (`AcceptedIsSigned`); a new key is learnt within a cache's life and a fetch (`NewestKeyIsLearnt`); counters and spans account for every request but those whose handler threw (`NothingUnaccounted`); requests end (`RequestsEnd`) |
| `proxy_doc_fail_closed` | the same | *violation*: fail mode closed accepts a token nobody verified (section 6) |
| `sessions` | 2 requests at a time, 2 logins, 2 keys of the provider, 3 requests in 2 ticks, clock 0..3 | the limit holds in every window, and a client that is refused has had its share and is told right when to return (`LimiterIsFair`); a login makes at most one session, and the sessions that clients hold are those that were logged (`LoginsSound`); the provider's new key is learnt (`NewKeyIsLearnt`) |
| `policy` | 2 policies with every kind of condition, 5 calls, 3 writes to the file, 6 decisions, 2 lines a file, 2 old files | every call is judged as the policy in force says (`RulingsFollowPolicy`); the log is in order, without repetition, and without gaps but for what could not be written (`LogIsContiguous`); the last valid write comes into force, if the file was watched when it was made (`LastEditWins`) |

**Why the bounds are enough to be interesting.** Three agents make a chain of
two delegations with a middle that is ended while its child is suspended; two
requests are the fewest that overlap. Two ticks separate *before*, *at* and
*after* an expiry. Four rows make a fork (a row on time, a late row, another on
time, and the first) and two pages. Two approvals of one call, or of two, are the
fewest that could be confused; the clock allows an approval to be requested,
polled twice, and to expire. Two lines of the client let one wait behind a held
one, and let the server's request take the id of either. Two overlapping runs and
two deliveries let one run clear the timer while another still has an entry to
return. Three tokens are a grandparent, a parent and a child. Two
registries insert two keys, so that a cached first key can be the older; two
requests of one id displace each other's span. Two logins let a callback bring
the other's code or the other's state; three requests in a window of two ticks
fill a window, empty it and fill it again. Three writes are a valid edit written
in two steps after another, with the debounce in between or not; six
decisions over three files of two lines rotate the oldest away. The
bounds themselves are constants (`MaxTime`, `MaxTokens`, `MaxRows`, `MaxSent`,
`MaxFlows`, `MaxKeys`, `MaxRequests`, `MaxSending`, `MaxEdits`, `MaxDecisions`),
each in the guard of the action that would exceed it. Where a module is proved
about (section 5) the theorems hold for every value of these constants.

`registry` has a `VIEW` without the audit entries: no guard reads them and none
of the properties of that run mentions them. `registry_expiry` keeps those on
expiry, the only ones its properties mention. Symmetry is used only where no
liveness is checked.

**`CHECK_DEADLOCK FALSE`** is said where the bounded system stops: the audit log
is full, the clock at its end and the reader has done; all calls have ended and
the clock has stopped; all deliveries have ended; the session is over; all tokens
are issued; the proxy has been stopped; the policy file is written to no more
and all decisions are logged. The registry runs check deadlock: its ended agents
can be deprovisioned or a crash can occur at any time; so does `sessions`, whose
listing and cleanup never stop.

## 4. Fairness

- `Lifecycle` (and `Registry`): `WF(Tick)` and `WF(AutoExpiry)`. Time passes;
  `setInterval` (`lifecycle.ts:561`) keeps running the job, and `AutoExpiry` is its
  run when something is due. Nothing is assumed of any request or report.
- `ApprovalNotifier`: `WF(Tick)` and, for each call, weak fairness of the sidecar's
  steps together. Each of them is bounded by an abort signal or a timer
  (`interceptor.ts:796`, `:813`, `:821`). Nothing is assumed of the registry, its
  channels, the network or the human.
- `SidecarSession`: weak fairness of the decision on the current line, since validation
  has timeouts (`auth.ts:337`) and the approval poll ends (`HeldCallsEnd` of
  `Approvals`, which this use composes with), of the reaper, for each id, and of
  the five seconds after a signal. Neither client nor server need do anything. Once
  the server has exited nothing is assumed any more: the sidecar may leave at any time.
- `WebhookConfigs`: a send ends by its abort signal; a delay passes; the interval fires
  while it is set. Nothing is assumed of those who edit configurations.
- `HttpProxy`: weak fairness of each slot's handler. Its awaits of the registry
  (`auth.ts:337`, `:414`) and of the MCP server (`http-proxy.ts:345`, which also
  ends a stream) have abort signals; a body that never arrives is ended by
  Node's request timeout.
- `PolicyReload`: the file system tells of each write, and the debounce timer fires.
- `AuditReads`, `CoreTokens` and `Sessions` state no liveness. A login that is
  never finished leaves its flow, and nobody promises that it does not.

## 5. What is proved

TLAPS checks eight modules of proofs. Each theorem holds for every value of the
constants that satisfies the assumptions named in the modules; `theorems` in
`PROJECT.json` lists the results. Every invariant and every action property
that a run checks is one of them, and so are the steps of the refinements.

| Module | About | Assumes | Inductive invariant |
|---|---|---|---|
| `RegistryProofs` | `Lifecycle` and what it extends | `RegistryAssumption`, `ReadsAssumption`, `LifecycleAssumption` | `IInv` of `RegistryProperties`, `LifecycleInv` |
| `AuditLogProofs` | `AuditReads`, `AuditLog` | `AuditAssumption`, `ReadsAssumption` | `ChainInv`, `ReadersInv` |
| `ApprovalsProofs` | `ApprovalNotifier`, `Approvals` | `ApprovalAssumption`, `NotifierAssumption` | `ApprovalsInv` |
| `SidecarProofs` | `SidecarSession`, `PolicyReload` and what they extend (they share a process, and the proofs the facts about sequences) | `InterceptorAssumption`, `PolicyReloadAssumption`, `DecisionLogAssumption` | `SessionInv`, `PolicyInv`, `LogInv` |
| `WebhooksProofs` | `WebhookConfigs`, `Webhooks` | `WebhookAssumption`, `ConfigAssumption` | `WebhooksInv` |
| `HttpProxyProofs` | `HttpProxy`, `TokenValidator`, `SigningKeys` | `HttpProxyAssumption`, `TokenValidatorAssumption`, `SigningKeysAssumption` | `ProxyInv` |
| `SessionsProofs` | `Sessions`, `RateLimit` | `SessionsAssumption`, `RateLimitAssumption` | `SessionsInv` |
| `CoreTokensProofs` | `CoreTokens` | `CoreAssumption` | `CoreInv` |

The assumptions give the constants their types (numbers, subsets, sequences), keep
`Null`, the subjects of roots and the names of no policy apart from the values
they are mixed with, and say that what the code fixes as positive is (limits,
windows, cache lives, page sizes). Hashes are injective by the way `Hash` is defined;
random states and ids are new by the way they are numbered.

**Registry.** `DelegationNarrows` is not inductive: the row that is
inserted was made before the await, so the invariant speaks of suspended rows as
well (`AllRows`), and its parent must still be in the table and no less than
it was. `IInv` adds: dates lie in the past; a suspended insertion has an id of
its own; a jti belongs to one token and one row (which makes `OneUsableToken`
provable); the depth is within the limit, and the limit of a high-risk agent
within one. The steps fall into five shapes (a request starts; a row is
inserted; a rotation is written; a set of rows ends; time passes), and the
invariant is proved once for each shape: every way of ending an agent, and
every torn write of a crash, is an instance of the fourth. For the
action properties the key is that `Subtree` is the least set closed under
`parent_id`: a step that ends a closed set ends the subtree of each member
(`ClosedSetEnds`), and the agents of a human are closed because delegates
inherit the human. `EndsAreJustified` and `EndsReachAll` put the conjuncts
together as the run states them.

**Delegation.** `RegistryImplementsDelegation` and `CoreImplementsDelegation` are whole
refinements, of initial states and of steps. In the registry the step that matters is the
insertion: the row was made from what was read of the parent before the await, the
abstract step compares it with the parent as it is now, and the two agree because no step
changes what `GrantOf` looks at (`SameGrants`) and `DelegationNarrows` speaks of
suspended rows. In the library `StepAdds` says what each step may append; the only
addition to `CoreInv` is that a token is not dated before it was asked for
(`DatesInOrder`). `VerifiedCallsAreGranted` takes narrowing from one level to all of
them: the agents that may pass on what is granted to a caller are closed upwards, so
its ancestry is among them (`AuthorityComesDown`).

**What the registry answers.** `AnswersAgree` needs that every agent has one chain to one
root. A child's depth is its parent's and one, and a root's is nought, which is a part of
`DepthBounded`; `WellRead` (there is a chain, its length is the depth and one, it begins at
the only root above) then follows by induction on the depth. `CompliantMeansNarrow` takes
the disjuncts of a report apart. `LifecycleImplementsRegistry` carries everything above over
to a registry with heartbeats and reports; `ReportsAreTrue` needs that reports on their
way are about agents that are still in the table and not from the future (`Sent`).

**Audit log.** `ChainInv` says that the row `getLastAuditHash` finds is the last one
on time, and that every row is linked to the last row on time before it. It needs
that a row that is inserted either is on time, and then becomes the newest, or is
late, and then changes neither. From it follow `OnTimeRowsChained` and, with the
form of `NewRow`, that verification accepts what the registry wrote; that it
reports every edit follows from the hash alone being injective. For readers
(`ReadersAreServed`) the fact is that a row inserted later only moves others back in
the order of the pages (`PlacesMoveBack`): what the offset has passed was read
(`SeenSoFar`).

**Approvals.** The invariant follows an approval from its row to the answer on its way
(`RepliesMatch`), from there to the poll (`PollsItsOwn`, `AnswersHold`), and says that
nobody but a human approves. What a step may do to the table, to one row and to one
call is proved first (`TableStep`, `RowStep`, `CallStep`); finality of verdicts falls out
of `RowStep`. `NotifierImplementsApprovals` shows that notifications add behaviour to no
approval.

**Stdio sidecar.** Spans are found by id, and ids are not unique, so `SessionInv` says whose
ids are still free: lines carry consecutive numbers, what is held is the last that was
taken and has no other span, the server asks once per id. That gives `OpenSpansTracked`
with its exceptions and `NotesFit`. `SessionImplementsFilter` is the safety half of the
refinement of `MessageFilter`, initial states and steps; TLC checks it with the fairness.

**Policy and decision log.** `EvaluateIsRuling` is about any list of rules: the ranks by
priority and position number the rules without gap or repetition (`RulesAreRanked`), so
that the sorted list is a rearrangement (`SortingSorts`) and its first match the rule
that `PolicyRuling` describes (`FirstPlace`). With `PolicyInv`, that what is in force was
read from the file and was valid, this is `RulingsArePolicy`. `LogStaysContiguous` shows
that each way in which a rotation may stop half way (`RotationKeeps`) leaves the lines in
order, and loses from the old end only.

**Webhooks.** `WebhooksInv` says that first sends, the queue and the lists of the runs share
no delivery, that none holds one twice, and that a delivery is in one of them as long as
it is open. `InOnePlace` counts the places, which is why the proof has to turn
*in the list* into *at exactly one index of it*; a run that splits the queue into what is
ripe and what is not needs that the two lists are rearrangements of it. The
queue has a timer because a run clears it only if the queue is empty then, and one
that has still to return an entry sets it again.

**HTTP proxy.** The part on the validator dates what was read: keys that are newer than the
first key of a cached answer came after it was asked for (`CacheSound`, `FetchesSound`), from
which `NewestKeysAreLearnt` follows, a cache's life and a fetch, and that a token is
looked at with a key of the registry (`KeysLookedAtWith`), from which `AcceptedTokensAreSigned`
does. `Balanced` counts the requests in flight and those whose handler threw; as counters, spans, slots and validator hardly interact, every
action is shown to be a step of each part (`Parts`), and each part is proved once.

**Sessions and limiter.** A window is the end of the history of a client, and what it has
dropped is too old to count (`Covers`); the limit then holds for the history by counting
the stamps in any stretch as long as the window. Logins: a flow is open, or one callback has it, or
one session came of it (`FlowsApart`). Keys of the provider are dated as in the proxy.

**Core library.** `CoreInv` says what a child owes its parent, of tokens and of delegations
under way (`SigningSound`), that no chain names a later subject, and that an
entry of the store outlasts the token unless the token outlives an ancestor.
That wildcards cannot widen (`LinesNarrow`) is proved by taking, for a line, the
set of tokens that allow no more than its head, and showing it closed;
`GrantsNarrow` adds lifetime and is the run's `ChildrenBounded`; `PromisesAreKept` compares the
checks of `canDelegate` with those of `delegateToken` one by one, `ChildrenValid` those of
`delegateToken` with `validateDelegationChain`, and `DecisionsAreOne` is both.

**Forms that could be proved about.** Some definitions say what a loop of the code
computes rather than how, since induction over data is out of the prover's reach:
`DelegationChain` is the chain over an agent's `Ancestry` instead of a recursive walk;
`SortedRules` puts each rule at its rank; `Page` takes rows by how many are ahead of them;
`LogIsContiguous` compares lines by file and place instead of in a concatenation.
Likewise a run of the retry queue splits it by the ranks of the entries, and the
limiter drops as many stamps as have expired from the front of a window, which is in the order of time.

**Only model-checked.** Liveness (`EveryAgentEnds`, `HeldCallsEnd`, `SpansEnd`,
`DeliveriesEnd`, `RequestsEnd`, `LastEditWins`, and the fairness of
`ImplementsFilter`): it needs `ENABLED` and fairness, which are beyond the prover. The two
violations of section 6 are counterexamples of TLC's.

## 6. Where the code and its documentation disagree

The first two have a run whose counterexample shows it.

1. A refusal can be written between two chunks of one line (`interceptor_doc_stream`),
   against `parser.ts:141`, "never corrupts the byte stream".
2. With the registry unreachable and fail mode closed a token is decoded and
   accepted (`proxy_doc_fail_closed`): `resolvePublicKey` (`auth.ts:311`) swallows the
   error that `auth.ts:148`, "If we cannot get a key and fail mode is closed, deny",
   waits for. A token with a jti is still refused when its revocation cannot
   be asked for.

The others were met while modelling. The models do what the code does, and the
properties say what still holds.

*Registry*
- A delegate can hold a scope its parent does not: grants are made from
  `can_delegate`, which registration does not compare with `scope` (`server.ts:324`,
  `:447`), against `README.md:108`, "permissions can only narrow, never widen".
- An agent can stay active below a revoked one: a delegation that awaits its
  signature while the parent is revoked inserts its row afterwards (`server.ts:489`,
  `:514`), against `README.md:35`, "instantly revokes the entire delegation subtree".
  `NoDelegationAfterEnd` bounds the damage.
- `mkdocs-docs/concepts/revocation.md:66` has verification check the status; only `revoked` and
  a past expiry are refused (`server.ts:718`), so a deprovisioned agent's token is
  accepted until it expires.
- `mkdocs-docs/api/registry.md:339` has rotation invalidate the old token at once, and
  `lifecycle.ts:24` promises a grace period. `/api/verify` refuses it at once, but it
  stays a valid JWT (`server.ts:415` accepts it for a delegation).
- `mkdocs-docs/concepts/revocation.md:52` promises an audit entry per revoked agent; a crash after the
  cascade's commit loses them (`server.ts:565`). Only the expiry job writes both in
  one transaction.
- The risk checks of registration compare scopes with `*` and `all` only
  (`server.ts:308`).
- The SCIM webhook's summary entry names the agent `system`, which the foreign key of
  `audit_log` refuses; the revocations before it stand. Its counters count an agent
  again that an earlier cascade of the same call ended.
- `/api/explain` looks at neither status nor expiry and takes `*` for any tool;
  `/api/verify` does the opposite in each. A report that is restricted to an agent or a
  human skips the checks that need a parent outside it, and a depth violation
  enters no check: `CompliantIsNarrow` is about reports on everyone.
- `markStaleAgents`, `recordUsage` and `deleteExpiredSessions` have no caller outside tests.

*Audit log*
- `verifyAuditChain` calls a log valid whose chain forks, against `audit-integrity.ts:27`,
  "verify every hash link".
- `mkdocs-docs/concepts/audit.md:56` orders the audit log by id; rows are linked by timestamp, then id.
- The trace route looks for its row among the newest thousand; an older one is 404.

*Approvals*
- `mkdocs-docs/guides/mcp-integration.md:170` says a call is held until a human approves or
  denies; the sidecar gives up when its POST takes ten seconds or its own deadline
  passes (`interceptor.ts:796`, `:813`), while the approval stays open for a
  verdict.
- `mkdocs-docs/concepts/overview.md:155` says every request for approval is logged; the entry follows the
  await of the notification (`server.ts:1439`) and is lost with it. A crash between a
  verdict and its entry (`:1455` and `:1458`) loses that one: the call is forwarded, the
  log does not say who approved it. `LoggedVerdictsHold` therefore goes one way only.

*Webhooks*
- A retry goes by the configuration as it was when the event fired: an entry
  outlives the deletion of its configuration and an edit of its URL.

*Core library*
- `delegation.ts:87` says a child cannot exceed its parent's remaining lifetime; the
  clock is read once to cap it (`:88`) and again to date it (`token.ts:36`).
  `ChildrenBounded` states what does hold; `RevokedNotForgotten` excepts those tokens.

*Sidecar*
- A suspended call's own span is not ended when the server exits, although
  `interceptor.ts:346` says "End any in-flight spans"; `OpenSpansTracked` and `SpansEnd` say so.
  Nor are those that start after the exit, while the sidecar drains what the server wrote
  (`:356`, `:743`); `SpansEnd` excepts them (`atExit`).
- Enforce mode forwards every call of whoever has a token at which the callback
  throws: accepted claims without a `delegation.chain` (`interceptor.ts:563`;
  `auth.ts:510` asks for a depth only), or a payload `null` that is only decoded. `parser.ts:366`
  says so ("Callback error — fail open"); `ImplementsFilter` promises nothing there.
- The sidecar refuses every token the registry issues: `validateRequiredFields` (`auth.ts:476`)
  wants an audience, a human, an agent and a delegation, and `issueToken` puts none
  of them into a token. It does accept tokens of the core library, which the registry refuses
  (`tokens.ts:129`) since their issuer is a URL. So beside a registry, whose keys
  sign no such token, the sidecar accepts what was signed with those keys by other
  means, and what it only decodes. `RequiredFields` and `verifyToken` are as the code
  has them, and `AcceptedIsSigned` compares signature and date, not the issuer.
- A request of the server can displace the span of a client's request with the same id
  (`interceptor.ts:747`); the displaced span never ends.
- `interceptor.ts:385` means to kill a server that ignores SIGTERM; `child.killed` is
  true since the SIGTERM was sent, so SIGKILL never is.
- The sidecar asks for `<registry>/.well-known/jwks.json` (`auth.ts:332`), the registry
  serves `/api/.well-known/jwks.json` (`server.ts:1394`): the keys are found only with a
  registry URL that ends in `/api`, and with any other a token is only decoded. The
  model takes a URL under which the keys are found.
- There is no route for `/api/v1/revocations` (`auth.ts:410`): the answer is always 404,
  which means *not revoked*. Any other status, 429 included, counts as
  revoked in closed mode.
- Only the first key of the JWKS is used (`auth.ts:362`), the newest, though the registry
  serves and accepts all: an older token is refused once a second key exists.
- A verified token is refused from its `exp` on, one that is only decoded not
  before the second after it (`auth.ts:263`).
- The claims of the proxy's own token are kept for ever (`http-proxy.ts:581`): neither
  expiry nor revocation is noticed again.
- An error thrown while the proxy judges a call (`http-proxy.ts:227`, `:241`: the same tokens as
  above) or reads the server's JSON answer (`:372`) is answered with 500, by Hono, and in no counter
  but `requestsTotal`; `NothingUnaccounted` counts these requests itself (`thrown`).
- The proxy has no reaper: the span of a request whose stream ends without an answer
  (`http-proxy.ts:425`) stays in `pendingSpans`, open, until an answer with its id or
  the end of the process; one that was displaced by a later request with its id never ends.
- The comment at `policy.ts:201` has `after: "18:00"` begin at 18:01; the code
  (`:229`) includes 18:00.
- `decision-log.ts:160` says that a failed rotation truncates; the file is kept and
  grows, and the rotation is tried again with the next line.
- The policy is loaded first (`interceptor.ts:123`) and watched then (`:131`): a write
  between the two comes into force with the next write or restart only, and
  `LastEditWins` excepts it (`missed`).
- If the policy cannot be loaded at the start there is none until the file is written
  to again; a file that is replaced by a rename is, on Linux, no longer watched.

*Sessions*
- A session's provider must be a row of `oidc_providers`, and its audit entry's agent
  `system` a row of `agents`; no code of the registry inserts either
  (`server.ts:1125`, `:1172`). Without them a callback fails, in the second case after
  it stored a session nobody is told of.
- A GET of `/api/v1` that is rewritten to `/api` (`server.ts:1827`) passes the limiter of
  `/api/*` twice and counts as two.
- `rotateEncryptionKey` updates key by key without a transaction: a crash leaves keys
  encrypted with either.

## 7. What is not modelled

`components` in `PROJECT.json` lists every part with the reason.

- *Not modelled at all.* The command line and the Python client make one request
  per invocation or call and retry nothing; the scanner reads the machine once; the
  dashboard shows what the registry answers; the demo and the deployment
  files are examples; the OpenAPI description is a constant; logging is output.
  The drivers behind `db-factory.ts` have no caller among the handlers, which use
  synchronous SQLite through `db.ts`. Core key handling and the encryption of
  private keys are calls into cryptographic libraries: a signature is valid if
  the token was issued.
- *Left out of modelled parts.* The layout of the compliance report (a thousand lines
  of HTML and text); names, settings and members of organisations; usage
  statistics, which are zero, and the counts of audit statistics; the end of the
  interceptor's stdin before the server exits, and lines over ten megabytes;
  the proxy's DELETE, which changes nothing here, and the text of its `/metrics`;
  a log line of which only a part was written.

## 8. Plan

1. **Done**: every component that keeps state across requests (section 2), two
   compositions across processes (`SigningKeys` with the sidecar's cache, `Approvals`
   with its channels), proofs of all invariants and action properties (section 5).
2. **Done**: `Registry` and `CoreTokens` shown to implement one abstract specification
   of delegation; a delegation that outlives the revocation of an agent above it does not
   outlive that agent's expiry (`VerifiedIsGranted`).
3. Models: `rotateEncryptionKey` with crashes, the end of stdin and oversized lines
   in the interceptor, partly written log lines.
4. Composition: the registry with a sidecar that verifies by `/api/verify`, and what a
   revocation means to a call that is held for approval.
