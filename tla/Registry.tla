------------------------------ MODULE Registry ------------------------------
(***************************************************************************)
(* The agents table of the Eigent registry and every handler that writes   *)
(* it: registration, delegation, cascade revocation, token rotation, the   *)
(* auto-expiry job, agent and human deprovisioning and the SCIM webhook.   *)
(*                                                                         *)
(* The registry is one Node process over SQLite.  A handler that never     *)
(* awaits is one step.  Registration, delegation and rotation await        *)
(* issueToken between the checks and the write: each is two steps, and     *)
(* what the first one read may be stale when the second one writes.        *)
(* The process may crash between two statements that are not in one        *)
(* transaction, and loses the requests in flight.                          *)
(***************************************************************************)
EXTENDS Integers, FiniteSets

CONSTANTS
    AgentIds,       \* the uuids agents are given
    Humans,         \* human principals (human_sub, human_email, human_iss)
    Tools,          \* scope strings
    Wildcards,      \* the scope strings "*" and "all"
    Requests,       \* concurrent requests the server can be awaiting for
    Registrations,  \* bodies of POST /api/agents
    Delegations,    \* bodies of POST /api/agents/:id/delegate, less the token
    MaxTime,        \* bound: the clock stops here, and no agent outlives it
    MaxTokens,      \* bound: tokens ever signed
    Null            \* SQL NULL

RiskLevels == {"unacceptable", "high", "limited", "minimal"}
Statuses   == {"active", "revoked", "expired", "deprovisioned"}

RegisterBody == [human: Humans, verified: BOOLEAN,
                 scope: (SUBSET Tools) \ {{}}, can_delegate: SUBSET Tools,
                 max_depth: Nat, ttl: Nat \ {0}, risk: RiskLevels]
DelegateBody == [requested_scope: (SUBSET Tools) \ {{}}, ttl: Nat \ {0}]

ASSUME RegistryAssumption ==
    /\ MaxTime \in Nat
    /\ MaxTokens \in Nat
    /\ Wildcards \subseteq Tools
    /\ Registrations \subseteq RegisterBody
    /\ Delegations \subseteq DelegateBody
    /\ Null \notin AgentIds
    /\ Null \notin Nat

VARIABLES
    agents,   \* table: id -> row, for the ids inserted so far
    tokens,   \* signed tokens that were returned to a caller
    pending,  \* requests suspended in `await issueToken`
    nextJti,  \* source of fresh token ids
    now,      \* wall clock
    audit     \* lifecycle entries of the audit log: which action on whom

vars == <<agents, tokens, pending, nextJti, now, audit>>

Row == [status: Statuses, human: Humans, risk: RiskLevels,
        scope: SUBSET Tools, can_delegate: SUBSET Tools,
        parent_id: AgentIds \cup {Null}, depth: Nat, max_depth: Nat,
        token_jti: Nat, created_at: Nat, expires_at: Nat,
        revoked_at: Nat \cup {Null}]

Token == [jti: Nat, agent: AgentIds, exp: Nat]

AuditActions == {"issued", "delegated", "revoked", "token_rotated",
                 "auto_expired", "deprovisioned", "human_deprovisioned"}
AuditEntry == [agent: AgentIds, action: AuditActions]

Idle == [phase |-> "idle"]
PendingRequest ==
    {Idle}
    \cup [phase: {"inserting"}, id: AgentIds, row: Row]
    \cup [phase: {"rotating"}, id: AgentIds, token_jti: Nat, exp: Nat]

-----------------------------------------------------------------------------
(* Helpers on the table *)

Min2(x, y) == IF x <= y THEN x ELSE y

Ids == DOMAIN agents

Children(table, S) == {b \in DOMAIN table : table[b].parent_id \in S}

\* roots and all their descendants: the least set closed under parent_id
Subtree(table, roots) ==
    {b \in DOMAIN table :
        \A S \in SUBSET DOMAIN table :
            (roots \subseteq S /\ Children(table, S) \subseteq S) => b \in S}

ActiveIds == {a \in Ids : agents[a].status = "active"}

Log(S, action) == audit \cup {[agent |-> a, action |-> action] : a \in S}

Inserting(r) == pending[r].phase = "inserting"
FreshIds == {id \in AgentIds \ Ids :
                \A r \in Requests : Inserting(r) => pending[r].id # id}

\* jose.jwtVerify: signature and exp; every key ever used stays published
TokenLive(t) == now < t.exp

-----------------------------------------------------------------------------
(* POST /api/agents *)

RegistrationAdmitted(q) ==
    /\ q.risk # "unacceptable"
    /\ q.risk = "high" => /\ q.verified
                          /\ q.max_depth <= 1
                          /\ q.scope \cap Wildcards = {}

RootRow(q, jti) ==
    [status       |-> "active",
     human        |-> q.human,
     risk         |-> q.risk,
     scope        |-> q.scope,
     can_delegate |-> IF q.can_delegate # {} THEN q.can_delegate ELSE q.scope,
     parent_id    |-> Null,
     depth        |-> 0,
     max_depth    |-> q.max_depth,
     token_jti    |-> jti,
     created_at   |-> now,
     expires_at   |-> now + q.ttl,
     revoked_at   |-> Null]

\* Up to `await issueToken`: the row is built with the clock read here.
Register(r, q) ==
    /\ pending[r] = Idle
    /\ RegistrationAdmitted(q)
    /\ nextJti <= MaxTokens
    /\ now + q.ttl <= MaxTime
    /\ \E id \in FreshIds :
          pending' = [pending EXCEPT ![r] =
              [phase |-> "inserting", id |-> id, row |-> RootRow(q, nextJti)]]
    /\ nextJti' = nextJti + 1
    /\ UNCHANGED <<agents, tokens, now, audit>>

-----------------------------------------------------------------------------
(* POST /api/agents/:id/delegate *)

GrantedScope(p, d) == d.requested_scope \cap p.can_delegate

\* variant: the parent's remaining lifetime is not looked at
UncappedExpiry(p, d) == now + d.ttl

ChildExpiry(p, d) == Min2(p.expires_at, now + d.ttl)

\* variant: the depth limit is off by one
DepthOffByOne(p) == p.status = "active" /\ p.depth <= p.max_depth

\* variant: the parent's status is not looked at
NoStatusCheck(p) == p.depth < p.max_depth

MayDelegate(p) == p.status = "active" /\ p.depth < p.max_depth

\* variant: scope and can_delegate are copied from the parent
InheritedCanDelegate(parent, p, d, jti) ==
    [p EXCEPT !.parent_id = parent,
              !.depth = @ + 1,
              !.token_jti = jti,
              !.created_at = now,
              !.expires_at = ChildExpiry(p, d)]

ChildRow(parent, p, d, jti) ==
    [p EXCEPT !.scope = GrantedScope(p, d),
              !.can_delegate = GrantedScope(p, d),
              !.parent_id = parent,
              !.depth = @ + 1,
              !.token_jti = jti,
              !.created_at = now,
              !.expires_at = ChildExpiry(p, d)]

\* What the handler checks.  verifyToken looks at the signature and at exp, not
\* at the jti.
DelegateAccepts(t, d) ==
    /\ TokenLive(t)
    /\ t.agent \in Ids
    /\ MayDelegate(agents[t.agent])
    /\ GrantedScope(agents[t.agent], d) # {}

\* Up to `await issueToken`; the parent's row is read here and not again.
Delegate(r, t, d) ==
    /\ pending[r] = Idle
    /\ DelegateAccepts(t, d)
    /\ nextJti <= MaxTokens
    /\ \E id \in FreshIds :
          pending' = [pending EXCEPT ![r] =
              [phase |-> "inserting", id |-> id,
               row |-> ChildRow(t.agent, agents[t.agent], d, nextJti)]]
    /\ nextJti' = nextJti + 1
    /\ UNCHANGED <<agents, tokens, now, audit>>

\* Registration and delegation after `await issueToken`: insertAgent, the
\* audit entry and the response that carries the token.
InsertedBy(r) ==
    [a \in Ids \cup {pending[r].id} |->
        IF a = pending[r].id THEN pending[r].row ELSE agents[a]]

NewToken(r) ==
    IF Inserting(r)
    THEN [jti |-> pending[r].row.token_jti, agent |-> pending[r].id,
          exp |-> pending[r].row.expires_at]
    ELSE [jti |-> pending[r].token_jti, agent |-> pending[r].id,
          exp |-> pending[r].exp]

Insert(r) ==
    /\ Inserting(r)
    /\ agents' = InsertedBy(r)
    /\ tokens' = tokens \cup {NewToken(r)}
    /\ audit' = Log({pending[r].id},
                    IF pending[r].row.parent_id = Null
                    THEN "issued" ELSE "delegated")
    /\ pending' = [pending EXCEPT ![r] = Idle]
    /\ UNCHANGED <<nextJti, now>>

-----------------------------------------------------------------------------
(* POST /api/agents/:id/rotate *)

RotatedExpiry(a) == agents[a].expires_at

RotateStart(r, a) ==
    /\ pending[r] = Idle
    /\ a \in ActiveIds
    /\ nextJti <= MaxTokens
    /\ pending' = [pending EXCEPT ![r] =
                      [phase |-> "rotating", id |-> a, token_jti |-> nextJti,
                       exp |-> RotatedExpiry(a)]]
    /\ nextJti' = nextJti + 1
    /\ UNCHANGED <<agents, tokens, now, audit>>

RotatedBy(r) ==
    [agents EXCEPT ![pending[r].id].token_jti = pending[r].token_jti]

\* After the await: UPDATE token_jti, whatever the status is by now.
RotateFinish(r) ==
    /\ pending[r].phase = "rotating"
    /\ agents' = RotatedBy(r)
    /\ tokens' = tokens \cup {NewToken(r)}
    /\ audit' = Log({pending[r].id}, "token_rotated")
    /\ pending' = [pending EXCEPT ![r] = Idle]
    /\ UNCHANGED <<nextJti, now>>

-----------------------------------------------------------------------------
(* Ending agents: every one of these handlers runs without an await *)

RevokedRow(row) == [row EXCEPT !.status = "revoked", !.revoked_at = now]

\* COALESCE(revoked_at, now)
DeprovisionedRow(row) ==
    [row EXCEPT !.status = "deprovisioned",
                !.revoked_at = IF @ = Null THEN now ELSE @]

ExpiredRow(row) == [row EXCEPT !.status = "expired"]

Updated(S, Op(_)) ==
    [a \in Ids |-> IF a \in S THEN Op(agents[a]) ELSE agents[a]]

\* variant: the cascade stops after the children
RevokeChildrenOnly(a) == {a} \cup Children(agents, {a})

\* revokeAgentCascade: [agentId, ...findDescendants(agentId)]
RevokeSet(a) == Subtree(agents, {a})

\* DELETE /api/agents/:id
Revocable(a) == a \in Ids /\ agents[a].status # "revoked"

Revoke(a) ==
    /\ Revocable(a)
    /\ agents' = Updated(RevokeSet(a), RevokedRow)
    /\ audit' = Log(RevokeSet(a), "revoked")
    /\ UNCHANGED <<tokens, pending, nextJti, now>>

\* POST /api/agents/:id/deprovision
Deprovisionable(a) == a \in Ids /\ agents[a].status # "deprovisioned"

Deprovision(a) ==
    /\ Deprovisionable(a)
    /\ agents' = Updated(Subtree(agents, {a}), DeprovisionedRow)
    /\ audit' = Log({a}, "deprovisioned")
    /\ UNCHANGED <<tokens, pending, nextJti, now>>

\* POST /api/humans/:email/deprovision: no walk over descendants, the query
\* relies on delegates carrying their parent's human_email.
DeprovisionableOf(h) ==
    {a \in Ids : agents[a].human = h /\ agents[a].status # "deprovisioned"}

DeprovisionHuman(h) ==
    /\ DeprovisionableOf(h) # {}
    /\ agents' = Updated(DeprovisionableOf(h), DeprovisionedRow)
    /\ \E a \in DeprovisionableOf(h) : audit' = Log({a}, "human_deprovisioned")
    /\ UNCHANGED <<tokens, pending, nextJti, now>>

\* POST /api/scim/webhook: a cascade for each active agent of the human, one
\* transaction each.  The summary entry that follows names the agent
\* 'system', which the foreign key of audit_log refuses: nothing is added.
ActiveOf(h) == {a \in ActiveIds : agents[a].human = h}

ScimDeprovision(h) ==
    /\ ActiveOf(h) # {}
    /\ agents' = Updated(Subtree(agents, ActiveOf(h)), RevokedRow)
    /\ audit' = Log(Subtree(agents, ActiveOf(h)), "revoked")
    /\ UNCHANGED <<tokens, pending, nextJti, now>>

\* variant: delegates are left to the cascade from their root
RootsDue == {a \in ActiveIds : /\ agents[a].expires_at <= now
                              /\ agents[a].parent_id = Null}

\* runAutoExpiry, from setInterval; status and audit in one transaction.
Due == {a \in ActiveIds : agents[a].expires_at <= now}

ExpirySet == Subtree(agents, Due) \cap ActiveIds

\* variant: what the cascade from a parent takes is not logged
LoggedRootsOnly == {a \in ExpirySet : agents[a].parent_id \notin Due}

LoggedExpiries == ExpirySet

AutoExpiry ==
    /\ Due # {}
    /\ agents' = Updated(ExpirySet, ExpiredRow)
    /\ audit' = Log(LoggedExpiries, "auto_expired")
    /\ UNCHANGED <<tokens, pending, nextJti, now>>

-----------------------------------------------------------------------------
(* POST /api/verify: the answer for a token and a tool.  Its only write is an *)
(* audit entry for the call, which is not a lifecycle entry.                  *)

\* variant: the agent is looked up by the token's subject, not by its jti
RowNamedBy(t, a) == t.agent = a

HoldsToken(t, a) == agents[a].token_jti = t.jti

VerifyAllows(t, tool) ==
    /\ TokenLive(t)
    /\ \E a \in Ids : /\ HoldsToken(t, a)
                     /\ agents[a].status # "revoked"
                     /\ ~(agents[a].expires_at < now)
                     /\ tool \in agents[a].scope

-----------------------------------------------------------------------------
(* Crashes and time *)

\* The process dies after a commit and before the audit entries and the
\* response: a new token is lost with the response, entries may be missing.
TornWrite ==
    \/ /\ \/ \E r \in Requests : Inserting(r) /\ agents' = InsertedBy(r)
          \/ \E r \in Requests : /\ pending[r].phase = "rotating"
                                 /\ agents' = RotatedBy(r)
          \/ \E a \in Ids : /\ Deprovisionable(a)
                            /\ agents' = Updated(Subtree(agents, {a}),
                                                 DeprovisionedRow)
          \/ \E h \in Humans : /\ DeprovisionableOf(h) # {}
                               /\ agents' = Updated(DeprovisionableOf(h),
                                                    DeprovisionedRow)
       /\ UNCHANGED audit
    \/ \E a \in Ids :
          /\ Revocable(a)
          /\ agents' = Updated(RevokeSet(a), RevokedRow)
          /\ \E S \in SUBSET RevokeSet(a) : audit' = Log(S, "revoked")
    \/ \E h \in Humans : \E done \in SUBSET ActiveOf(h) :
          \* the agents are taken in order of created_at, newest first
          /\ \A a \in done, b \in ActiveOf(h) \ done :
                agents[a].created_at >= agents[b].created_at
          /\ agents' = Updated(Subtree(agents, done), RevokedRow)
          /\ \E S \in SUBSET Subtree(agents, done) : audit' = Log(S, "revoked")

Crash ==
    /\ TornWrite \/ UNCHANGED <<agents, audit>>
    /\ pending' = [r \in Requests |-> Idle]
    /\ UNCHANGED <<tokens, nextJti, now>>

Tick ==
    /\ now < MaxTime
    /\ now' = now + 1
    /\ UNCHANGED <<agents, tokens, pending, nextJti, audit>>

-----------------------------------------------------------------------------
Init ==
    /\ agents = [a \in {} |-> Null]
    /\ tokens = {}
    /\ pending = [r \in Requests |-> Idle]
    /\ nextJti = 1
    /\ now = 0
    /\ audit = {}

Next ==
    \/ \E r \in Requests :
          \/ \E q \in Registrations : Register(r, q)
          \/ \E t \in tokens, d \in Delegations : Delegate(r, t, d)
          \/ Insert(r)
          \/ \E a \in AgentIds : RotateStart(r, a)
          \/ RotateFinish(r)
    \/ \E a \in AgentIds : Revoke(a) \/ Deprovision(a)
    \/ \E h \in Humans : DeprovisionHuman(h) \/ ScimDeprovision(h)
    \/ AutoExpiry
    \/ Crash
    \/ Tick

Spec == Init /\ [][Next]_vars

\* Time passes, and setInterval keeps running the expiry job.
FairSpec == Spec /\ WF_vars(Tick) /\ WF_vars(AutoExpiry)
=============================================================================
