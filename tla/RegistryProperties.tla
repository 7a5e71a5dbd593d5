------------------------- MODULE RegistryProperties -------------------------
(***************************************************************************)
(* What the agents table and the tokens promise.                           *)
(***************************************************************************)
EXTENDS Registry

Ended == {"revoked", "deprovisioned"}

\* Every variable has its type: rows for the inserted ids, signed tokens,
\* suspended requests and audit entries.
TypeOK ==
    /\ agents \in [Ids -> Row]
    /\ Ids \subseteq AgentIds
    /\ tokens \subseteq Token
    /\ pending \in [Requests -> PendingRequest]
    /\ nextJti \in Nat
    /\ now \in 0..MaxTime
    /\ audit \subseteq AuditEntry

\* The rows of the table and those about to be inserted.
RowsToCome == {pending[r].row : r \in {s \in Requests : Inserting(s)}}
AllRows == {agents[a] : a \in Ids} \cup RowsToCome

\* A delegate against the row of its parent, as the delegate handler (which
\* read the parent before an await) left them: the parent exists, the human,
\* the risk and the depth limit are the parent's, the depth is one more and
\* within the limit, nothing is granted that the parent could not delegate,
\* and the delegate does not outlive its parent, whatever happened to the
\* parent since.
NarrowsParent(row) ==
    row.parent_id # Null =>
        /\ row.parent_id \in Ids
        /\ LET p == agents[row.parent_id]
           IN  /\ row.human = p.human
               /\ row.risk = p.risk
               /\ row.max_depth = p.max_depth
               /\ row.depth = p.depth + 1
               /\ row.depth <= row.max_depth
               /\ row.scope \cup row.can_delegate \subseteq p.can_delegate
               /\ row.expires_at <= p.expires_at
DelegationNarrows == \A row \in AllRows : NarrowsParent(row)

\* No delegate is dated after its parent's revocation or deprovisioning: the
\* delegations that survive a cascade were all under way when it ran.
NoDelegationAfterEnd ==
    \A row \in AllRows :
        (row.parent_id \in Ids /\ agents[row.parent_id].revoked_at # Null)
            => row.created_at <= agents[row.parent_id].revoked_at

\* The expiry job's cascade never ends an agent before its own time: whatever
\* it marked 'expired' is past its own expires_at.
ExpiredIsPastDue ==
    \A a \in Ids : agents[a].status = "expired" => agents[a].expires_at <= now

\* revoked_at dates exactly the revoked and the deprovisioned agents, however
\* often and in whatever order the two were applied to a subtree.
RevokedAtDatesEnd ==
    \A a \in Ids : agents[a].revoked_at # Null <=> agents[a].status \in Ended

\* However many rotations of an agent overlap, at most one of its tokens
\* passes /api/verify.
OneUsableToken ==
    \A t, u \in tokens : \A x, y \in Tools :
        (t.agent = u.agent /\ VerifyAllows(t, x) /\ VerifyAllows(u, y)) => t = u

\* Rotation never prolongs an agent: each of its tokens ends when the row does.
TokensEndWithAgent ==
    \A t \in tokens : t.agent \in Ids /\ t.exp = agents[t.agent].expires_at

\* Status, dates and tokens tell one story about an agent's end, whichever of
\* revocation, deprovisioning, cascades, expiry and rotation came in between.
EndsJustified == ExpiredIsPastDue /\ RevokedAtDatesEnd /\ TokensEndWithAgent

\* The expiry job logs every agent it ends, those of the cascade included,
\* even across crashes: status and entry are one transaction.
ExpiryIsAudited ==
    \A a \in Ids : agents[a].status = "expired"
                        => [agent |-> a, action |-> "auto_expired"] \in audit

\* An agent that left 'active' never becomes active again, also when a handler
\* that saw it active writes it after an await.
NeverReactivated ==
    [][\A a \in Ids : agents'[a].status = "active"
                        => agents[a].status = "active"]_vars

\* A step by which an agent leaves 'active' leaves no active agent below it in
\* the table: DELETE, deprovisioning (of one agent, or of a human, which does
\* not walk the descendants), SCIM and expiry take the whole subtree, and a
\* crash does not cut a subtree in two.
EndTakesSubtree ==
    [][\A a \in Ids :
          (agents[a].status = "active" /\ agents'[a].status # "active")
              => \A b \in Subtree(agents, {a}) :
                    agents'[b].status # "active"]_vars

\* Deprovisioning a human leaves none of the agents that descend from an agent
\* of that human in another status.
HumanDeprovisionComplete ==
    [][\A h \in Humans : DeprovisionHuman(h) =>
          \A b \in Subtree(agents, {a \in Ids : agents[a].human = h}) :
              agents'[b].status = "deprovisioned"]_vars

\* However an agent or a human's agents are ended, and whichever handler saw them
\* active before: the end is final, and no descendant is left out.
EndsAreFinal == NeverReactivated /\ EndTakesSubtree /\ HumanDeprovisionComplete

\* A high-risk agent is at most one delegation away from the agent that was
\* registered with a verified identity: the limit is checked at registration
\* only, on the root, and holds for delegates through what they inherit.
HighRiskDepth == \A row \in AllRows : row.risk = "high" => row.depth <= 1

\* Every agent stops being active, also one that was inserted under an ancestor
\* that was gone by then, or after its own expiry.
EveryAgentEnds ==
    \A a \in AgentIds :
        (a \in Ids) ~> (a \in Ids /\ agents[a].status # "active")

-----------------------------------------------------------------------------
(* The abstract specification of delegation *)

\* What a row grants: its lifetime is capped by the clock reading that dates it.
GrantOf(row) ==
    [from   |-> row.parent_id,
     may    |-> row.scope,
     passes |-> row.can_delegate,
     levels |-> row.max_depth - row.depth,
     until  |-> row.expires_at,
     lag    |-> 0]

AllGrants == [a \in Ids |-> GrantOf(agents[a])]

Delegation == INSTANCE NarrowingDelegation WITH
    Holders <- AgentIds, Rights <- Tools, Nobody <- Null, grants <- AllGrants

\* Seen from the scopes, depths and expiries of its rows the registry does nothing
\* but delegate: also when a row is inserted from what was read of its parent
\* before an await, and when the parent, or the row, ended, was rotated or lost
\* half of a cascade to a crash.
ImplementsDelegation == Delegation!Spec

-----------------------------------------------------------------------------
(* What makes the invariants inductive *)

Busy(r) == pending[r] # Idle
PendingJti(r) == IF Inserting(r) THEN pending[r].row.token_jti
                                 ELSE pending[r].token_jti

\* Dates lie in the past: they are read from the clock, never computed.
DatesPast ==
    \A a \in Ids : /\ agents[a].created_at <= now
                   /\ agents[a].revoked_at # Null => agents[a].revoked_at <= now

\* A suspended insertion has an id of its own and carries an active row; a
\* suspended rotation is of an agent in the table, and keeps its expiry.
PendingSound ==
    \A r \in Requests :
        /\ Inserting(r) =>
              /\ pending[r].id \notin Ids
              /\ \A s \in Requests \ {r} :
                    Inserting(s) => pending[s].id # pending[r].id
              /\ pending[r].row.status = "active"
              /\ pending[r].row.revoked_at = Null
              /\ pending[r].row.created_at <= now
        /\ pending[r].phase = "rotating" =>
              /\ pending[r].id \in Ids
              /\ pending[r].exp = agents[pending[r].id].expires_at

\* A jti is given out once: it is held by one token and one row, that of the
\* token's agent, and what is being issued is held by none yet.
JtisUnique ==
    /\ \A t \in tokens : t.jti < nextJti
    /\ \A a \in Ids : agents[a].token_jti < nextJti
    /\ \A t, u \in tokens : t.jti = u.jti => t = u
    /\ \A t \in tokens, a \in Ids : HoldsToken(t, a) => t.agent = a
    /\ \A r \in Requests : Busy(r) =>
          /\ PendingJti(r) < nextJti
          /\ \A t \in tokens : t.jti # PendingJti(r)
          /\ \A a \in Ids : agents[a].token_jti # PendingJti(r)
          /\ \A s \in Requests \ {r} : Busy(s) => PendingJti(s) # PendingJti(r)

\* A depth counts from the root and is within the limit, which is one at most
\* for high-risk agents.
DepthBounded ==
    \A row \in AllRows : /\ row.parent_id = Null => row.depth = 0
                         /\ row.depth <= row.max_depth
                         /\ row.risk = "high" => row.max_depth <= 1

IInv == /\ TypeOK
        /\ DatesPast
        /\ PendingSound
        /\ JtisUnique
        /\ DelegationNarrows
        /\ NoDelegationAfterEnd
        /\ ExpiredIsPastDue
        /\ RevokedAtDatesEnd
        /\ TokensEndWithAgent
        /\ DepthBounded
=============================================================================
