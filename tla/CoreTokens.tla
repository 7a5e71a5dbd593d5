----------------------------- MODULE CoreTokens -----------------------------
(***************************************************************************)
(* The library @eigent/core: tokens are issued by callers, delegated to    *)
(* children that may do less for a shorter time, and revoked in an         *)
(* in-memory store that forgets expired entries.  The library keeps no     *)
(* table: all it knows of a parent is what the token says.                 *)
(*                                                                         *)
(* delegateToken reads the clock to cap the child's lifetime, issueToken   *)
(* reads it again to date the child: a delegation is two steps.            *)
(***************************************************************************)
EXTENDS Integers, Sequences

CONSTANTS
    Namespaces, Ops,  \* a tool is named "<namespace>:<op>"
    AnyOp, All,         \* the op of the scope "<namespace>:*", and the scope "*"
    RootSubs,         \* subjects of the tokens that callers issue
    RootClaims,       \* claims that callers pass to issueToken
    Delegations,      \* requests: requested_scope and ttl_seconds
    Requests,         \* delegations that can be under way at a time
    MaxTokens,        \* bound: tokens issued
    MaxTime           \* bound: the clock stops here

Tool  == [ns: Namespaces, op: Ops]
Scope == {All} \cup [ns: Namespaces, op: Ops \cup {AnyOp}]

\* EigentTokenClaimsSchema and DelegationRequestSchema
Claims == [sub: RootSubs, scope: (SUBSET Scope) \ {{}}, can_delegate: SUBSET Scope,
           depth: Nat, max_depth: Nat, chain: Seq(RootSubs), ttl: Nat \ {0}]
DelegationRequest == [requested_scope: (SUBSET Scope) \ {{}}, ttl: Nat \ {0}]

ASSUME CoreAssumption ==
    /\ RootSubs \cap Nat = {}
    /\ RootClaims \subseteq Claims
    /\ Delegations \subseteq DelegationRequest
    /\ MaxTokens \in Nat
    /\ MaxTime \in Nat

VARIABLES
    issued,   \* every token so far; the jti is the index
    signing,  \* delegations between the two readings of the clock
    entries,  \* the revocation store: jti -> expiresAt
    revoked,  \* history: every jti that was ever revoked
    now       \* in seconds

vars == <<issued, signing, entries, revoked, now>>

Idle == [parent |-> 0]
Jtis == DOMAIN issued

Min2(x, y) == IF x <= y THEN x ELSE y

-----------------------------------------------------------------------------
(* Permissions *)

Matches(scope, tool) ==
    \/ scope = All
    \/ scope = tool
    \/ scope # All /\ scope.op = AnyOp /\ scope.ns = tool.ns

isActionAllowed(t, tool) == \E scope \in t.scope : Matches(scope, tool)

\* variant: what the parent holds is not looked at
IntersectDelegatable(parent, requested, delegatable) ==
    requested \cap delegatable

\* the granted scopes; the others are denied
intersectScopes(parent, requested, delegatable) ==
    requested \cap parent \cap delegatable

canDelegate(t, scope) ==
    /\ t.depth < t.max_depth
    /\ scope # {}
    /\ scope \subseteq t.scope /\ scope \subseteq t.can_delegate

-----------------------------------------------------------------------------
(* Tokens *)

\* validateToken, for a token that the library signed
NotExpired(t) == now < t.exp

\* The last three fields are history: the jti of the parent, 0 for a token that
\* a caller issued, and the two readings of the clock.
RootToken(c) ==
    [sub |-> c.sub, scope |-> c.scope, can_delegate |-> c.can_delegate,
     depth |-> c.depth, max_depth |-> c.max_depth, chain |-> c.chain,
     exp |-> now + c.ttl, parent |-> 0, asked_at |-> now, iat |-> now]

issueToken(c) ==
    /\ Len(issued) < MaxTokens
    /\ issued' = Append(issued, RootToken(c))
    /\ UNCHANGED <<signing, entries, revoked, now>>

Granted(t, q) == intersectScopes(t.scope, q.requested_scope, t.can_delegate)

\* variant: the depth limit is not looked at
AcceptedAtAnyDepth(t, q) == NotExpired(t) /\ Granted(t, q) # {}

DelegationAccepted(t, q) ==
    /\ NotExpired(t)
    /\ t.depth < t.max_depth
    /\ Granted(t, q) # {}

ChildTtl(t, q) == Min2(q.ttl, t.exp - now)

\* delegateToken up to its call of issueToken
delegateToken(r, j, q) ==
    /\ signing[r] = Idle
    /\ DelegationAccepted(issued[j], q)
    /\ signing' = [signing EXCEPT ![r] =
          [parent |-> j, scope |-> Granted(issued[j], q),
           ttl |-> ChildTtl(issued[j], q), asked_at |-> now]]
    /\ UNCHANGED <<issued, entries, revoked, now>>

\* variant: the subject of the parent is left out of the chain
ParentsChain(t) == t.chain

ExtendedChain(t) == Append(t.chain, t.sub)

\* A child is its own subject: a fresh uuid, here the jti.
ChildToken(s, sub) ==
    LET t == issued[s.parent]
    IN  [sub |-> sub, scope |-> s.scope,
         can_delegate |-> s.scope \cap t.can_delegate,
         depth |-> t.depth + 1, max_depth |-> t.max_depth,
         chain |-> ExtendedChain(t), exp |-> now + s.ttl,
         parent |-> s.parent, asked_at |-> s.asked_at, iat |-> now]

IssueChild(r) ==
    /\ signing[r] # Idle
    /\ Len(issued) < MaxTokens
    /\ issued' = Append(issued, ChildToken(signing[r], Len(issued) + 1))
    /\ signing' = [signing EXCEPT ![r] = Idle]
    /\ UNCHANGED <<entries, revoked, now>>

\* validateDelegationChain reports no violation.
ChainValid(t) ==
    /\ t.depth = Len(t.chain)
    /\ t.depth <= t.max_depth
    /\ t.can_delegate \subseteq t.scope
    /\ \A i \in DOMAIN t.chain : t.chain[i] # t.sub

-----------------------------------------------------------------------------
(* InMemoryRevocationStore *)

Children(S) == {j \in Jtis : issued[j].parent \in S}

\* A token and all that descend from it: the least set closed under parent.
Line(j) == {k \in Jtis : \A S \in SUBSET Jtis :
                            (j \in S /\ Children(S) \subseteq S) => k \in S}

\* variant: an entry of a child is kept for a second
KeptBriefly(j, k) == IF k = j THEN issued[j].exp ELSE now + 1

\* Children are entered with the expiresAt of the parent.
KeptUntil(j, k) == issued[j].exp

\* The caller passes the exp of the token it revokes, and those children that it
\* knows; none for a plain revoke.
revokeWithCascade(j, children) ==
    /\ entries' = [k \in DOMAIN entries \cup {j} \cup children |->
                      IF k \in {j} \cup children THEN KeptUntil(j, k)
                                                 ELSE entries[k]]
    /\ revoked' = revoked \cup {j} \cup children
    /\ UNCHANGED <<issued, signing, now>>

isRevoked(j) == j \in DOMAIN entries

cleanup ==
    /\ entries' = [k \in {e \in DOMAIN entries : entries[e] > now} |-> entries[k]]
    /\ UNCHANGED <<issued, signing, revoked, now>>

Tick ==
    /\ now < MaxTime
    /\ now' = now + 1
    /\ UNCHANGED <<issued, signing, entries, revoked>>

Init ==
    /\ issued = <<>>
    /\ signing = [r \in Requests |-> Idle]
    /\ entries = [j \in {} |-> 0]
    /\ revoked = {}
    /\ now = 0

Next ==
    \/ \E c \in RootClaims : issueToken(c)
    \/ \E r \in Requests :
          \/ \E j \in Jtis, q \in Delegations : delegateToken(r, j, q)
          \/ IssueChild(r)
    \/ \E j \in Jtis : \E S \in SUBSET Line(j) : revokeWithCascade(j, S)
    \/ cleanup
    \/ Tick

Spec == Init /\ [][Next]_vars

-----------------------------------------------------------------------------
(* Properties *)

Token == [sub: RootSubs \cup Nat, scope: SUBSET Scope, can_delegate: SUBSET Scope,
          depth: Nat, max_depth: Nat, chain: Seq(RootSubs \cup Nat), exp: Nat,
          parent: Nat, asked_at: Nat, iat: Nat]

\* Every variable has its type; a parent is older than its child.
TypeOK ==
    /\ issued \in Seq(Token)
    /\ \A j \in Jtis : issued[j].parent < j
    /\ signing \in [Requests -> {Idle} \cup [parent: Jtis, scope: SUBSET Scope,
                                             ttl: Nat, asked_at: 0..now]]
    /\ entries \in [DOMAIN entries -> Nat]
    /\ DOMAIN entries \subseteq revoked /\ revoked \subseteq Jtis
    /\ now \in 0..MaxTime

\* Whatever wildcards the scopes hold, no token of a line allows a tool that the
\* token at its head does not, though the line was made from tokens alone.
ToolsNarrow ==
    \A j \in Jtis : \A k \in Line(j), tool \in Tool :
        isActionAllowed(issued[k], tool) => isActionAllowed(issued[j], tool)

\* A child outlives its parent by no more than the time between the readings of
\* the clock.
LifetimeCapped ==
    \A j \in Jtis : issued[j].parent # 0 =>
        issued[j].exp <= issued[issued[j].parent].exp
                             + (issued[j].iat - issued[j].asked_at)

\* Whatever a line of tokens was made from, and whenever, none is a wider or a
\* longer grant than the one it was made from.
ChildrenBounded == ToolsNarrow /\ LifetimeCapped

\* delegateToken makes tokens that validateDelegationChain accepts, from a
\* parent whose depth and chain agree, also if that parent is not valid itself
\* because it may delegate what it does not hold.
DelegatedTokensValid ==
    \A j \in Jtis :
        LET p == issued[j].parent
        IN  (/\ p # 0
             /\ issued[p].depth = Len(issued[p].chain)) => ChainValid(issued[j])

\* canDelegate says of every token and set of scopes what delegateToken would
\* grant without denying any of it.
CanDelegateAgrees ==
    \A j \in Jtis, scope \in (SUBSET Scope) \ {{}} :
        LET t == issued[j]
        IN  canDelegate(t, scope) <=>
                /\ t.depth < t.max_depth
                /\ intersectScopes(t.scope, scope, t.can_delegate) = scope

\* What delegateToken grants, canDelegate says beforehand and
\* validateDelegationChain accepts afterwards: three places that decide of one
\* delegation.
DecisionsAgree == CanDelegateAgrees /\ DelegatedTokensValid

\* What a token grants.  A parent may pass on scopes it does not hold itself.
GrantOf(t) ==
    [from   |-> t.parent,
     may    |-> t.scope,
     passes |-> t.can_delegate,
     levels |-> t.max_depth - t.depth,
     until  |-> t.exp,
     lag    |-> t.iat - t.asked_at]

AllGrants == [j \in Jtis |-> GrantOf(issued[j])]

Delegation == INSTANCE NarrowingDelegation WITH
    Holders <- 1..MaxTokens, Rights <- Scope, Nobody <- 0, grants <- AllGrants

\* The library does nothing but delegate, though it keeps no table, reads the
\* clock twice, and other delegations from the same parent are under way.
ImplementsDelegation == Delegation!Spec

\* A token that outlives one it descends from.
Overlong(k) == \E j \in Jtis : k \in Line(j) /\ issued[j].exp < issued[k].exp

\* However revocations, cascades and cleanups follow each other, and although a
\* cascade enters children with the parent's expiry and a later entry replaces
\* an earlier one, a revoked token is not forgotten before it has expired, but
\* for tokens that outlive one they descend from.
RevokedNotForgotten ==
    \A k \in revoked : isRevoked(k) \/ ~NotExpired(issued[k]) \/ Overlong(k)
=============================================================================
