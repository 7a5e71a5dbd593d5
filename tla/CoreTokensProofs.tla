-------------------------- MODULE CoreTokensProofs --------------------------
(***************************************************************************)
(* The core library for any number of tokens, any claims that a caller     *)
(* may pass and any delay between the two readings of the clock.           *)
(***************************************************************************)
EXTENDS CoreTokens, TLAPS

\* A delegation under way grants what the parent holds and may delegate, to a
\* child that is within the depth limit.
SigningSound ==
    \A r \in Requests : signing[r] # Idle =>
        LET s == signing[r]  p == issued[s.parent]
        IN  /\ s.scope \subseteq p.scope \cap p.can_delegate
            /\ p.depth < p.max_depth
            /\ s.asked_at + s.ttl <= p.exp

\* A child against its parent, which is an earlier token.
ChildOf(t, p) ==
    /\ t.scope \subseteq p.scope
    /\ t.can_delegate \subseteq t.scope
    /\ t.depth = p.depth + 1 /\ t.depth <= t.max_depth
    /\ t.chain = Append(p.chain, p.sub)
    /\ t.exp <= p.exp + (t.iat - t.asked_at)

ChildrenSound ==
    \A j \in Jtis : issued[j].parent # 0 =>
        /\ ChildOf(issued[j], issued[issued[j].parent])
        /\ issued[j].sub = j

\* No token names, as its subject or in its chain, the uuid of a later one.
SubsOlder ==
    \A j \in Jtis :
        /\ issued[j].sub \in RootSubs \cup 1..j
        /\ \A i \in DOMAIN issued[j].chain :
              issued[j].chain[i] \in RootSubs \cup 1..(j - 1)

\* What is remembered of a revoked token outlasts it.
RevokedSound ==
    \A k \in revoked : \/ Overlong(k)
                       \/ ~NotExpired(issued[k])
                       \/ isRevoked(k) /\ issued[k].exp <= entries[k]

CoreInv == TypeOK /\ SigningSound /\ ChildrenSound /\ SubsOlder /\ RevokedSound

-----------------------------------------------------------------------------
(* Shape of the list of tokens *)

\* Every issued token is a token, and its parent was issued before it.
LEMMA TokensTyped ==
  ASSUME TypeOK
  PROVE  /\ Len(issued) \in Nat
         /\ Jtis = 1..Len(issued)
         /\ \A j \in Jtis : /\ issued[j] \in Token
                           /\ issued[j].parent < j /\ issued[j].parent \in Nat
<1>1. issued \in Seq(Token) /\ \A j \in Jtis : issued[j].parent < j
  BY DEF TypeOK
<1>2. \A t \in Token : t.parent \in Nat
  BY DEF Token
<1> HIDE DEF Token
<1>3. /\ Len(issued) \in Nat
      /\ Jtis = 1..Len(issued)
      /\ \A j \in Jtis : issued[j] \in Token
  BY <1>1 DEF Jtis
<1> QED
  BY <1>1, <1>2, <1>3

\* The parent of an issued token is issued.
LEMMA ParentsIn ==
  ASSUME TypeOK, NEW j \in Jtis, issued[j].parent # 0
  PROVE  issued[j].parent \in Jtis
<1>1. /\ Len(issued) \in Nat /\ Jtis = 1..Len(issued)
      /\ issued[j].parent < j /\ issued[j].parent \in Nat
  BY TokensTyped
<1> QED
  BY <1>1

\* A token that is added leaves the others where they are.
LEMMA Appended ==
  ASSUME TypeOK, NEW t \in Token, issued' = Append(issued, t),
         t.parent <= Len(issued)
  PROVE  /\ Len(issued) + 1 \notin Jtis
         /\ Jtis' = Jtis \cup {Len(issued) + 1}
         /\ \A j \in Jtis : issued'[j] = issued[j]
         /\ issued'[Len(issued) + 1] = t
         /\ issued' \in Seq(Token)
         /\ \A j \in Jtis' : issued'[j].parent < j
<1>1. issued \in Seq(Token) /\ Len(issued) \in Nat /\ Jtis = 1..Len(issued)
  BY TokensTyped DEF TypeOK
<1>2. t.parent \in Nat
  BY DEF Token
<1> HIDE DEF Token
<1>3. /\ issued' \in Seq(Token)
      /\ DOMAIN issued' = 1..(Len(issued) + 1)
      /\ \A j \in 1..Len(issued) : issued'[j] = issued[j]
      /\ issued'[Len(issued) + 1] = t
  BY <1>1
<1>4. Jtis' = Jtis \cup {Len(issued) + 1}
  BY <1>1, <1>3 DEF Jtis
<1>5. \A j \in Jtis' : issued'[j].parent < j
  BY <1>1, <1>2, <1>3, <1>4, TokensTyped
<1> QED
  BY <1>1, <1>3, <1>4, <1>5

\* What issueToken signs for a root is a token.
LEMMA RootTyped ==
  ASSUME TypeOK, NEW c \in RootClaims
  PROVE  RootToken(c) \in Token /\ RootToken(c).parent = 0
<1>1. c \in Claims
  BY CoreAssumption
<1>2. c.chain \in Seq(RootSubs \cup Nat)
  <2>1. c.chain \in Seq(RootSubs)
    BY <1>1 DEF Claims
  <2> QED
    BY <2>1
<1>3. now \in Nat
  BY CoreAssumption DEF TypeOK
<1> QED
  BY <1>1, <1>2, <1>3 DEF RootToken, Claims, Token

\* What a delegation under way will sign is a token below its parent.
LEMMA ChildTyped ==
  ASSUME TypeOK, NEW r \in Requests, signing[r] # Idle,
         NEW n \in Nat, n = Len(issued) + 1
  PROVE  /\ ChildToken(signing[r], n) \in Token
         /\ ChildToken(signing[r], n).parent = signing[r].parent
         /\ signing[r].parent \in Jtis /\ signing[r].parent <= Len(issued)
         /\ signing[r].parent # 0
<1> DEFINE s == signing[r]
           p == issued[s.parent]
<1>1. /\ s.parent \in Jtis /\ s.scope \subseteq Scope /\ s.ttl \in Nat
      /\ s.asked_at \in Nat /\ now \in Nat
  BY CoreAssumption DEF TypeOK
<1>2. p \in Token
  BY <1>1, TokensTyped
<1>3. /\ p.sub \in RootSubs \cup Nat /\ p.can_delegate \subseteq Scope
      /\ p.depth \in Nat /\ p.max_depth \in Nat
      /\ p.chain \in Seq(RootSubs \cup Nat)
  BY <1>2 DEF Token
<1>4. ExtendedChain(p) \in Seq(RootSubs \cup Nat)
  BY <1>3 DEF ExtendedChain
<1>5. s.parent \in 1..Len(issued) /\ Len(issued) \in Nat
  BY <1>1, TokensTyped
<1> HIDE DEF s, p
<1>6. ChildToken(s, n) \in Token /\ ChildToken(s, n).parent = s.parent
  BY <1>1, <1>3, <1>4, <1>5 DEF ChildToken, Token, p
<1> QED
  BY <1>1, <1>5, <1>6 DEF s

-----------------------------------------------------------------------------
(* What steps do to the list *)

\* Tokens are only added: what was issued stays as it was signed.
LEMMA Growth ==
  ASSUME TypeOK, [Next]_vars
  PROVE  /\ Jtis \subseteq Jtis'
         /\ \A j \in Jtis : issued'[j] = issued[j]
         /\ issued' \in Seq(Token)
         /\ \A j \in Jtis' : issued'[j].parent < j
<1>1. CASE UNCHANGED issued
  BY <1>1 DEF TypeOK, Jtis
<1>2. ASSUME NEW c \in RootClaims, issueToken(c)
      PROVE  /\ Jtis \subseteq Jtis'
             /\ \A j \in Jtis : issued'[j] = issued[j]
             /\ issued' \in Seq(Token)
             /\ \A j \in Jtis' : issued'[j].parent < j
  <2>1. RootToken(c).parent <= Len(issued)
    BY RootTyped, TokensTyped
  <2>2. issued' = Append(issued, RootToken(c))
    BY <1>2 DEF issueToken
  <2> QED
    BY <2>1, <2>2, RootTyped, Appended
<1>3. ASSUME NEW r \in Requests, IssueChild(r)
      PROVE  /\ Jtis \subseteq Jtis'
             /\ \A j \in Jtis : issued'[j] = issued[j]
             /\ issued' \in Seq(Token)
             /\ \A j \in Jtis' : issued'[j].parent < j
  <2>1. PICK n \in Nat : n = Len(issued) + 1
    BY TokensTyped
  <2>2. signing[r] # Idle /\ issued' = Append(issued, ChildToken(signing[r], n))
    BY <1>3, <2>1 DEF IssueChild
  <2> QED
    BY <2>1, <2>2, ChildTyped, Appended
<1> QED
  BY <1>1, <1>2, <1>3 DEF Next, vars, delegateToken, revokeWithCascade, cleanup,
                          Tick

\* A line only grows.
LEMMA LinesGrow ==
  ASSUME TypeOK, [Next]_vars, NEW j \in Jtis, NEW k \in Line(j)
  PROVE  k \in Line(j)'
<1>1. /\ Jtis \subseteq Jtis' /\ k \in Jtis
      /\ \A i \in Jtis : issued'[i] = issued[i]
  BY Growth DEF Line
<1>2. ASSUME NEW S \in SUBSET Jtis', j \in S, Children(S)' \subseteq S
      PROVE  k \in S
  <2>1. Children(S \cap Jtis) \subseteq S \cap Jtis
    BY <1>1, <1>2 DEF Children
  <2>2. j \in S \cap Jtis /\ S \cap Jtis \in SUBSET Jtis
    BY <1>2
  <2> QED
    BY <2>1, <2>2 DEF Line
<1> QED
  BY <1>1, <1>2 DEF Line

\* A token that outlives one of its ancestors goes on doing so.
LEMMA LongStayLong ==
  ASSUME TypeOK, [Next]_vars, NEW k \in Jtis, Overlong(k)
  PROVE  Overlong(k)'
<1>1. PICK j \in Jtis : k \in Line(j) /\ issued[j].exp < issued[k].exp
  BY DEF Overlong
<1>2. /\ j \in Jtis' /\ issued'[j] = issued[j] /\ issued'[k] = issued[k]
      /\ k \in Line(j)'
  BY <1>1, Growth, LinesGrow
<1> QED
  BY <1>1, <1>2 DEF Overlong

\* Every step keeps the types.
LEMMA TypesStay ==
  ASSUME TypeOK, [Next]_vars
  PROVE  TypeOK'
<1>1. issued' \in Seq(Token) /\ \A j \in Jtis' : issued'[j].parent < j
  BY Growth
<1>2. Jtis \subseteq Jtis'
  BY Growth
<1>3. now \in Nat /\ now' \in 0..MaxTime /\ now <= now'
  <2>1. now \in 0..MaxTime
    BY DEF TypeOK
  <2>2. now' = now \/ (now < MaxTime /\ now' = now + 1)
    BY DEF Next, vars, issueToken, delegateToken, IssueChild, revokeWithCascade,
           cleanup, Tick
  <2> QED
    BY <2>1, <2>2, CoreAssumption
<1>4. /\ entries' \in [DOMAIN entries' -> Nat]
      /\ DOMAIN entries' \subseteq revoked' /\ revoked' \subseteq Jtis'
  <2>1. CASE UNCHANGED <<entries, revoked>>
    BY <1>2, <2>1 DEF TypeOK
  <2>2. ASSUME NEW j \in Jtis, NEW S \in SUBSET Line(j), revokeWithCascade(j, S)
        PROVE  /\ entries' \in [DOMAIN entries' -> Nat]
               /\ DOMAIN entries' \subseteq revoked' /\ revoked' \subseteq Jtis'
    <3>1. S \subseteq Jtis
      BY DEF Line
    <3>2. issued[j].exp \in Nat
      BY TokensTyped DEF Token
    <3>3. /\ DOMAIN entries' = DOMAIN entries \cup {j} \cup S
          /\ \A k \in DOMAIN entries' : entries'[k] \in Nat
          /\ entries' = [k \in DOMAIN entries' |-> entries'[k]]
      BY <2>2, <3>2 DEF revokeWithCascade, KeptUntil, TypeOK
    <3> QED
      BY <1>2, <2>2, <3>1, <3>3 DEF revokeWithCascade, TypeOK
  <2>3. CASE cleanup
    BY <1>2, <2>3 DEF cleanup, TypeOK
  <2> QED
    BY <2>1, <2>2, <2>3 DEF Next, vars, issueToken, delegateToken, IssueChild, Tick
<1>5. signing' \in [Requests -> {Idle} \cup
          [parent: Jtis', scope: SUBSET Scope, ttl: Nat, asked_at: 0..now']]
  <2> DEFINE P == {Idle} \cup
          [parent: Jtis, scope: SUBSET Scope, ttl: Nat, asked_at: 0..now]
             Q == {Idle} \cup
          [parent: Jtis', scope: SUBSET Scope, ttl: Nat, asked_at: 0..now']
  <2>1. signing \in [Requests -> P]
    BY DEF TypeOK
  <2>2. P \subseteq Q
    <3>1. 0..now \subseteq 0..now'
      BY <1>3
    <3> QED
      BY <1>2, <3>1
  <2>3. ASSUME NEW r \in Requests, NEW j \in Jtis, NEW q \in Delegations,
               delegateToken(r, j, q)
        PROVE  signing' \in [Requests -> P]
    <3> DEFINE s == [parent |-> j, scope |-> Granted(issued[j], q),
                     ttl |-> ChildTtl(issued[j], q), asked_at |-> now]
    <3>1. Granted(issued[j], q) \in SUBSET Scope
      <4>1. issued[j].scope \subseteq Scope
        BY TokensTyped DEF Token
      <4> QED
        BY <4>1 DEF Granted, intersectScopes
    <3>2. ChildTtl(issued[j], q) \in Nat
      <4>1. issued[j].exp \in Nat /\ q.ttl \in Nat
        BY TokensTyped, CoreAssumption DEF Token, DelegationRequest
      <4>2. now < issued[j].exp
        BY <2>3 DEF delegateToken, DelegationAccepted, NotExpired
      <4> QED
        BY <1>3, <4>1, <4>2 DEF ChildTtl, Min2
    <3>3. s \in P
      BY <1>3, <3>1, <3>2
    <3>4. signing' = [signing EXCEPT ![r] = s]
      BY <2>3 DEF delegateToken
    <3> HIDE DEF s, P
    <3> QED
      BY <2>1, <3>3, <3>4
  <2>4. ASSUME NEW r \in Requests, IssueChild(r)
        PROVE  signing' \in [Requests -> P]
    <3>1. signing' = [signing EXCEPT ![r] = Idle] /\ Idle \in P
      BY <2>4 DEF IssueChild
    <3> HIDE DEF P
    <3> QED
      BY <2>1, <3>1
  <2> HIDE DEF P, Q
  <2>6. signing' \in [Requests -> P]
    <3>1. \/ UNCHANGED signing
          \/ \E r \in Requests, j \in Jtis, q \in Delegations : delegateToken(r, j, q)
          \/ \E r \in Requests : IssueChild(r)
      BY DEF Next, vars, issueToken, revokeWithCascade, cleanup, Tick
    <3> QED
      BY <2>1, <2>3, <2>4, <3>1
  <2>7. signing' \in [Requests -> Q]
    BY <2>2, <2>6
  <2> QED
    BY <2>7 DEF Q
<1> QED
  BY <1>1, <1>3, <1>4, <1>5 DEF TypeOK

-----------------------------------------------------------------------------
(* Children *)

\* The list after a step that signs a child.
LEMMA ChildAdded ==
  ASSUME CoreInv, NEW r \in Requests, IssueChild(r),
         NEW n \in Nat, n = Len(issued) + 1
  PROVE  LET s == signing[r]  p == issued[s.parent]  t == issued'[n]
         IN  /\ n \notin Jtis /\ Jtis' = Jtis \cup {n}
             /\ \A j \in Jtis : issued'[j] = issued[j] /\ j < n
             /\ s.parent \in Jtis /\ s.parent # 0
             /\ t.sub = n
             /\ t.parent = s.parent
             /\ t.max_depth = p.max_depth
             /\ t.can_delegate \subseteq p.can_delegate
             /\ ChildOf(t, p)
<1> DEFINE s == signing[r]
           p == issued[s.parent]
           t == ChildToken(s, n)
<1>1. TypeOK /\ s # Idle /\ issued' = Append(issued, t)
  BY DEF CoreInv, IssueChild
<1>2. s.parent \in Jtis /\ s.parent <= Len(issued) /\ s.parent # 0
      /\ t \in Token /\ t.parent = s.parent
  BY <1>1, ChildTyped
<1>3. /\ n \notin Jtis /\ Jtis' = Jtis \cup {n}
      /\ \A j \in Jtis : issued'[j] = issued[j]
      /\ issued'[n] = t
  BY <1>1, <1>2, Appended
<1>4. \A j \in Jtis : j < n
  BY <1>1, TokensTyped
<1>5. ChildOf(t, p)
  <2>1. /\ s.scope \subseteq p.scope \cap p.can_delegate
        /\ p.depth < p.max_depth
        /\ s.asked_at + s.ttl <= p.exp
    BY <1>1 DEF CoreInv, SigningSound
  <2>2. /\ s.asked_at \in Nat /\ s.ttl \in Nat /\ now \in Nat
        /\ p.exp \in Nat /\ p.depth \in Nat /\ p.max_depth \in Nat
    <3>1. p \in Token
      BY <1>1, <1>2, TokensTyped
    <3>2. p.exp \in Nat /\ p.depth \in Nat /\ p.max_depth \in Nat
      BY <3>1 DEF Token
    <3>3. s.asked_at \in Nat /\ s.ttl \in Nat
      BY <1>1 DEF TypeOK
    <3>4. now \in Nat
      BY <1>1, CoreAssumption DEF TypeOK
    <3> QED
      BY <3>2, <3>3, <3>4
  <2>3. /\ t.scope = s.scope /\ t.can_delegate = s.scope \cap p.can_delegate
        /\ t.depth = p.depth + 1 /\ t.max_depth = p.max_depth
        /\ t.chain = ExtendedChain(p)
        /\ t.exp = now + s.ttl /\ t.iat = now /\ t.asked_at = s.asked_at
    BY DEF ChildToken
  <2> HIDE DEF s, p, t
  <2> QED
    BY <2>1, <2>2, <2>3 DEF ChildOf, ExtendedChain
<1>6. /\ t.sub = n /\ t.max_depth = p.max_depth
      /\ t.can_delegate \subseteq p.can_delegate
  BY DEF ChildToken
<1> QED
  BY <1>2, <1>3, <1>4, <1>5, <1>6

\* A token that is signed owes its parent what the delegation under way owed it.
LEMMA ChildrenStay == CoreInv /\ [Next]_vars => ChildrenSound'
<1> SUFFICES ASSUME CoreInv, [Next]_vars PROVE ChildrenSound'
  OBVIOUS
<1>1. CASE UNCHANGED issued
  BY <1>1 DEF CoreInv, ChildrenSound, Jtis, ChildOf
<1>2. ASSUME NEW c \in RootClaims, issueToken(c) PROVE ChildrenSound'
  <2> PICK n \in Nat : n = Len(issued) + 1
    BY TokensTyped DEF CoreInv
  <2>1. /\ Jtis' = Jtis \cup {n} /\ issued'[n].parent = 0
        /\ \A j \in Jtis : issued'[j] = issued[j]
    <3>1. RootToken(c) \in Token /\ RootToken(c).parent = 0
          /\ RootToken(c).parent <= Len(issued)
      BY RootTyped, TokensTyped DEF CoreInv
    <3> QED
      BY <1>2, <3>1, Appended DEF issueToken, CoreInv
  <2>2. \A j \in Jtis : issued[j].parent # 0 => issued[j].parent \in Jtis
    BY ParentsIn DEF CoreInv
  <2> QED
    BY <2>1, <2>2 DEF CoreInv, ChildrenSound
<1>3. ASSUME NEW r \in Requests, IssueChild(r) PROVE ChildrenSound'
  <2> PICK n \in Nat : n = Len(issued) + 1
    BY TokensTyped DEF CoreInv
  <2>1. /\ Jtis' = Jtis \cup {n}
        /\ \A j \in Jtis : issued'[j] = issued[j]
        /\ signing[r].parent \in Jtis /\ issued'[n].parent = signing[r].parent
        /\ ChildOf(issued'[n], issued[signing[r].parent])
    BY <1>3, ChildAdded
  <2>2. issued'[n].sub = n
    BY <1>3, ChildAdded
  <2>3. \A j \in Jtis : issued[j].parent # 0 => issued[j].parent \in Jtis
    BY ParentsIn DEF CoreInv
  <2> QED
    BY <2>1, <2>2, <2>3 DEF CoreInv, ChildrenSound
<1> QED
  BY <1>1, <1>2, <1>3 DEF Next, vars, delegateToken, revokeWithCascade, cleanup,
                          Tick

\* A token that is signed has a chain of subjects older than its own.
LEMMA SubsStay == CoreInv /\ [Next]_vars => SubsOlder'
<1> SUFFICES ASSUME CoreInv, [Next]_vars PROVE SubsOlder'
  OBVIOUS
<1> DEFINE Older(t, j) == /\ t.sub \in RootSubs \cup 1..j
                          /\ \A i \in DOMAIN t.chain :
                                t.chain[i] \in RootSubs \cup 1..(j - 1)
<1>1. \A j \in Jtis : Older(issued[j], j)
  BY DEF CoreInv, SubsOlder
<1>2. CASE UNCHANGED issued
  BY <1>2 DEF CoreInv, SubsOlder, Jtis
<1>3. ASSUME NEW n \in Nat, Jtis' = Jtis \cup {n}, Older(issued'[n], n),
             \A j \in Jtis : issued'[j] = issued[j]
      PROVE  SubsOlder'
  BY <1>1, <1>3 DEF SubsOlder
<1>4. ASSUME NEW c \in RootClaims, issueToken(c) PROVE SubsOlder'
  <2> PICK n \in Nat : n = Len(issued) + 1
    BY TokensTyped DEF CoreInv
  <2>1. RootToken(c) \in Token /\ RootToken(c).parent <= Len(issued)
    BY RootTyped, TokensTyped DEF CoreInv
  <2>2. /\ Jtis' = Jtis \cup {n} /\ issued'[n] = RootToken(c)
        /\ \A j \in Jtis : issued'[j] = issued[j]
    BY <1>4, <2>1, Appended DEF issueToken, CoreInv
  <2>3. c.sub \in RootSubs /\ \A i \in DOMAIN c.chain : c.chain[i] \in RootSubs
    BY CoreAssumption DEF Claims
  <2>4. Older(RootToken(c), n)
    BY <2>3 DEF RootToken
  <2> QED
    BY <1>3, <2>2, <2>4
<1>5. ASSUME NEW r \in Requests, IssueChild(r) PROVE SubsOlder'
  <2> PICK n \in Nat : n = Len(issued) + 1
    BY TokensTyped DEF CoreInv
  <2> PICK m : m = signing[r].parent
    OBVIOUS
  <2>1. /\ Jtis' = Jtis \cup {n} /\ issued'[n].sub = n
        /\ \A j \in Jtis : issued'[j] = issued[j] /\ j < n
        /\ m \in Jtis /\ issued'[n].chain = Append(issued[m].chain, issued[m].sub)
    BY <1>5, ChildAdded DEF ChildOf
  <2>2. m \in Nat /\ m < n /\ n - 1 \in Nat /\ m <= n - 1
    <3>1. Jtis = 1..Len(issued) /\ Len(issued) \in Nat
      BY TokensTyped DEF CoreInv
    <3>2. m \in Jtis /\ m < n
      BY <2>1
    <3>3. m \in Nat
      BY <3>1, <3>2
    <3> QED
      BY <3>2, <3>3
  <2>3. issued[m].chain \in Seq(RootSubs \cup Nat) /\ issued[m].sub \in RootSubs \cup Nat
    BY <2>1, TokensTyped DEF CoreInv, Token
  <2>4. /\ issued[m].sub \in RootSubs \cup 1..(n - 1)
        /\ \A i \in DOMAIN issued[m].chain :
              issued[m].chain[i] \in RootSubs \cup 1..(n - 1)
    <3>1. 1..m \subseteq 1..(n - 1) /\ 1..(m - 1) \subseteq 1..(n - 1)
      BY <2>2
    <3>2. /\ issued[m].sub \in RootSubs \cup 1..m
          /\ \A i \in DOMAIN issued[m].chain :
                issued[m].chain[i] \in RootSubs \cup 1..(m - 1)
      BY <1>1, <2>1
    <3> QED
      BY <3>1, <3>2
  <2>5. \A i \in DOMAIN issued'[n].chain :
            issued'[n].chain[i] \in RootSubs \cup 1..(n - 1)
    <3> DEFINE chain == issued[m].chain
               sub == issued[m].sub
    <3>1. issued'[n].chain = Append(chain, sub)
      BY <2>1
    <3>2. /\ sub \in RootSubs \cup 1..(n - 1)
          /\ \A i \in DOMAIN chain : chain[i] \in RootSubs \cup 1..(n - 1)
      BY <2>4
    <3>3. chain \in Seq(RootSubs \cup Nat)
      BY <2>3
    <3> HIDE DEF chain, sub
    <3>4. \A i \in DOMAIN Append(chain, sub) :
             \/ i \in DOMAIN chain /\ Append(chain, sub)[i] = chain[i]
             \/ Append(chain, sub)[i] = sub
      BY <3>3
    <3> QED
      BY <3>1, <3>2, <3>4
  <2>6. Older(issued'[n], n) /\ n \in 1..n
    <3>1. n \in 1..n
      BY <2>2
    <3> QED
      BY <2>1, <2>5, <3>1
  <2> HIDE DEF Older
  <2> QED
    BY <1>3, <2>1, <2>6
<1> QED
  BY <1>2, <1>4, <1>5 DEF Next, vars, delegateToken, revokeWithCascade, cleanup,
                          Tick

-----------------------------------------------------------------------------
(* Delegations under way, and the revocation store *)

\* A delegation that starts takes from its parent no more than the parent has.
LEMMA SigningStays == CoreInv /\ [Next]_vars => SigningSound'
<1> SUFFICES ASSUME CoreInv, [Next]_vars PROVE SigningSound'
  OBVIOUS
<1> DEFINE Sound(s, p) == /\ s.scope \subseteq p.scope \cap p.can_delegate
                          /\ p.depth < p.max_depth
                          /\ s.asked_at + s.ttl <= p.exp
<1>1. \A r \in Requests : signing[r] # Idle =>
          signing[r].parent \in Jtis /\ Sound(signing[r], issued[signing[r].parent])
  BY DEF CoreInv, TypeOK, SigningSound
<1>2. \A j \in Jtis : issued'[j] = issued[j]
  BY Growth DEF CoreInv
<1>3. ASSUME NEW r \in Requests, signing'[r] # Idle
      PROVE  \/ signing'[r] = signing[r]
             \/ /\ signing'[r].parent \in Jtis
                /\ Sound(signing'[r], issued[signing'[r].parent])
  <2>1. ASSUME NEW j \in Jtis, NEW q \in Delegations, delegateToken(r, j, q)
        PROVE  /\ signing'[r].parent \in Jtis
               /\ Sound(signing'[r], issued[signing'[r].parent])
    <3>1. signing'[r] = [parent |-> j, scope |-> Granted(issued[j], q),
                         ttl |-> ChildTtl(issued[j], q), asked_at |-> now]
      BY <2>1 DEF delegateToken, CoreInv, TypeOK
    <3>2. Granted(issued[j], q) \subseteq issued[j].scope \cap issued[j].can_delegate
      BY DEF Granted, intersectScopes
    <3>3. issued[j].depth < issued[j].max_depth
      BY <2>1 DEF delegateToken, DelegationAccepted
    <3>4. now + ChildTtl(issued[j], q) <= issued[j].exp
      <4>1. issued[j].exp \in Nat /\ q.ttl \in Nat
        BY TokensTyped, CoreAssumption DEF CoreInv, Token, DelegationRequest
      <4>2. now \in Nat
        BY CoreAssumption DEF CoreInv, TypeOK
      <4> QED
        BY <4>1, <4>2 DEF ChildTtl, Min2
    <3> QED
      BY <3>1, <3>2, <3>3, <3>4
  <2>2. ASSUME NEW i \in Requests, i # r, NEW j \in Jtis, NEW q \in Delegations,
               delegateToken(i, j, q)
        PROVE  signing'[r] = signing[r]
    BY <2>2 DEF delegateToken, CoreInv, TypeOK
  <2>3. ASSUME NEW i \in Requests, IssueChild(i)
        PROVE  signing'[r] = signing[r]
    BY <1>3, <2>3 DEF IssueChild, CoreInv, TypeOK
  <2>4. \/ UNCHANGED signing
        \/ \E i \in Requests, j \in Jtis, q \in Delegations : delegateToken(i, j, q)
        \/ \E i \in Requests : IssueChild(i)
    BY DEF Next, vars, issueToken, revokeWithCascade, cleanup, Tick
  <2> HIDE DEF Sound
  <2> QED
    BY <2>1, <2>2, <2>3, <2>4
<1>4. ASSUME NEW r \in Requests, signing'[r] # Idle
      PROVE  /\ signing'[r].parent \in Jtis
             /\ Sound(signing'[r], issued[signing'[r].parent])
  <2> HIDE DEF Sound
  <2> QED
    BY <1>1, <1>3, <1>4
<1> QED
  BY <1>2, <1>4 DEF SigningSound

\* The cascade enters each descendant; cleanup forgets only what has expired.
LEMMA RevokedStay == CoreInv /\ [Next]_vars => RevokedSound'
<1> SUFFICES ASSUME CoreInv, [Next]_vars, NEW k \in revoked', ~Overlong(k)',
                    NotExpired(issued[k])'
             PROVE  isRevoked(k)' /\ issued'[k].exp <= entries'[k]
  BY DEF RevokedSound
<1>1. TypeOK /\ revoked \subseteq Jtis
  BY DEF CoreInv, TypeOK
<1>2. k \in Jtis /\ issued'[k] = issued[k]
  <2>1. k \in Jtis
    BY <1>1 DEF Next, vars, issueToken, delegateToken, IssueChild, Line,
                revokeWithCascade, cleanup, Tick
  <2> QED
    BY <1>1, <2>1, Growth
<1>3. ~Overlong(k)
  BY <1>1, <1>2, LongStayLong
<1>4. issued[k].exp \in Nat /\ now \in Nat /\ now <= now'
  <2>1. issued[k].exp \in Nat
    BY <1>1, <1>2, TokensTyped DEF Token
  <2>2. now \in Nat
    BY <1>1, CoreAssumption DEF TypeOK
  <2>3. now' = now \/ now' = now + 1
    BY DEF Next, vars, issueToken, delegateToken, IssueChild, revokeWithCascade,
           cleanup, Tick
  <2> QED
    BY <2>1, <2>2, <2>3
<1>5. now < issued[k].exp
  <2>1. now' \in Nat /\ now' < issued[k].exp
    <3>1. now' = now \/ now' = now + 1
      BY DEF Next, vars, issueToken, delegateToken, IssueChild, revokeWithCascade,
             cleanup, Tick
    <3> QED
      BY <1>2, <1>4, <3>1 DEF NotExpired
  <2> QED
    BY <1>4, <2>1
<1>6. ASSUME k \in revoked
      PROVE  isRevoked(k) /\ issued[k].exp <= entries[k] /\ entries[k] \in Nat
  BY <1>1, <1>3, <1>5, <1>6 DEF CoreInv, RevokedSound, NotExpired, isRevoked, TypeOK
<1>7. CASE UNCHANGED <<entries, revoked>>
  BY <1>2, <1>6, <1>7 DEF isRevoked
<1>8. ASSUME NEW j \in Jtis, NEW S \in SUBSET Line(j), revokeWithCascade(j, S)
      PROVE  isRevoked(k)' /\ issued'[k].exp <= entries'[k]
  <2>1. CASE k \in {j} \cup S
    <3>1. entries'[k] = issued[j].exp /\ k \in DOMAIN entries'
      BY <1>8, <2>1 DEF revokeWithCascade, KeptUntil
    <3>2. issued[j].exp \in Nat
      BY <1>1, TokensTyped DEF Token
    <3>3. k \in Line(j)
      BY <1>2, <2>1 DEF Line
    <3>4. issued[k].exp <= issued[j].exp
      BY <1>3, <1>4, <3>2, <3>3 DEF Overlong
    <3> QED
      BY <1>2, <3>1, <3>4 DEF isRevoked
  <2>2. CASE k \notin {j} \cup S
    BY <1>2, <1>6, <1>8, <2>2 DEF revokeWithCascade, isRevoked
  <2> QED
    BY <2>1, <2>2
<1>9. CASE cleanup
  <2>1. isRevoked(k) /\ issued[k].exp <= entries[k] /\ entries[k] \in Nat
    BY <1>6, <1>9 DEF cleanup
  <2>2. entries[k] > now
    BY <1>4, <1>5, <2>1
  <2> QED
    BY <1>2, <1>9, <2>1, <2>2 DEF cleanup, isRevoked
<1> QED
  BY <1>7, <1>8, <1>9 DEF Next, vars, issueToken, delegateToken, IssueChild, Tick

-----------------------------------------------------------------------------
(* Theorems *)

\* At the start nothing is issued, signed or revoked.
LEMMA CoreInit == Init => CoreInv
<1> SUFFICES ASSUME Init PROVE CoreInv
  OBVIOUS
<1>1. /\ issued = <<>> /\ Jtis = {} /\ entries = [j \in {} |-> 0]
      /\ DOMAIN entries = {} /\ revoked = {} /\ now = 0
      /\ signing = [r \in Requests |-> Idle]
  BY DEF Init, Jtis
<1>2. TypeOK
  BY <1>1, CoreAssumption DEF TypeOK
<1> QED
  BY <1>1, <1>2 DEF CoreInv, SigningSound, ChildrenSound, SubsOlder, RevokedSound

\* Whatever is issued, delegated, revoked and cleaned up, and however slowly,
\* the list of tokens, the delegations under way and the store stay sound.
THEOREM CoreInvariant == Spec => []CoreInv
<1>1. Init => CoreInv
  BY CoreInit
<1>2. CoreInv /\ [Next]_vars => CoreInv'
  BY TypesStay, SigningStays, ChildrenStay, SubsStay, RevokedStay DEF CoreInv
<1> QED
  BY <1>1, <1>2, PTL DEF Spec

\* Every variable keeps its type.
THEOREM TypeCorrect == Spec => []TypeOK
<1>1. CoreInv => TypeOK
  BY DEF CoreInv
<1> QED
  BY <1>1, CoreInvariant, PTL

\* A line of tokens only narrows, by whatever wildcards its scopes are written:
\* what isActionAllowed says of a descendant it says of the ancestor.
THEOREM LinesNarrow == Spec => []ToolsNarrow
<1>1. CoreInv => ToolsNarrow
  <2> SUFFICES ASSUME CoreInv, NEW j \in Jtis, NEW k \in Line(j), NEW tool \in Tool,
                      isActionAllowed(issued[k], tool)
               PROVE  isActionAllowed(issued[j], tool)
    BY DEF ToolsNarrow
  <2> DEFINE S == {i \in Jtis : isActionAllowed(issued[i], tool)
                                    => isActionAllowed(issued[j], tool)}
  <2>1. j \in S /\ S \in SUBSET Jtis
    OBVIOUS
  <2>2. ASSUME NEW i \in Children(S) PROVE i \in S
    <3>1. i \in Jtis /\ issued[i].parent \in S
      BY <2>2 DEF Children
    <3>2. issued[i].parent # 0
      <4>1. Jtis = 1..Len(issued)
        BY TokensTyped DEF CoreInv
      <4> QED
        BY <3>1, <4>1
    <3>3. issued[i].scope \subseteq issued[issued[i].parent].scope
      BY <3>1, <3>2 DEF CoreInv, ChildrenSound, ChildOf
    <3> QED
      BY <3>1, <3>3 DEF isActionAllowed
  <2>3. k \in S
    <3> HIDE DEF S
    <3> QED
      BY <2>1, <2>2 DEF Line
  <2> QED
    BY <2>3
<1> QED
  BY <1>1, CoreInvariant, PTL

\* validateDelegationChain accepts what delegateToken makes of a parent whose
\* depth fits its chain.
THEOREM ChildrenValid == Spec => []DelegatedTokensValid
<1>1. CoreInv => DelegatedTokensValid
  <2> SUFFICES ASSUME CoreInv, NEW j \in Jtis, issued[j].parent # 0,
                      issued[issued[j].parent].depth
                          = Len(issued[issued[j].parent].chain)
               PROVE  ChainValid(issued[j])
    BY DEF DelegatedTokensValid
  <2> DEFINE t == issued[j]
             p == issued[t.parent]
  <2>1. ChildOf(t, p) /\ t.sub = j
    BY DEF CoreInv, ChildrenSound
  <2>2. p.chain \in Seq(RootSubs \cup Nat)
    <3>1. t.parent \in Jtis
      BY ParentsIn DEF CoreInv
    <3> QED
      BY <3>1, TokensTyped DEF CoreInv, Token
  <2>3. t.depth = Len(t.chain)
    <3>1. p.depth = Len(p.chain)
      OBVIOUS
    <3> HIDE DEF t, p
    <3>2. t.depth = p.depth + 1 /\ t.chain = Append(p.chain, p.sub)
      BY <2>1 DEF ChildOf
    <3>3. Len(Append(p.chain, p.sub)) = Len(p.chain) + 1
      BY <2>2
    <3> QED
      BY <3>1, <3>2, <3>3
  <2>4. \A i \in DOMAIN t.chain : t.chain[i] # t.sub
    <3>1. \A i \in DOMAIN t.chain : t.chain[i] \in RootSubs \cup 1..(j - 1)
      BY DEF CoreInv, SubsOlder
    <3>2. j \in Nat /\ j \notin RootSubs
      <4>1. Len(issued) \in Nat /\ Jtis = 1..Len(issued)
        BY TokensTyped DEF CoreInv
      <4> QED
        BY <4>1, CoreAssumption
    <3> QED
      BY <2>1, <3>1, <3>2
  <2> QED
    BY <2>1, <2>3, <2>4 DEF ChainValid, ChildOf
<1> QED
  BY <1>1, CoreInvariant, PTL

\* A child outlives its parent at most by the time between the readings of the
\* clock in delegateToken and in issueToken.
THEOREM LifetimesCapped == Spec => []LifetimeCapped
<1>1. CoreInv => LifetimeCapped
  BY DEF CoreInv, ChildrenSound, ChildOf, LifetimeCapped
<1> QED
  BY <1>1, CoreInvariant, PTL

\* cleanup forgets no revoked token that has not expired, unless the token
\* outlives one that it descends from.
THEOREM RevocationsKept == Spec => []RevokedNotForgotten
<1>1. CoreInv => RevokedNotForgotten
  BY DEF CoreInv, RevokedSound, RevokedNotForgotten
<1> QED
  BY <1>1, CoreInvariant, PTL

\* Tools and lifetimes together: no child is a wider grant than any token it
\* descends from, or, but for the time between the readings of the clock, a
\* longer one than the token it was made from.
THEOREM GrantsNarrow == Spec => []ChildrenBounded
<1>1. ToolsNarrow /\ LifetimeCapped => ChildrenBounded
  BY DEF ChildrenBounded
<1> QED
  BY <1>1, LinesNarrow, LifetimesCapped, PTL

\* canDelegate promises what delegateToken grants: of any token and any scopes, that
\* the depth limit allows a child and that intersectScopes denies none of them.
THEOREM PromisesAreKept == Spec => []CanDelegateAgrees
<1>1. CanDelegateAgrees
  <2> SUFFICES ASSUME NEW j \in Jtis, NEW scope \in (SUBSET Scope) \ {{}}
               PROVE  canDelegate(issued[j], scope) <=>
                         /\ issued[j].depth < issued[j].max_depth
                         /\ intersectScopes(issued[j].scope, scope, issued[j].can_delegate)
                               = scope
    BY DEF CanDelegateAgrees
  <2>1. (scope \subseteq issued[j].scope /\ scope \subseteq issued[j].can_delegate)
           <=> scope \cap issued[j].scope \cap issued[j].can_delegate = scope
    OBVIOUS
  <2> QED
    BY <2>1 DEF canDelegate, intersectScopes
<1> QED
  BY <1>1, PTL

\* Three places that decide of a delegation decide alike.
THEOREM DecisionsAreOne == Spec => []DecisionsAgree
<1>1. CanDelegateAgrees /\ DelegatedTokensValid => DecisionsAgree
  BY DEF DecisionsAgree
<1> QED
  BY <1>1, PromisesAreKept, ChildrenValid, PTL

-----------------------------------------------------------------------------
(* The abstract specification *)

\* A token is a grant, and one that is made from another, as ChildOf has it, is
\* narrower than that.
LEMMA TokenGrants ==
  ASSUME NEW t \in Token, t.asked_at <= t.iat, t.parent \in 0..MaxTokens
  PROVE  /\ GrantOf(t) \in Delegation!Grant
         /\ \A p \in Token :
               (/\ ChildOf(t, p)
                /\ t.max_depth = p.max_depth
                /\ t.can_delegate \subseteq p.can_delegate
                /\ t.scope \subseteq p.can_delegate)
               => Delegation!Narrower(GrantOf(t), GrantOf(p))
<1>1. /\ t.scope \subseteq Scope /\ t.can_delegate \subseteq Scope
      /\ t.depth \in Nat /\ t.max_depth \in Nat /\ t.exp \in Nat
      /\ t.iat \in Nat /\ t.asked_at \in Nat
  BY DEF Token
<1>2. t.iat - t.asked_at \in Nat /\ t.max_depth - t.depth \in Int /\ t.exp \in Int
  BY <1>1
<1>3. t.parent \in (1..MaxTokens) \cup {0}
  BY CoreAssumption
<1>4. GrantOf(t) \in Delegation!Grant
  BY <1>1, <1>2, <1>3 DEF GrantOf, Delegation!Grant
<1>5. ASSUME NEW p \in Token, ChildOf(t, p), t.max_depth = p.max_depth,
             t.can_delegate \subseteq p.can_delegate,
             t.scope \subseteq p.can_delegate
      PROVE  Delegation!Narrower(GrantOf(t), GrantOf(p))
  <2>1. p.depth \in Nat /\ p.max_depth \in Nat /\ p.exp \in Nat
    BY DEF Token
  <2>2. /\ t.depth = p.depth + 1 /\ t.depth <= t.max_depth
        /\ t.exp <= p.exp + (t.iat - t.asked_at)
    BY <1>5 DEF ChildOf
  <2>3. /\ t.max_depth - t.depth = (p.max_depth - p.depth) - 1
        /\ t.max_depth - t.depth >= 0
    BY <1>1, <1>5, <2>1, <2>2
  <2>4. t.scope \cup t.can_delegate \subseteq p.can_delegate
    BY <1>5
  <2> HIDE DEF Token, ChildOf
  <2> QED
    BY <2>2, <2>3, <2>4 DEF GrantOf, Delegation!Narrower
<1> QED
  BY <1>4, <1>5

\* A token that is added, of which what it was made from is known, is a new grant.
LEMMA AddedIsGranted ==
  ASSUME NEW n \in 1..MaxTokens, n \notin Jtis,
         Jtis' = Jtis \cup {n},
         \A j \in Jtis : issued'[j] = issued[j],
         \A j \in Jtis : GrantOf(issued[j]) \in Delegation!Grant,
         GrantOf(issued'[n]) \in Delegation!Grant,
         \/ issued'[n].parent = 0
         \/ /\ issued'[n].parent \in Jtis
            /\ Delegation!Narrower(GrantOf(issued'[n]),
                                   GrantOf(issued[issued'[n].parent]))
  PROVE  Delegation!Next
<1>1. /\ DOMAIN AllGrants = Jtis
      /\ \A j \in Jtis : AllGrants[j] = GrantOf(issued[j])
  BY DEF AllGrants
<1>2. AllGrants' = [j \in Jtis \cup {n} |-> GrantOf(issued'[j])]
  BY DEF AllGrants, GrantOf
<1>3. AllGrants' \in [Jtis \cup {n} -> Delegation!Grant]
  <2>1. \A j \in Jtis \cup {n} : GrantOf(issued'[j]) \in Delegation!Grant
    OBVIOUS
  <2> QED
    BY <1>2, <2>1
<1>4. /\ \A j \in Jtis : AllGrants'[j] = AllGrants[j]
      /\ AllGrants'[n] = GrantOf(issued'[n])
  BY <1>1, <1>2
<1>5. GrantOf(issued'[n]).from = issued'[n].parent
  BY DEF GrantOf
<1>6. Delegation!Justified(GrantOf(issued'[n]))
  BY <1>1, <1>5 DEF Delegation!Justified
<1>7. Delegation!Granting(n)
  BY <1>1, <1>3, <1>4, <1>6 DEF Delegation!Granting
<1> QED
  BY <1>7 DEF Delegation!Next


\* The list stays within its bound, and a token is dated after it was asked for.
DatesInOrder == /\ Len(issued) <= MaxTokens
                /\ \A j \in Jtis : issued[j].asked_at <= issued[j].iat

\* What a step adds to the list: nothing, a root, or a child.
LEMMA StepAdds ==
  ASSUME CoreInv, [Next]_vars, DatesInOrder
  PROVE  \/ UNCHANGED issued
         \/ \E n \in 1..MaxTokens :
               /\ n = Len(issued) + 1 /\ n \notin Jtis /\ Jtis' = Jtis \cup {n}
               /\ \A j \in Jtis : issued'[j] = issued[j]
               /\ Len(issued') = n
               /\ issued'[n] \in Token
               /\ issued'[n].asked_at <= issued'[n].iat
               /\ \/ issued'[n].parent = 0
                  \/ LET p == issued[issued'[n].parent]
                     IN  /\ issued'[n].parent \in Jtis
                         /\ ChildOf(issued'[n], p)
                         /\ issued'[n].max_depth = p.max_depth
                         /\ issued'[n].can_delegate \subseteq p.can_delegate
                         /\ issued'[n].scope \subseteq p.can_delegate
<1>1. TypeOK /\ Len(issued) \in Nat /\ now \in Nat /\ MaxTokens \in Nat
  BY TokensTyped, CoreAssumption DEF CoreInv, TypeOK
<1>2. DEFINE n == Len(issued) + 1
<1>3. ASSUME NEW c \in RootClaims, issueToken(c)
      PROVE  /\ n \in 1..MaxTokens /\ n \notin Jtis /\ Jtis' = Jtis \cup {n}
             /\ \A j \in Jtis : issued'[j] = issued[j]
             /\ Len(issued') = n
             /\ issued'[n] \in Token
             /\ issued'[n].asked_at <= issued'[n].iat
             /\ issued'[n].parent = 0
  <2>1. /\ Len(issued) < MaxTokens /\ issued' = Append(issued, RootToken(c))
        /\ RootToken(c) \in Token /\ RootToken(c).parent = 0
    BY <1>1, <1>3, RootTyped DEF issueToken
  <2>2. RootToken(c).asked_at = now /\ RootToken(c).iat = now
    BY DEF RootToken
  <2>3. RootToken(c).parent <= Len(issued)
    BY <1>1, <2>1
  <2>4. /\ n \notin Jtis /\ Jtis' = Jtis \cup {n}
        /\ \A j \in Jtis : issued'[j] = issued[j]
        /\ issued'[n] = RootToken(c)
    BY <1>1, <2>1, <2>3, Appended
  <2>5. Len(issued') = n /\ n \in 1..MaxTokens
    BY <1>1, <2>1 DEF TypeOK
  <2>6. RootToken(c).asked_at <= RootToken(c).iat
    BY <1>1, <2>2
  <2> HIDE DEF n
  <2> QED
    BY <2>1, <2>4, <2>5, <2>6, Zenon
<1>4. ASSUME NEW r \in Requests, IssueChild(r)
      PROVE  /\ n \in 1..MaxTokens /\ n \notin Jtis /\ Jtis' = Jtis \cup {n}
             /\ \A j \in Jtis : issued'[j] = issued[j]
             /\ Len(issued') = n
             /\ issued'[n] \in Token
             /\ issued'[n].asked_at <= issued'[n].iat
             /\ LET p == issued[issued'[n].parent]
                IN  /\ issued'[n].parent \in Jtis
                    /\ ChildOf(issued'[n], p)
                    /\ issued'[n].max_depth = p.max_depth
                    /\ issued'[n].can_delegate \subseteq p.can_delegate
                    /\ issued'[n].scope \subseteq p.can_delegate
  <2> DEFINE s == signing[r]
             t == ChildToken(s, n)
  <2>1. /\ s # Idle /\ Len(issued) < MaxTokens /\ issued' = Append(issued, t)
    BY <1>4 DEF IssueChild
  <2>2. n \in Nat /\ n \in 1..MaxTokens
    BY <1>1, <2>1
  <2>3. /\ t \in Token /\ t.parent = s.parent
        /\ s.parent \in Jtis /\ s.parent <= Len(issued)
    BY <1>1, <2>1, <2>2, ChildTyped
  <2>4. Len(issued') = n /\ issued'[n] = t
    <3> HIDE DEF t
    <3> QED BY <1>1, <2>1, <2>3 DEF TypeOK
  <2>5. /\ n \notin Jtis /\ Jtis' = Jtis \cup {n}
        /\ \A j \in Jtis : issued'[j] = issued[j]
        /\ issued'[n].max_depth = issued[s.parent].max_depth
        /\ issued'[n].can_delegate \subseteq issued[s.parent].can_delegate
        /\ ChildOf(issued'[n], issued[s.parent])
    BY <1>4, <2>2, ChildAdded
  <2>6. s.scope \subseteq issued[s.parent].can_delegate
    BY <2>1 DEF CoreInv, SigningSound
  <2>7. t.scope = s.scope /\ t.asked_at = s.asked_at /\ t.iat = now
    BY DEF ChildToken
  <2>8. s.asked_at <= now
    BY <1>1, <2>1 DEF TypeOK
  <2> HIDE DEF t, s, n
  <2> QED
    BY <2>2, <2>3, <2>4, <2>5, <2>6, <2>7, <2>8
<1>5. CASE UNCHANGED issued
  BY <1>5
<1>6. \/ UNCHANGED issued
      \/ \E c \in RootClaims : issueToken(c)
      \/ \E r \in Requests : IssueChild(r)
  BY DEF Next, vars, delegateToken, revokeWithCascade, cleanup, Tick
<1> HIDE DEF n
<1>7. n = Len(issued) + 1
  BY DEF n
<1> QED
  BY <1>3, <1>4, <1>5, <1>6, <1>7

\* Dates stay in order.
LEMMA DatesStay ==
  ASSUME CoreInv, [Next]_vars, DatesInOrder
  PROVE  DatesInOrder'
<1>1. CASE UNCHANGED issued
  BY <1>1 DEF DatesInOrder, Jtis
<1>2. CASE ~UNCHANGED issued
  BY <1>2, StepAdds DEF DatesInOrder
<1> QED
  BY <1>1, <1>2

\* A step of the library is a step of the abstract delegation, or none of it.
LEMMA CoreStepRefines ==
  ASSUME CoreInv, [Next]_vars, DatesInOrder
  PROVE  [Delegation!Next]_AllGrants
<1>1. CASE UNCHANGED issued
  BY <1>1 DEF AllGrants, Jtis, GrantOf
<1>2. CASE ~UNCHANGED issued
  <2>1. PICK n \in 1..MaxTokens :
            /\ n = Len(issued) + 1 /\ n \notin Jtis /\ Jtis' = Jtis \cup {n}
            /\ \A j \in Jtis : issued'[j] = issued[j]
            /\ issued'[n] \in Token
            /\ issued'[n].asked_at <= issued'[n].iat
            /\ \/ issued'[n].parent = 0
               \/ LET p == issued[issued'[n].parent]
                  IN  /\ issued'[n].parent \in Jtis
                      /\ ChildOf(issued'[n], p)
                      /\ issued'[n].max_depth = p.max_depth
                      /\ issued'[n].can_delegate \subseteq p.can_delegate
                      /\ issued'[n].scope \subseteq p.can_delegate
    BY <1>2, StepAdds
  <2>2. /\ \A j \in Jtis : /\ issued[j] \in Token
                            /\ issued[j].parent \in 0..MaxTokens
        /\ Jtis \subseteq 0..MaxTokens
    <3>1. /\ Jtis = 1..Len(issued) /\ Len(issued) \in Nat
          /\ Len(issued) <= MaxTokens /\ MaxTokens \in Nat
          /\ \A j \in Jtis : /\ issued[j] \in Token /\ issued[j].parent < j
                              /\ issued[j].parent \in Nat
      BY TokensTyped, CoreAssumption DEF CoreInv, DatesInOrder
    <3> QED
      BY <3>1
  <2>3. \A j \in Jtis : GrantOf(issued[j]) \in Delegation!Grant
    BY <2>2, TokenGrants DEF DatesInOrder
  <2>4. issued'[n].parent \in 0..MaxTokens
    <3>1. 0 \in 0..MaxTokens
      BY CoreAssumption
    <3>2. issued'[n].parent = 0 \/ issued'[n].parent \in Jtis
      BY <2>1
    <3> QED
      BY <2>2, <3>1, <3>2
  <2>5. /\ GrantOf(issued'[n]) \in Delegation!Grant
        /\ \/ issued'[n].parent = 0
           \/ /\ issued'[n].parent \in Jtis
              /\ Delegation!Narrower(GrantOf(issued'[n]),
                                     GrantOf(issued[issued'[n].parent]))
    BY <2>1, <2>2, <2>4, TokenGrants
  <2> QED
    BY <2>1, <2>3, <2>5, AddedIsGranted
<1> QED
  BY <1>1, <1>2

\* The library, of any number of tokens, requests and roots, with any delay between
\* its two readings of the clock, does nothing but delegate what may be passed on.
THEOREM CoreImplementsDelegation == Spec => ImplementsDelegation
<1>1. Init => Delegation!Init /\ DatesInOrder
  <2> SUFFICES ASSUME Init
               PROVE  Delegation!Init /\ DatesInOrder
    OBVIOUS
  <2>1. issued = <<>> /\ Jtis = {} /\ Len(issued) = 0
    BY DEF Init, Jtis
  <2>2. AllGrants \in [{} -> Delegation!Grant]
    BY <2>1 DEF AllGrants
  <2> QED
    BY <2>1, <2>2, CoreAssumption DEF Delegation!Init, DatesInOrder
<1>2. CoreInv /\ DatesInOrder /\ [Next]_vars
         => DatesInOrder' /\ [Delegation!Next]_AllGrants
  BY DatesStay, CoreStepRefines
<1> QED
  BY <1>1, <1>2, CoreInvariant, PTL DEF Spec, ImplementsDelegation, Delegation!Spec

=============================================================================
