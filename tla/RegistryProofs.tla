--------------------------- MODULE RegistryProofs ---------------------------
(***************************************************************************)
(* Proofs about the registry, for every set of agents, humans, scopes and  *)
(* concurrent requests, every set of request bodies and every bound.       *)
(*                                                                         *)
(* The steps of Next have four shapes on the table: nothing, one row       *)
(* inserted, one token_jti replaced, a set of rows ended.  IInv is proved  *)
(* to be preserved by each shape, crash or no crash, and the actions are   *)
(* then shown to have one of the shapes.  What the registry answers about  *)
(* the tree of agents, and the reports on silent ones, come after that.    *)
(***************************************************************************)
EXTENDS Lifecycle, FiniteSetTheorems, SequenceTheorems, WellFoundedInduction, TLAPS

-----------------------------------------------------------------------------
(* Subtree is the least set that holds the roots and is closed under        *)
(* parent_id.                                                               *)

\* The roots that are in the table belong to their subtree.
LEMMA SubtreeHasRoots ==
    ASSUME NEW table, NEW roots, roots \subseteq DOMAIN table
    PROVE  roots \subseteq Subtree(table, roots)
  BY DEF Subtree

\* A child of a member of a subtree is a member.
LEMMA SubtreeClosed ==
    ASSUME NEW table, NEW roots
    PROVE  Children(table, Subtree(table, roots)) \subseteq Subtree(table, roots)
<1> SUFFICES ASSUME NEW b \in DOMAIN table,
                    table[b].parent_id \in Subtree(table, roots),
                    NEW S \in SUBSET DOMAIN table,
                    roots \subseteq S, Children(table, S) \subseteq S
             PROVE  b \in S
  BY DEF Subtree, Children
<1>1. table[b].parent_id \in S
  BY DEF Subtree
<1>2. b \in Children(table, S)
  BY <1>1 DEF Children
<1> QED BY <1>2

\* Every closed set that holds the roots holds the subtree.
LEMMA SubtreeLeast ==
    ASSUME NEW table, NEW roots, NEW S,
           S \subseteq DOMAIN table, roots \subseteq S,
           \A b \in DOMAIN table : table[b].parent_id \in S => b \in S
    PROVE  Subtree(table, roots) \subseteq S
<1>1. Children(table, S) \subseteq S
  BY DEF Children
<1> QED BY <1>1 DEF Subtree

\* A subtree lies in the table, and holds the subtrees of its members.
LEMMA SubtreeNested ==
    ASSUME NEW table, NEW roots, NEW x \in Subtree(table, roots)
    PROVE  /\ Subtree(table, roots) \subseteq DOMAIN table
           /\ Subtree(table, {x}) \subseteq Subtree(table, roots)
<1>1. Subtree(table, roots) \subseteq DOMAIN table
  BY DEF Subtree
<1>2. \A b \in DOMAIN table : table[b].parent_id \in Subtree(table, roots)
                                => b \in Subtree(table, roots)
  BY SubtreeClosed DEF Children
<1>3. {x} \subseteq Subtree(table, roots)
  OBVIOUS
<1>4. Subtree(table, {x}) \subseteq Subtree(table, roots)
  BY <1>1, <1>2, <1>3, SubtreeLeast
<1> QED BY <1>1, <1>4

-----------------------------------------------------------------------------
(* The shapes a step gives the table *)

\* Some of the suspended requests are over, none began.
PendingShrinks == /\ pending' \in [Requests -> PendingRequest]
                  /\ \A s \in Requests : pending'[s] \in {pending[s], Idle}

Inserts(r) ==
    /\ Inserting(r)
    /\ agents' = InsertedBy(r)
    /\ tokens' \in {tokens, tokens \cup {NewToken(r)}}
    /\ PendingShrinks
    /\ pending'[r] = Idle
    /\ nextJti' = nextJti /\ now' = now
    /\ audit' \subseteq AuditEntry

Rotates(r) ==
    /\ pending[r].phase = "rotating"
    /\ agents' = RotatedBy(r)
    /\ tokens' \in {tokens, tokens \cup {NewToken(r)}}
    /\ PendingShrinks
    /\ pending'[r] = Idle
    /\ nextJti' = nextJti /\ now' = now
    /\ audit' \subseteq AuditEntry

EndedRow(row, new) ==
    \/ new = row
    \/ new = RevokedRow(row)
    \/ new = DeprovisionedRow(row)
    \/ new = ExpiredRow(row) /\ row.status = "active" /\ row.expires_at <= now

Ends ==
    /\ agents' \in [Ids -> Row]
    /\ \A a \in Ids : EndedRow(agents[a], agents'[a])
    /\ tokens' = tokens
    /\ PendingShrinks
    /\ nextJti' = nextJti /\ now' = now
    /\ audit' \subseteq AuditEntry

\* A row and the fields that its status does not touch.
LEMMA EndedRowKeeps ==
    ASSUME NEW row \in Row, NEW new, EndedRow(row, new), now \in Nat
    PROVE  /\ new \in Row
           /\ new.human = row.human /\ new.risk = row.risk
           /\ new.scope = row.scope /\ new.can_delegate = row.can_delegate
           /\ new.parent_id = row.parent_id
           /\ new.depth = row.depth /\ new.max_depth = row.max_depth
           /\ new.token_jti = row.token_jti
           /\ new.created_at = row.created_at
           /\ new.expires_at = row.expires_at
           /\ \/ new.revoked_at = row.revoked_at
              \/ new.revoked_at = now
<1>1. CASE new = row
  BY <1>1
<1>2. CASE new = RevokedRow(row)
  BY <1>2, RegistryAssumption DEF RevokedRow, Row, Statuses
<1>3. CASE new = DeprovisionedRow(row)
  <2>1. CASE row.revoked_at = Null
    BY <1>3, <2>1, RegistryAssumption DEF DeprovisionedRow, Row, Statuses
  <2>2. CASE row.revoked_at # Null
    BY <1>3, <2>2, RegistryAssumption DEF DeprovisionedRow, Row, Statuses
  <2> QED BY <2>1, <2>2
<1>4. CASE new = ExpiredRow(row)
  BY <1>4 DEF ExpiredRow, Row, Statuses
<1> QED BY <1>1, <1>2, <1>3, <1>4 DEF EndedRow

\* How the status of an ended row and its date go together.
LEMMA EndedRowStatus ==
    ASSUME NEW row \in Row, NEW new, EndedRow(row, new), now \in Nat,
           row.revoked_at # Null <=> row.status \in Ended
    PROVE  /\ new.revoked_at # Null <=> new.status \in Ended
           /\ new.revoked_at = Null => row.revoked_at = Null
           /\ new.status = "expired" =>
                 row.status = "expired" \/ row.expires_at <= now
           /\ new.status = "active" => row.status = "active"
<1>1. CASE new = row
  BY <1>1
<1>2. CASE new = RevokedRow(row)
  BY <1>2, RegistryAssumption DEF RevokedRow, Row, Statuses, Ended
<1>3. CASE new = DeprovisionedRow(row)
  BY <1>3, RegistryAssumption DEF DeprovisionedRow, Row, Statuses, Ended
<1>4. CASE /\ new = ExpiredRow(row)
           /\ row.status = "active" /\ row.expires_at <= now
  BY <1>4 DEF ExpiredRow, Row, Statuses, Ended
<1> QED BY <1>1, <1>2, <1>3, <1>4 DEF EndedRow, Ended

-----------------------------------------------------------------------------
(* IInv under the step that ends agents *)

\* A step that only ends agents (cascade, deprovisioning, expiry, crash) keeps
\* the inductive invariant.
LEMMA EndsPreserves ==
    ASSUME IInv, Ends
    PROVE  IInv'
<1> USE DEF IInv, TypeOK, Ends
<1>1. /\ Ids' = Ids
      /\ now \in Nat
      /\ \A a \in Ids : agents[a] \in Row /\ agents'[a] \in Row
  BY RegistryAssumption DEF Ids
<1>2. \A a \in Ids :
         /\ agents'[a].human = agents[a].human
         /\ agents'[a].risk = agents[a].risk
         /\ agents'[a].scope = agents[a].scope
         /\ agents'[a].can_delegate = agents[a].can_delegate
         /\ agents'[a].parent_id = agents[a].parent_id
         /\ agents'[a].depth = agents[a].depth
         /\ agents'[a].max_depth = agents[a].max_depth
         /\ agents'[a].token_jti = agents[a].token_jti
         /\ agents'[a].created_at = agents[a].created_at
         /\ agents'[a].expires_at = agents[a].expires_at
         /\ \/ agents'[a].revoked_at = agents[a].revoked_at
            \/ agents'[a].revoked_at = now
  BY <1>1, EndedRowKeeps
<1>3. \A a \in Ids :
         /\ agents'[a].revoked_at # Null <=> agents'[a].status \in Ended
         /\ agents'[a].status = "expired" =>
               agents[a].status = "expired" \/ agents[a].expires_at <= now
  BY <1>1, EndedRowStatus DEF RevokedAtDatesEnd
<1>4. \A r \in Requests : pending'[r] = pending[r] \/ pending'[r] = Idle
  BY DEF PendingShrinks
<1>5. \A r \in Requests :
         /\ Inserting(r)' => Inserting(r) /\ pending'[r] = pending[r]
         /\ pending'[r].phase = "rotating" => pending'[r] = pending[r]
         /\ Busy(r)' => /\ Busy(r) /\ pending'[r] = pending[r]
                        /\ PendingJti(r)' = PendingJti(r)
  BY <1>4 DEF Inserting, Busy, Idle, PendingJti
<1>6. TypeOK'
  BY <1>1 DEF PendingShrinks
<1>7. DatesPast'
  BY <1>1, <1>2, RegistryAssumption DEF DatesPast, Row
<1>8. PendingSound'
  BY <1>1, <1>2, <1>5 DEF PendingSound
<1>9. JtisUnique'
  BY <1>1, <1>2, <1>5 DEF JtisUnique, HoldsToken
<1>10. DelegationNarrows'
  <2>1. ASSUME NEW a \in Ids
        PROVE  NarrowsParent(agents[a])'
    BY <1>1, <1>2 DEF DelegationNarrows, AllRows, NarrowsParent
  <2>2. ASSUME NEW r \in Requests, Inserting(r)'
        PROVE  NarrowsParent(pending[r].row)'
    BY <1>1, <1>2, <1>5, <2>2
       DEF DelegationNarrows, AllRows, RowsToCome, NarrowsParent
  <2> QED BY <1>1, <2>1, <2>2 DEF DelegationNarrows, AllRows, RowsToCome
<1>11. NoDelegationAfterEnd'
  <2>1. ASSUME NEW row, NEW old \in AllRows, NEW p \in Ids,
               row.created_at = old.created_at, old.created_at <= now,
               old.parent_id = p, agents'[p].revoked_at # Null
        PROVE  row.created_at <= agents'[p].revoked_at
    <3>1. CASE agents'[p].revoked_at = now
      BY <3>1, <2>1
    <3>2. CASE agents'[p].revoked_at = agents[p].revoked_at
      BY <3>2, <2>1 DEF NoDelegationAfterEnd
    <3> QED BY <1>2, <3>1, <3>2
  <2>2. ASSUME NEW a \in Ids, agents'[a].parent_id \in Ids,
               agents'[agents'[a].parent_id].revoked_at # Null
        PROVE  agents'[a].created_at
                 <= agents'[agents'[a].parent_id].revoked_at
    BY <1>2, <2>1, <2>2 DEF AllRows, DatesPast
  <2>3. ASSUME NEW r \in Requests, Inserting(r)',
               pending'[r].row.parent_id \in Ids,
               agents'[pending'[r].row.parent_id].revoked_at # Null
        PROVE  pending'[r].row.created_at
                 <= agents'[pending'[r].row.parent_id].revoked_at
    BY <1>5, <2>1, <2>3 DEF AllRows, RowsToCome, PendingSound
  <2> QED BY <1>1, <2>2, <2>3 DEF NoDelegationAfterEnd, AllRows, RowsToCome
<1>12. ExpiredIsPastDue'
  BY <1>1, <1>2, <1>3 DEF ExpiredIsPastDue
<1>13. RevokedAtDatesEnd'
  BY <1>1, <1>3 DEF RevokedAtDatesEnd
<1>14. TokensEndWithAgent'
  BY <1>1, <1>2 DEF TokensEndWithAgent
<1>15. DepthBounded'
  BY <1>1, <1>2, <1>5 DEF DepthBounded, AllRows, RowsToCome
<1> QED BY <1>6, <1>7, <1>8, <1>9, <1>10, <1>11, <1>12, <1>13, <1>14, <1>15

-----------------------------------------------------------------------------
(* IInv under the step that inserts a row *)

\* insertAgent after the await keeps the inductive invariant, whatever happened
\* to the parent in between.
LEMMA InsertsPreserves ==
    ASSUME IInv, NEW r \in Requests, Inserts(r)
    PROVE  IInv'
<1> DEFINE id == pending[r].id
           row == pending[r].row
<1> USE DEF IInv, TypeOK
<1>1. /\ pending[r] \in [phase: {"inserting"}, id: AgentIds, row: Row]
      /\ id \in AgentIds \ Ids /\ row \in Row /\ now \in Nat
  BY RegistryAssumption
     DEF Inserts, Inserting, PendingRequest, Idle, PendingSound
<1>2. /\ Ids' = Ids \cup {id}
      /\ agents'[id] = row
      /\ \A a \in Ids : agents'[a] = agents[a] /\ agents[a] \in Row
      /\ agents' \in [Ids' -> Row]
  BY <1>1 DEF Inserts, InsertedBy, Ids
<1>3. /\ now' = now /\ nextJti' = nextJti
      /\ NewToken(r) = [jti |-> row.token_jti, agent |-> id,
                        exp |-> row.expires_at]
      /\ \A t \in tokens' : t \in tokens \/ t = NewToken(r)
  BY DEF Inserts, NewToken
<1>4. \A s \in Requests : pending'[s] = pending[s] \/ pending'[s] = Idle
  BY DEF PendingShrinks, Inserts
<1>5. \A s \in Requests :
         /\ Inserting(s)' => Inserting(s) /\ pending'[s] = pending[s] /\ s # r
         /\ pending'[s].phase = "rotating" => pending'[s] = pending[s]
         /\ Busy(s)' => /\ Busy(s) /\ pending'[s] = pending[s] /\ s # r
                        /\ PendingJti(s)' = PendingJti(s)
  BY <1>4 DEF Inserting, Busy, Idle, PendingJti, Inserts
<1>6. /\ Busy(r) /\ PendingJti(r) = row.token_jti
      /\ row.status = "active" /\ row.revoked_at = Null
      /\ row.created_at <= now
  BY <1>1 DEF Inserts, Busy, Inserting, Idle, PendingJti, PendingSound
<1>7. row \in AllRows /\ \A a \in Ids : agents[a] \in AllRows
  BY DEF AllRows, RowsToCome, Inserts
<1>8. TypeOK'
  <2>1. tokens' \subseteq Token
    BY <1>1, <1>3 DEF Token, Row
  <2>2. pending' \in [Requests -> PendingRequest] /\ audit' \subseteq AuditEntry
    BY DEF Inserts, PendingShrinks
  <2> QED BY <1>1, <1>2, <1>3, <2>1, <2>2
<1>9. DatesPast'
  BY <1>2, <1>3, <1>6 DEF DatesPast
<1>10. PendingSound'
  <2>1. ASSUME NEW s \in Requests, Inserting(s)'
        PROVE  /\ pending'[s].id \notin Ids'
               /\ \A u \in Requests \ {s} :
                     Inserting(u)' => pending'[u].id # pending'[s].id
               /\ pending'[s].row.status = "active"
               /\ pending'[s].row.revoked_at = Null
               /\ pending'[s].row.created_at <= now'
    BY <1>2, <1>3, <1>5, <2>1 DEF PendingSound, Inserts
  <2>2. ASSUME NEW s \in Requests, pending'[s].phase = "rotating"
        PROVE  /\ pending'[s].id \in Ids'
               /\ pending'[s].exp = agents'[pending'[s].id].expires_at
    BY <1>2, <1>5, <2>2 DEF PendingSound
  <2> QED BY <2>1, <2>2 DEF PendingSound
<1>11. JtisUnique'
  <2>1. /\ \A t \in tokens : t.jti # row.token_jti
        /\ \A a \in Ids : agents[a].token_jti # row.token_jti
        /\ row.token_jti < nextJti
    BY <1>6 DEF JtisUnique
  <2>2. \A t, u \in tokens' : t.jti = u.jti => t = u
    BY <1>3, <2>1 DEF JtisUnique
  <2>3. \A t \in tokens', a \in Ids' : HoldsToken(t, a)' => t.agent = a
    BY <1>2, <1>3, <2>1 DEF JtisUnique, HoldsToken
  <2>4. ASSUME NEW s \in Requests, Busy(s)'
        PROVE  /\ PendingJti(s)' < nextJti'
               /\ \A t \in tokens' : t.jti # PendingJti(s)'
               /\ \A a \in Ids' : agents'[a].token_jti # PendingJti(s)'
               /\ \A u \in Requests \ {s} :
                     Busy(u)' => PendingJti(u)' # PendingJti(s)'
    <3>1. Busy(s) /\ s # r /\ PendingJti(s)' = PendingJti(s)
      BY <1>5, <2>4
    <3>2. row.token_jti # PendingJti(s)
      BY <1>6, <3>1 DEF JtisUnique
    <3> QED BY <1>2, <1>3, <1>5, <3>1, <3>2 DEF JtisUnique
  <2>5. /\ \A t \in tokens' : t.jti < nextJti'
        /\ \A a \in Ids' : agents'[a].token_jti < nextJti'
    BY <1>2, <1>3, <2>1 DEF JtisUnique
  <2> QED BY <2>2, <2>3, <2>4, <2>5 DEF JtisUnique
<1>12. \A x \in AllRows' : x \in AllRows
  BY <1>2, <1>5, <1>7 DEF AllRows, RowsToCome
<1>13. DelegationNarrows'
  <2>1. ASSUME NEW x \in AllRows
        PROVE  NarrowsParent(x)'
    BY <1>2, <2>1 DEF DelegationNarrows, NarrowsParent
  <2> QED BY <1>12, <2>1 DEF DelegationNarrows
<1>14. NoDelegationAfterEnd'
  BY <1>2, <1>6, <1>12 DEF NoDelegationAfterEnd
<1>15. ExpiredIsPastDue'
  BY <1>2, <1>3, <1>6 DEF ExpiredIsPastDue
<1>16. RevokedAtDatesEnd'
  BY <1>2, <1>6 DEF RevokedAtDatesEnd, Ended
<1>17. TokensEndWithAgent'
  BY <1>2, <1>3 DEF TokensEndWithAgent
<1>18. DepthBounded'
  BY <1>12 DEF DepthBounded
<1> QED BY <1>8, <1>9, <1>10, <1>11, <1>13, <1>14, <1>15, <1>16, <1>17, <1>18

-----------------------------------------------------------------------------
(* IInv under the step that replaces a token_jti *)

\* A row that agrees with another in every field but token_jti.
SameButJti(row, new) ==
    /\ new.status = row.status
    /\ new.human = row.human /\ new.risk = row.risk
    /\ new.scope = row.scope /\ new.can_delegate = row.can_delegate
    /\ new.parent_id = row.parent_id
    /\ new.depth = row.depth /\ new.max_depth = row.max_depth
    /\ new.created_at = row.created_at
    /\ new.expires_at = row.expires_at
    /\ new.revoked_at = row.revoked_at

\* Replacing the jti of a row leaves its other fields.
LEMMA JtiReplaced ==
    ASSUME NEW row \in Row, NEW j \in Nat
    PROVE  LET new == [row EXCEPT !.token_jti = j]
           IN  new \in Row /\ new.token_jti = j /\ SameButJti(row, new)
  BY DEF Row, SameButJti

\* UPDATE token_jti after the await keeps the inductive invariant, whatever
\* happened to the agent in between.
LEMMA RotatesPreserves ==
    ASSUME IInv, NEW r \in Requests, Rotates(r)
    PROVE  IInv'
<1> DEFINE id == pending[r].id
           jti == pending[r].token_jti
<1> USE DEF IInv, TypeOK
<1>1. /\ pending[r] \in [phase: {"rotating"}, id: AgentIds, token_jti: Nat,
                          exp: Nat]
      /\ id \in Ids /\ pending[r].exp = agents[id].expires_at
      /\ now \in Nat /\ jti \in Nat
  BY RegistryAssumption DEF Rotates, PendingRequest, Idle, PendingSound
<1>2. /\ Ids' = Ids
      /\ \A a \in Ids : agents[a] \in Row
      /\ \A a \in Ids : agents'[a] = IF a = id
                                     THEN [agents[a] EXCEPT !.token_jti = jti]
                                     ELSE agents[a]
  BY <1>1 DEF Rotates, RotatedBy, Ids
<1>3. /\ now' = now /\ nextJti' = nextJti
      /\ NewToken(r) = [jti |-> jti, agent |-> id, exp |-> pending[r].exp]
      /\ \A t \in tokens' : t \in tokens \/ t = NewToken(r)
  BY DEF Rotates, NewToken, Inserting
<1>4. \A s \in Requests : pending'[s] = pending[s] \/ pending'[s] = Idle
  BY DEF PendingShrinks, Rotates
<1>5. \A s \in Requests :
         /\ Inserting(s)' => Inserting(s) /\ pending'[s] = pending[s] /\ s # r
         /\ pending'[s].phase = "rotating" => pending'[s] = pending[s]
         /\ Busy(s)' => /\ Busy(s) /\ pending'[s] = pending[s] /\ s # r
                        /\ PendingJti(s)' = PendingJti(s)
  BY <1>4 DEF Inserting, Busy, Idle, PendingJti, Rotates
<1>6. Busy(r) /\ PendingJti(r) = jti
  BY <1>1 DEF Busy, Inserting, Idle, PendingJti
<1>7. \A a \in Ids :
         /\ agents'[a] \in Row
         /\ agents'[a].token_jti \in {agents[a].token_jti, jti}
         /\ a # id => agents'[a].token_jti = agents[a].token_jti
         /\ SameButJti(agents[a], agents'[a])
  <2>1. ASSUME NEW a \in Ids, a = id
        PROVE  /\ agents'[a] \in Row /\ agents'[a].token_jti = jti
               /\ SameButJti(agents[a], agents'[a])
    <3>1. agents'[a] = [agents[a] EXCEPT !.token_jti = jti]
      BY <1>2, <2>1
    <3> QED BY <1>1, <1>2, <3>1, JtiReplaced
  <2>2. ASSUME NEW a \in Ids, a # id
        PROVE  agents'[a] = agents[a]
    BY <1>2, <2>2
  <2> QED BY <1>2, <2>1, <2>2 DEF SameButJti
<1> USE DEF SameButJti
<1>8. TypeOK'
  <2>1. tokens' \subseteq Token
    BY <1>1, <1>3 DEF Token
  <2>2. pending' \in [Requests -> PendingRequest] /\ audit' \subseteq AuditEntry
    BY DEF Rotates, PendingShrinks
  <2>3. agents' \in [Ids' -> Row]
    BY <1>2, <1>7 DEF Rotates, RotatedBy, Ids
  <2> QED BY <1>2, <1>3, <2>1, <2>2, <2>3
<1>9. DatesPast'
  BY <1>2, <1>3, <1>7 DEF DatesPast
<1>10. PendingSound'
  BY <1>2, <1>3, <1>5, <1>7 DEF PendingSound
<1>11. JtisUnique'
  <2>1. /\ \A t \in tokens : t.jti # jti
        /\ \A a \in Ids : agents[a].token_jti # jti
        /\ jti < nextJti
    BY <1>6 DEF JtisUnique
  <2>2. \A t, u \in tokens' : t.jti = u.jti => t = u
    BY <1>3, <2>1 DEF JtisUnique
  <2>3. \A t \in tokens', a \in Ids' : HoldsToken(t, a)' => t.agent = a
    BY <1>2, <1>3, <1>7, <2>1 DEF JtisUnique, HoldsToken
  <2>4. ASSUME NEW s \in Requests, Busy(s)'
        PROVE  /\ PendingJti(s)' < nextJti'
               /\ \A t \in tokens' : t.jti # PendingJti(s)'
               /\ \A a \in Ids' : agents'[a].token_jti # PendingJti(s)'
               /\ \A u \in Requests \ {s} :
                     Busy(u)' => PendingJti(u)' # PendingJti(s)'
    <3>1. Busy(s) /\ s # r /\ PendingJti(s)' = PendingJti(s)
      BY <1>5, <2>4
    <3>2. jti # PendingJti(s)
      BY <1>6, <3>1 DEF JtisUnique
    <3> QED BY <1>2, <1>3, <1>5, <1>7, <3>1, <3>2 DEF JtisUnique
  <2>5. /\ \A t \in tokens' : t.jti < nextJti'
        /\ \A a \in Ids' : agents'[a].token_jti < nextJti'
    BY <1>2, <1>3, <1>7, <2>1 DEF JtisUnique
  <2> QED BY <2>2, <2>3, <2>4, <2>5 DEF JtisUnique
<1>12. DelegationNarrows'
  <2>1. ASSUME NEW a \in Ids
        PROVE  NarrowsParent(agents[a])'
    BY <1>2, <1>7 DEF DelegationNarrows, AllRows, NarrowsParent
  <2>2. ASSUME NEW s \in Requests, Inserting(s)'
        PROVE  NarrowsParent(pending[s].row)'
    BY <1>2, <1>5, <1>7, <2>2
       DEF DelegationNarrows, AllRows, RowsToCome, NarrowsParent
  <2> QED BY <1>2, <2>1, <2>2 DEF DelegationNarrows, AllRows, RowsToCome
<1>13. NoDelegationAfterEnd'
  <2>1. ASSUME NEW a \in Ids, agents'[a].parent_id \in Ids,
               agents'[agents'[a].parent_id].revoked_at # Null
        PROVE  agents'[a].created_at
                 <= agents'[agents'[a].parent_id].revoked_at
    BY <1>7, <2>1 DEF NoDelegationAfterEnd, AllRows
  <2>2. ASSUME NEW s \in Requests, Inserting(s)',
               pending'[s].row.parent_id \in Ids,
               agents'[pending'[s].row.parent_id].revoked_at # Null
        PROVE  pending'[s].row.created_at
                 <= agents'[pending'[s].row.parent_id].revoked_at
    BY <1>5, <1>7, <2>2 DEF NoDelegationAfterEnd, AllRows, RowsToCome
  <2> QED BY <1>2, <2>1, <2>2 DEF NoDelegationAfterEnd, AllRows, RowsToCome
<1>14. ExpiredIsPastDue'
  BY <1>2, <1>3, <1>7 DEF ExpiredIsPastDue
<1>15. RevokedAtDatesEnd'
  BY <1>2, <1>7 DEF RevokedAtDatesEnd
<1>16. TokensEndWithAgent'
  BY <1>1, <1>2, <1>3, <1>7 DEF TokensEndWithAgent
<1>17. DepthBounded'
  BY <1>2, <1>5, <1>7 DEF DepthBounded, AllRows, RowsToCome
<1> QED BY <1>8, <1>9, <1>10, <1>11, <1>12, <1>13, <1>14, <1>15, <1>16, <1>17

-----------------------------------------------------------------------------
(* IInv under the steps that suspend a request *)

Starts(r, x) ==
    /\ pending[r] = Idle
    /\ pending' = [pending EXCEPT ![r] = x]
    /\ nextJti' = nextJti + 1
    /\ UNCHANGED <<agents, tokens, now, audit>>

\* What Register and Delegate suspend: an active row dated now, with a fresh
\* id and jti, that narrows its parent, which was not ended.
StartsInsertion(x) ==
    /\ x \in [phase: {"inserting"}, id: FreshIds, row: Row]
    /\ x.row.token_jti = nextJti
    /\ x.row.status = "active"
    /\ x.row.revoked_at = Null
    /\ x.row.created_at = now
    /\ NarrowsParent(x.row)
    /\ x.row.parent_id = Null => x.row.depth = 0
    /\ x.row.depth <= x.row.max_depth
    /\ x.row.risk = "high" => x.row.max_depth <= 1
    /\ x.row.parent_id \in Ids => agents[x.row.parent_id].revoked_at = Null

\* What RotateStart suspends.
StartsRotation(x) ==
    /\ x \in [phase: {"rotating"}, id: Ids, token_jti: Nat, exp: Nat]
    /\ x.token_jti = nextJti
    /\ x.exp = agents[x.id].expires_at

\* Suspending a handler in `await issueToken` keeps the inductive invariant.
LEMMA StartsPreserves ==
    ASSUME IInv, NEW r \in Requests, NEW x, Starts(r, x),
           StartsInsertion(x) \/ StartsRotation(x)
    PROVE  IInv'
<1> USE DEF IInv, TypeOK, Starts
<1>1. /\ Ids' = Ids /\ now' = now /\ now \in Nat
      /\ agents' = agents /\ tokens' = tokens
      /\ \A a \in Ids : agents[a] \in Row
  BY RegistryAssumption DEF Ids
<1>2. /\ pending'[r] = x
      /\ \A s \in Requests \ {r} : pending'[s] = pending[s]
      /\ ~Inserting(r) /\ ~Busy(r)
  BY DEF Inserting, Idle, Busy
<1>3. /\ x \in PendingRequest /\ x # Idle
      /\ PendingJti(r)' = nextJti
      /\ \A s \in Requests \ {r} :
            /\ Inserting(s)' <=> Inserting(s)
            /\ Busy(s)' <=> Busy(s)
            /\ PendingJti(s)' = PendingJti(s)
  BY <1>2 DEF PendingRequest, Idle, PendingJti, Inserting, Busy,
              StartsInsertion, StartsRotation, FreshIds
<1>4. TypeOK'
  BY <1>1, <1>3
<1>5. DatesPast'
  BY <1>1 DEF DatesPast
<1>6. PendingSound'
  <2>1. ASSUME NEW s \in Requests, Inserting(s)'
        PROVE  /\ pending'[s].id \notin Ids'
               /\ \A u \in Requests \ {s} :
                     Inserting(u)' => pending'[u].id # pending'[s].id
               /\ pending'[s].row.status = "active"
               /\ pending'[s].row.revoked_at = Null
               /\ pending'[s].row.created_at <= now'
    <3>1. CASE s = r
      <4>1. StartsInsertion(x)
        BY <1>2, <2>1, <3>1 DEF Inserting, StartsRotation
      <4> QED BY <1>1, <1>2, <1>3, <3>1, <4>1 DEF StartsInsertion, FreshIds
    <3>2. CASE s # r
      <4>1. Inserting(r)' => x.id # pending[s].id
        BY <1>2, <1>3, <2>1, <3>2
           DEF Inserting, StartsInsertion, StartsRotation, FreshIds
      <4> QED BY <1>1, <1>2, <1>3, <2>1, <3>2, <4>1 DEF PendingSound
    <3> QED BY <3>1, <3>2
  <2>2. ASSUME NEW s \in Requests, pending'[s].phase = "rotating"
        PROVE  /\ pending'[s].id \in Ids'
               /\ pending'[s].exp = agents'[pending'[s].id].expires_at
    <3>1. CASE s = r
      BY <1>1, <1>2, <2>2, <3>1 DEF StartsInsertion, StartsRotation
    <3>2. CASE s # r
      BY <1>1, <1>2, <2>2, <3>2 DEF PendingSound
    <3> QED BY <3>1, <3>2
  <2> QED BY <2>1, <2>2 DEF PendingSound
<1>7. JtisUnique'
  <2>1. ASSUME NEW s \in Requests, Busy(s)'
        PROVE  /\ PendingJti(s)' < nextJti'
               /\ \A t \in tokens' : t.jti # PendingJti(s)'
               /\ \A a \in Ids' : agents'[a].token_jti # PendingJti(s)'
               /\ \A u \in Requests \ {s} :
                     Busy(u)' => PendingJti(u)' # PendingJti(s)'
    <3>1. CASE s = r
      BY <1>1, <1>3, <3>1 DEF JtisUnique, Token, Row
    <3>2. CASE s # r
      <4>1. Busy(s) /\ PendingJti(s)' = PendingJti(s)
        BY <1>3, <2>1, <3>2
      <4>2. PendingJti(s) \in Nat
        BY <4>1 DEF Busy, PendingJti, Inserting, PendingRequest, Row
      <4>3. /\ PendingJti(s) < nextJti
            /\ \A t \in tokens : t.jti # PendingJti(s)
            /\ \A a \in Ids : agents[a].token_jti # PendingJti(s)
            /\ \A u \in Requests \ {s} :
                  Busy(u) => PendingJti(u) # PendingJti(s)
        BY <4>1 DEF JtisUnique
      <4> QED BY <1>1, <1>2, <1>3, <4>1, <4>2, <4>3
    <3> QED BY <3>1, <3>2
  <2>2. /\ \A t \in tokens' : t.jti < nextJti'
        /\ \A a \in Ids' : agents'[a].token_jti < nextJti'
        /\ \A t, u \in tokens' : t.jti = u.jti => t = u
        /\ \A t \in tokens', a \in Ids' : HoldsToken(t, a)' => t.agent = a
    BY <1>1 DEF JtisUnique, HoldsToken, Token, Row
  <2> QED BY <2>1, <2>2 DEF JtisUnique
<1>8. \A y \in AllRows' : y \in AllRows \/ (StartsInsertion(x) /\ y = x.row)
  BY <1>1, <1>2, <1>3
     DEF AllRows, RowsToCome, Inserting, StartsInsertion, StartsRotation
<1>9. DelegationNarrows'
  <2>1. \A y : NarrowsParent(y)' <=> NarrowsParent(y)
    BY <1>1 DEF NarrowsParent
  <2> QED BY <1>8, <2>1 DEF DelegationNarrows, StartsInsertion
<1>10. NoDelegationAfterEnd'
  BY <1>1, <1>8 DEF NoDelegationAfterEnd, StartsInsertion
<1>11. ExpiredIsPastDue' /\ RevokedAtDatesEnd' /\ TokensEndWithAgent'
  BY <1>1 DEF ExpiredIsPastDue, RevokedAtDatesEnd, TokensEndWithAgent
<1>12. DepthBounded'
  BY <1>8 DEF DepthBounded, StartsInsertion
<1> QED BY <1>4, <1>5, <1>6, <1>7, <1>9, <1>10, <1>11, <1>12

\* The clock only makes dates older.
LEMMA TickPreserves ==
    ASSUME IInv, Tick
    PROVE  IInv'
<1> USE DEF IInv, TypeOK, Tick
<1>1. /\ Ids' = Ids /\ now' = now + 1 /\ now \in Nat /\ now' \in 0..MaxTime
      /\ agents' = agents /\ tokens' = tokens /\ pending' = pending
      /\ \A a \in Ids : agents[a] \in Row
  BY RegistryAssumption DEF Ids
<1>2. \A r \in Requests :
         /\ Inserting(r)' <=> Inserting(r)
         /\ Inserting(r) => pending[r].row \in Row
  BY DEF Inserting, PendingRequest, Idle
<1>3. TypeOK'
  BY <1>1
<1>4. DatesPast' /\ PendingSound' /\ ExpiredIsPastDue'
  BY <1>1, <1>2 DEF DatesPast, PendingSound, ExpiredIsPastDue, Row
<1>5. JtisUnique'
  BY <1>1, <1>2 DEF JtisUnique, Busy, PendingJti, HoldsToken
<1>6. AllRows' = AllRows
  BY <1>1, <1>2 DEF AllRows, RowsToCome
<1>7. DelegationNarrows' /\ NoDelegationAfterEnd'
  BY <1>1, <1>6 DEF DelegationNarrows, NarrowsParent, NoDelegationAfterEnd
<1>8. RevokedAtDatesEnd' /\ TokensEndWithAgent' /\ DepthBounded'
  BY <1>1, <1>6 DEF RevokedAtDatesEnd, TokensEndWithAgent, DepthBounded
<1> QED BY <1>3, <1>4, <1>5, <1>7, <1>8

-----------------------------------------------------------------------------
(* The actions have these shapes *)

\* Entries of a known action on known agents are audit entries.
LEMMA LogTyped ==
    ASSUME audit \subseteq AuditEntry, NEW S \in SUBSET AgentIds,
           NEW action \in AuditActions
    PROVE  Log(S, action) \subseteq AuditEntry
  BY DEF Log, AuditEntry

\* An admitted registration suspends an insertion of a root row.
LEMMA RegisterStarts ==
    ASSUME IInv, NEW r \in Requests, NEW q \in Registrations, Register(r, q)
    PROVE  \E x : Starts(r, x) /\ StartsInsertion(x)
<1>1. PICK id \in FreshIds : pending' = [pending EXCEPT ![r] =
          [phase |-> "inserting", id |-> id, row |-> RootRow(q, nextJti)]]
  BY DEF Register
<1>2. q \in RegisterBody /\ now \in Nat /\ nextJti \in Nat
  BY RegistryAssumption DEF IInv, TypeOK
<1>3. RootRow(q, nextJti) \in Row
  BY <1>2 DEF RootRow, Row, RegisterBody, Statuses
<1>4. StartsInsertion([phase |-> "inserting", id |-> id,
                       row |-> RootRow(q, nextJti)])
  BY <1>3, RegistryAssumption
     DEF StartsInsertion, RootRow, NarrowsParent, IInv, TypeOK, Register,
         RegistrationAdmitted, RegisterBody
<1> QED BY <1>1, <1>4 DEF Register, Starts

\* The fields of a delegate's row.
ChildOf(parent, p, d, j, row) ==
    /\ row.parent_id = parent
    /\ row.human = p.human /\ row.risk = p.risk
    /\ row.max_depth = p.max_depth /\ row.depth = p.depth + 1
    /\ row.scope = GrantedScope(p, d)
    /\ row.can_delegate = GrantedScope(p, d)
    /\ row.expires_at = ChildExpiry(p, d)
    /\ row.token_jti = j /\ row.created_at = now
    /\ row.status = p.status /\ row.revoked_at = p.revoked_at

\* The delegate handler builds a row with the child's fields.
LEMMA ChildRowFields ==
    ASSUME NEW parent \in AgentIds, NEW p \in Row, NEW d, NEW j \in Nat,
           GrantedScope(p, d) \in SUBSET Tools, ChildExpiry(p, d) \in Nat,
           now \in Nat
    PROVE  /\ ChildRow(parent, p, d, j) \in Row
           /\ ChildOf(parent, p, d, j, ChildRow(parent, p, d, j))
<1> DEFINE g == GrantedScope(p, d)
           e == ChildExpiry(p, d)
<1>1. ChildRow(parent, p, d, j) =
        [status |-> p.status, human |-> p.human, risk |-> p.risk,
         scope |-> g, can_delegate |-> g, parent_id |-> parent,
         depth |-> p.depth + 1, max_depth |-> p.max_depth,
         token_jti |-> j, created_at |-> now, expires_at |-> e,
         revoked_at |-> p.revoked_at]
  <2> HIDE DEF g, e
  <2>1. ChildRow(parent, p, d, j) =
          [p EXCEPT !.scope = g, !.can_delegate = g, !.parent_id = parent,
                    !.depth = @ + 1, !.token_jti = j, !.created_at = now,
                    !.expires_at = e]
    BY DEF ChildRow, g, e
  <2> QED BY <2>1 DEF Row
<1> QED BY <1>1 DEF Row, ChildOf

\* An accepted delegation suspends an insertion of a row that narrows its
\* parent's.
LEMMA DelegateStarts ==
    ASSUME IInv, NEW r \in Requests, NEW t \in tokens,
           NEW d \in Delegations, Delegate(r, t, d)
    PROVE  \E x : Starts(r, x) /\ StartsInsertion(x)
<1> DEFINE p == agents[t.agent]
           row == ChildRow(t.agent, p, d, nextJti)
<1>1. PICK id \in FreshIds : pending' = [pending EXCEPT ![r] =
          [phase |-> "inserting", id |-> id, row |-> row]]
  BY DEF Delegate
<1>2. /\ d \in DelegateBody /\ now \in Nat /\ nextJti \in Nat
      /\ t.agent \in Ids /\ t.agent \in AgentIds /\ p \in Row
      /\ p.status = "active" /\ p.depth < p.max_depth
  BY RegistryAssumption
     DEF IInv, TypeOK, Delegate, DelegateAccepts, MayDelegate
<1>3. /\ ChildExpiry(p, d) \in Nat /\ ChildExpiry(p, d) <= p.expires_at
      /\ GrantedScope(p, d) \in SUBSET Tools
      /\ GrantedScope(p, d) \subseteq p.can_delegate
  BY <1>2 DEF ChildExpiry, Min2, GrantedScope, DelegateBody, Row
<1>4. row \in Row /\ ChildOf(t.agent, p, d, nextJti, row)
  BY <1>2, <1>3, ChildRowFields
<1>5. p.revoked_at = Null
  BY <1>2 DEF IInv, RevokedAtDatesEnd, Ended
<1>6. /\ NarrowsParent(row) /\ row.parent_id # Null
      /\ row.depth <= row.max_depth
      /\ row.risk = "high" => row.max_depth <= 1
  BY <1>2, <1>3, <1>4, RegistryAssumption
     DEF NarrowsParent, Row, ChildOf, IInv, DepthBounded, AllRows
<1>7. StartsInsertion([phase |-> "inserting", id |-> id, row |-> row])
  BY <1>2, <1>4, <1>5, <1>6 DEF StartsInsertion, ChildOf
<1> QED BY <1>1, <1>7 DEF Delegate, Starts

\* An accepted rotation suspends a rotation that keeps the expiry.
LEMMA RotateStartStarts ==
    ASSUME IInv, NEW r \in Requests, NEW a \in AgentIds, RotateStart(r, a)
    PROVE  \E x : Starts(r, x) /\ StartsRotation(x)
<1> DEFINE x == [phase |-> "rotating", id |-> a, token_jti |-> nextJti,
                 exp |-> RotatedExpiry(a)]
<1>1. a \in Ids /\ agents[a] \in Row /\ nextJti \in Nat
  BY DEF RotateStart, ActiveIds, IInv, TypeOK
<1>2. StartsRotation(x)
  BY <1>1 DEF StartsRotation, RotatedExpiry, Row
<1> QED BY <1>2 DEF RotateStart, Starts

\* Whoever is ended by a row operation is an ended row, the others stay.
LEMMA RevokedEnds ==
    ASSUME IInv, NEW S, agents' = Updated(S, RevokedRow)
    PROVE  agents' \in [Ids -> Row] /\ \A a \in Ids : EndedRow(agents[a], agents'[a])
<1>1. \A a \in Ids : agents'[a] = agents[a] \/ agents'[a] = RevokedRow(agents[a])
  BY DEF Updated
<1> QED BY <1>1, EndedRowKeeps, RegistryAssumption
        DEF Updated, EndedRow, IInv, TypeOK

\* Deprovisioning a set of rows ends those rows and keeps the others.
LEMMA DeprovisionedEnds ==
    ASSUME IInv, NEW S, agents' = Updated(S, DeprovisionedRow)
    PROVE  agents' \in [Ids -> Row] /\ \A a \in Ids : EndedRow(agents[a], agents'[a])
<1>1. \A a \in Ids :
        agents'[a] = agents[a] \/ agents'[a] = DeprovisionedRow(agents[a])
  BY DEF Updated
<1> QED BY <1>1, EndedRowKeeps, RegistryAssumption
        DEF Updated, EndedRow, IInv, TypeOK

\* The expiry job's cascade stays among the agents that are due: the subtree
\* of a due agent lies in the closed set of the agents past their expiry.
LEMMA ExpirySetIsDue ==
    ASSUME IInv
    PROVE  \A a \in ExpirySet : a \in Ids /\ agents[a].status = "active"
                                /\ agents[a].expires_at <= now
<1> DEFINE Past == {b \in Ids : agents[b].expires_at <= now}
<1>1. \A b \in Ids : agents[b].parent_id \in Past => b \in Past
  <2> SUFFICES ASSUME NEW b \in Ids, agents[b].parent_id \in Past
               PROVE  agents[b].expires_at <= now
    OBVIOUS
  <2> DEFINE p == agents[b].parent_id
  <2>1. /\ p \in Ids /\ p # Null /\ agents[b] \in Row /\ agents[p] \in Row
        /\ now \in Nat
    BY RegistryAssumption DEF IInv, TypeOK
  <2>2. agents[b].expires_at <= agents[p].expires_at
    BY <2>1 DEF IInv, DelegationNarrows, AllRows, NarrowsParent
  <2> QED BY <2>1, <2>2 DEF Row
<1>2. Due \subseteq Past
  BY DEF Due, ActiveIds
<1>3. Subtree(agents, Due) \subseteq Past
  BY <1>1, <1>2, SubtreeLeast DEF Ids
<1> QED BY <1>3 DEF ExpirySet, ActiveIds

\* Expiring the expiry job's set ends active rows that are past due.
LEMMA ExpiredEnds ==
    ASSUME IInv, agents' = Updated(ExpirySet, ExpiredRow)
    PROVE  agents' \in [Ids -> Row] /\ \A a \in Ids : EndedRow(agents[a], agents'[a])
<1>1. \A a \in Ids : \/ agents'[a] = agents[a]
                     \/ a \in ExpirySet /\ agents'[a] = ExpiredRow(agents[a])
  BY DEF Updated
<1>2. \A a \in Ids : EndedRow(agents[a], agents'[a])
  BY <1>1, ExpirySetIsDue DEF EndedRow
<1> QED BY <1>2, EndedRowKeeps, RegistryAssumption DEF Updated, IInv, TypeOK

\* A crash ends suspended requests, and so does finishing one of them.
LEMMA PendingShrinksWhen ==
    ASSUME IInv
    PROVE  /\ pending' = [s \in Requests |-> Idle] => PendingShrinks
           /\ pending' = pending => PendingShrinks
           /\ \A r \in Requests :
                 pending' = [pending EXCEPT ![r] = Idle] => PendingShrinks
  BY DEF IInv, TypeOK, PendingShrinks, PendingRequest

\* Insert is a step that inserts a row.
LEMMA InsertInserts ==
    ASSUME IInv, NEW r \in Requests, Insert(r)
    PROVE  Inserts(r)
<1>1. pending[r].id \in AgentIds
  BY DEF Insert, Inserting, IInv, TypeOK, PendingRequest, Idle
<1>2. audit' \subseteq AuditEntry
  BY <1>1, LogTyped DEF Insert, IInv, TypeOK, AuditActions
<1>3. pending'[r] = Idle
  BY DEF Insert, IInv, TypeOK
<1> QED BY <1>2, <1>3, PendingShrinksWhen DEF Insert, Inserts

\* RotateFinish is a step that replaces a jti.
LEMMA RotateFinishRotates ==
    ASSUME IInv, NEW r \in Requests, RotateFinish(r)
    PROVE  Rotates(r)
<1>1. pending[r].id \in AgentIds
  BY DEF RotateFinish, IInv, TypeOK, PendingRequest, Idle
<1>2. audit' \subseteq AuditEntry
  BY <1>1, LogTyped DEF RotateFinish, IInv, TypeOK, AuditActions
<1>3. pending'[r] = Idle
  BY DEF RotateFinish, IInv, TypeOK
<1> QED BY <1>2, <1>3, PendingShrinksWhen DEF RotateFinish, Rotates

\* DELETE /api/agents/:id is a step that ends agents.
LEMMA RevokeEnds ==
    ASSUME IInv, NEW a \in AgentIds, Revoke(a)
    PROVE  Ends
<1>1. RevokeSet(a) \subseteq AgentIds
  BY DEF RevokeSet, Subtree, Ids, IInv, TypeOK
<1>2. audit' \subseteq AuditEntry
  BY <1>1, LogTyped DEF Revoke, IInv, TypeOK, AuditActions
<1> QED BY <1>2, RevokedEnds, PendingShrinksWhen DEF Revoke, Ends

\* Deprovisioning an agent is a step that ends agents.
LEMMA DeprovisionEnds ==
    ASSUME IInv, NEW a \in AgentIds, Deprovision(a)
    PROVE  Ends
<1>1. audit' \subseteq AuditEntry
  BY LogTyped DEF Deprovision, IInv, TypeOK, AuditActions
<1> QED BY <1>1, DeprovisionedEnds, PendingShrinksWhen DEF Deprovision, Ends

\* Deprovisioning a human is a step that ends agents.
LEMMA DeprovisionHumanEnds ==
    ASSUME IInv, NEW h \in Humans, DeprovisionHuman(h)
    PROVE  Ends
<1>1. audit' \subseteq AuditEntry
  BY LogTyped
     DEF DeprovisionHuman, DeprovisionableOf, IInv, TypeOK, AuditActions
<1> QED BY <1>1, DeprovisionedEnds, PendingShrinksWhen
        DEF DeprovisionHuman, Ends

\* The SCIM webhook is a step that ends agents.
LEMMA ScimDeprovisionEnds ==
    ASSUME IInv, NEW h \in Humans, ScimDeprovision(h)
    PROVE  Ends
<1>1. Subtree(agents, ActiveOf(h)) \subseteq AgentIds
  BY DEF Subtree, Ids, IInv, TypeOK
<1>2. audit' \subseteq AuditEntry
  BY <1>1, LogTyped DEF ScimDeprovision, IInv, TypeOK, AuditActions
<1> QED BY <1>2, RevokedEnds, PendingShrinksWhen DEF ScimDeprovision, Ends

\* The expiry job is a step that ends agents.
LEMMA AutoExpiryEnds ==
    ASSUME IInv, AutoExpiry
    PROVE  Ends
<1>1. LoggedExpiries \subseteq AgentIds
  BY ExpirySetIsDue DEF LoggedExpiries, IInv, TypeOK
<1>2. audit' \subseteq AuditEntry
  BY <1>1, LogTyped DEF AutoExpiry, IInv, TypeOK, AuditActions
<1> QED BY <1>2, ExpiredEnds, PendingShrinksWhen DEF AutoExpiry, Ends

\* A crash inserts, rotates or ends like the handler it cut short, or changes
\* nothing but the suspended requests.
LEMMA CrashShape ==
    ASSUME IInv, Crash
    PROVE  Ends \/ \E r \in Requests : Inserts(r) \/ Rotates(r)
<1> USE DEF IInv, TypeOK
<1>1. /\ PendingShrinks /\ tokens' = tokens /\ nextJti' = nextJti /\ now' = now
      /\ \A r \in Requests : pending'[r] = Idle
  BY PendingShrinksWhen DEF Crash
<1>2. \A S \in SUBSET AgentIds : Log(S, "revoked") \subseteq AuditEntry
  BY LogTyped DEF AuditActions
<1>3. \A S : Subtree(agents, S) \subseteq AgentIds
  BY DEF Subtree, Ids
<1>4. CASE UNCHANGED <<agents, audit>>
  BY <1>1, <1>4, RegistryAssumption DEF Ends, EndedRow
<1>5. CASE TornWrite
  <2>1. ASSUME NEW r \in Requests, Inserting(r), agents' = InsertedBy(r),
               UNCHANGED audit
        PROVE  Inserts(r)
    BY <1>1, <2>1 DEF Inserts
  <2>2. ASSUME NEW r \in Requests, pending[r].phase = "rotating",
               agents' = RotatedBy(r), UNCHANGED audit
        PROVE  Rotates(r)
    BY <1>1, <2>2 DEF Rotates
  <2>3. ASSUME NEW S, agents' = Updated(S, DeprovisionedRow), UNCHANGED audit
        PROVE  Ends
    BY <1>1, <2>3, DeprovisionedEnds DEF Ends
  <2>4. ASSUME NEW S, agents' = Updated(S, RevokedRow),
               audit' \subseteq AuditEntry
        PROVE  Ends
    BY <1>1, <2>4, RevokedEnds DEF Ends
  <2>5. ASSUME NEW a \in Ids, agents' = Updated(RevokeSet(a), RevokedRow),
               \E S \in SUBSET RevokeSet(a) : audit' = Log(S, "revoked")
        PROVE  Ends
    <3>1. audit' \subseteq AuditEntry
      BY <1>2, <1>3, <2>5 DEF RevokeSet
    <3> QED BY <2>4, <2>5, <3>1
  <2>6. ASSUME NEW done, agents' = Updated(Subtree(agents, done), RevokedRow),
               \E S \in SUBSET Subtree(agents, done) : audit' = Log(S, "revoked")
        PROVE  Ends
    <3>1. audit' \subseteq AuditEntry
      BY <1>2, <1>3, <2>6
    <3> QED BY <2>4, <2>6, <3>1
  <2> QED BY <1>5, <2>1, <2>2, <2>3, <2>5, <2>6 DEF TornWrite
<1> QED BY <1>4, <1>5 DEF Crash

-----------------------------------------------------------------------------
(* The theorems *)

\* The empty table satisfies the inductive invariant.
LEMMA InitIInv == Init => IInv
<1> SUFFICES ASSUME Init PROVE IInv
  OBVIOUS
<1>1. Ids = {} /\ \A r \in Requests : pending[r] = Idle
  BY DEF Init, Ids
<1>2. TypeOK
  BY <1>1, RegistryAssumption DEF Init, TypeOK, PendingRequest, Ids
<1>3. AllRows = {} /\ tokens = {}
  BY <1>1 DEF Init, AllRows, RowsToCome, Inserting, Idle
<1> QED BY <1>1, <1>2, <1>3
        DEF IInv, DatesPast, PendingSound, JtisUnique, DelegationNarrows,
            NoDelegationAfterEnd, ExpiredIsPastDue, RevokedAtDatesEnd,
            TokensEndWithAgent, DepthBounded, Busy, Inserting, Idle

\* Every step of the registry keeps the inductive invariant.
LEMMA NextIInv == IInv /\ [Next]_vars => IInv'
<1> SUFFICES ASSUME IInv, [Next]_vars PROVE IInv'
  OBVIOUS
<1>1. ASSUME NEW r \in Requests, NEW q \in Registrations, Register(r, q)
      PROVE  IInv'
  BY <1>1, RegisterStarts, StartsPreserves
<1>2. ASSUME NEW r \in Requests, NEW t \in tokens, NEW d \in Delegations,
             Delegate(r, t, d)
      PROVE  IInv'
  BY <1>2, DelegateStarts, StartsPreserves
<1>3. ASSUME NEW r \in Requests, Insert(r)
      PROVE  IInv'
  BY <1>3, InsertInserts, InsertsPreserves
<1>4. ASSUME NEW r \in Requests, NEW a \in AgentIds, RotateStart(r, a)
      PROVE  IInv'
  BY <1>4, RotateStartStarts, StartsPreserves
<1>5. ASSUME NEW r \in Requests, RotateFinish(r)
      PROVE  IInv'
  BY <1>5, RotateFinishRotates, RotatesPreserves
<1>6. ASSUME NEW a \in AgentIds, Revoke(a) \/ Deprovision(a)
      PROVE  IInv'
  BY <1>6, RevokeEnds, DeprovisionEnds, EndsPreserves
<1>7. ASSUME NEW h \in Humans, DeprovisionHuman(h) \/ ScimDeprovision(h)
      PROVE  IInv'
  BY <1>7, DeprovisionHumanEnds, ScimDeprovisionEnds, EndsPreserves
<1>8. CASE AutoExpiry
  BY <1>8, AutoExpiryEnds, EndsPreserves
<1>9. CASE Crash
  BY <1>9, CrashShape, EndsPreserves, InsertsPreserves, RotatesPreserves
<1>10. CASE Tick
  BY <1>10, TickPreserves
<1>11. CASE UNCHANGED vars
  <2>1. \A r : /\ Inserting(r)' <=> Inserting(r)
               /\ Busy(r)' <=> Busy(r)
               /\ PendingJti(r)' = PendingJti(r)
    BY <1>11 DEF vars, Inserting, Busy, PendingJti
  <2>2. AllRows' = AllRows /\ Ids' = Ids
    BY <1>11, <2>1 DEF vars, AllRows, RowsToCome, Ids
  <2> QED BY <1>11, <2>1, <2>2
          DEF vars, IInv, TypeOK, DatesPast, PendingSound, JtisUnique,
              DelegationNarrows, NarrowsParent, NoDelegationAfterEnd,
              ExpiredIsPastDue, RevokedAtDatesEnd, TokensEndWithAgent,
              HoldsToken, DepthBounded
<1> QED BY <1>1, <1>2, <1>3, <1>4, <1>5, <1>6, <1>7, <1>8, <1>9, <1>10, <1>11
        DEF Next

\* The inductive invariant holds in every reachable state.
THEOREM Inductive == Spec => []IInv
  BY InitIInv, NextIInv, PTL DEF Spec

\* Every variable has its type.
THEOREM TypeCorrect == Spec => []TypeOK
<1>1. IInv => TypeOK
  BY DEF IInv
<1> QED BY <1>1, Inductive, PTL

\* Whatever was ended, rotated or lost in a crash while a delegation was
\* suspended, delegates narrow their parent's row.
THEOREM Narrowing == Spec => []DelegationNarrows
<1>1. IInv => DelegationNarrows
  BY DEF IInv
<1> QED BY <1>1, Inductive, PTL

\* A delegation that survives a cascade began before it.
THEOREM SurvivorsPredateEnd == Spec => []NoDelegationAfterEnd
<1>1. IInv => NoDelegationAfterEnd
  BY DEF IInv
<1> QED BY <1>1, Inductive, PTL

\* The expiry cascade ends no agent early.
THEOREM NoEarlyExpiry == Spec => []ExpiredIsPastDue
<1>1. IInv => ExpiredIsPastDue
  BY DEF IInv
<1> QED BY <1>1, Inductive, PTL

\* revoked_at and status agree.
THEOREM EndsAreDated == Spec => []RevokedAtDatesEnd
<1>1. IInv => RevokedAtDatesEnd
  BY DEF IInv
<1> QED BY <1>1, Inductive, PTL

\* Rotation prolongs nothing.
THEOREM NoProlongation == Spec => []TokensEndWithAgent
<1>1. IInv => TokensEndWithAgent
  BY DEF IInv
<1> QED BY <1>1, Inductive, PTL

\* Status, dates and tokens agree about an agent's end, whatever was applied
\* to its subtree in whatever order.
THEOREM EndsAreJustified == Spec => []EndsJustified
<1>1. ExpiredIsPastDue /\ RevokedAtDatesEnd /\ TokensEndWithAgent
          => EndsJustified
  BY DEF EndsJustified
<1> QED BY <1>1, NoEarlyExpiry, EndsAreDated, NoProlongation, PTL

\* The depth limit of high-risk agents binds their delegates.
THEOREM HighRiskIsShallow == Spec => []HighRiskDepth
<1>1. IInv => HighRiskDepth
  <2> SUFFICES ASSUME IInv, NEW row \in AllRows, row.risk = "high"
               PROVE  row.depth <= 1
    BY DEF HighRiskDepth
  <2>1. row \in Row
    BY DEF IInv, TypeOK, AllRows, RowsToCome, Inserting, PendingRequest, Idle
  <2> QED BY <2>1 DEF IInv, DepthBounded, Row
<1> QED BY <1>1, Inductive, PTL

\* Of the tokens of an agent one at most passes verification.
THEOREM SingleUsableToken == Spec => []OneUsableToken
<1>1. IInv => OneUsableToken
  <2> SUFFICES ASSUME IInv, NEW t \in tokens, NEW u \in tokens,
                      t.agent = u.agent,
                      NEW x \in Tools, VerifyAllows(t, x),
                      NEW y \in Tools, VerifyAllows(u, y)
               PROVE  t = u
    BY DEF OneUsableToken
  <2>1. PICK a \in Ids : HoldsToken(t, a)
    BY DEF VerifyAllows
  <2>2. PICK b \in Ids : HoldsToken(u, b)
    BY DEF VerifyAllows
  <2>3. a = b
    BY <2>1, <2>2 DEF IInv, JtisUnique
  <2> QED BY <2>1, <2>2, <2>3 DEF IInv, JtisUnique, HoldsToken
<1> QED BY <1>1, Inductive, PTL

-----------------------------------------------------------------------------
(* What a step may not do *)

\* A step that suspends a request or lets time pass leaves the table alone.
QuietStep == UNCHANGED agents

\* Every step leaves the table alone, ends agents, inserts a row or replaces a
\* jti.
LEMMA StepShapes ==
    ASSUME IInv, [Next]_vars
    PROVE  \/ QuietStep \/ Ends
           \/ \E r \in Requests : Inserts(r) \/ Rotates(r)
  BY InsertInserts, RotateFinishRotates, RevokeEnds, DeprovisionEnds,
     DeprovisionHumanEnds, ScimDeprovisionEnds, AutoExpiryEnds, CrashShape
     DEF Next, vars, QuietStep, Register, Delegate, RotateStart, Tick

\* An agent stays in the table, and ended once it is.
LEMMA EndedStaysEnded ==
    ASSUME IInv, [Next]_vars, NEW a \in Ids
    PROVE  /\ a \in Ids'
           /\ agents'[a].status = "active" => agents[a].status = "active"
<1>1. agents[a] \in Row /\ now \in Nat
  BY RegistryAssumption DEF IInv, TypeOK
<1>2. CASE QuietStep
  BY <1>2 DEF QuietStep, Ids
<1>3. CASE Ends
  BY <1>1, <1>3, EndedRowStatus DEF Ends, IInv, RevokedAtDatesEnd, Ids
<1>4. ASSUME NEW r \in Requests, Inserts(r)
      PROVE  a \in Ids' /\ agents'[a] = agents[a]
  BY <1>4 DEF Inserts, InsertedBy, IInv, PendingSound, Ids
<1>5. ASSUME NEW r \in Requests, Rotates(r)
      PROVE  a \in Ids' /\ agents'[a].status = agents[a].status
  BY <1>1, <1>5 DEF Rotates, RotatedBy, Row, Ids
<1> QED BY <1>2, <1>3, <1>4, <1>5, StepShapes

\* No step, those after an await included, makes an ended agent active.
THEOREM EndIsFinal == Spec => NeverReactivated
<1>1. IInv /\ [Next]_vars => [\A a \in Ids : agents'[a].status = "active"
                                   => agents[a].status = "active"]_vars
  BY EndedStaysEnded
<1> QED BY <1>1, Inductive, PTL DEF Spec, NeverReactivated

\* A step that leaves nothing active in a closed set, and every status outside
\* it as it was, takes the subtree of each agent it ends.
LEMMA ClosedSetEnds ==
    ASSUME NEW T, T \subseteq Ids,
           \A b \in Ids : agents[b].parent_id \in T => b \in T,
           \A b \in T : agents'[b].status # "active",
           \A b \in Ids \ T : agents'[b].status = agents[b].status,
           NEW a \in Ids, agents[a].status = "active",
           agents'[a].status # "active"
    PROVE  \A b \in Subtree(agents, {a}) : agents'[b].status # "active"
<1>1. {a} \subseteq T
  OBVIOUS
<1>2. Subtree(agents, {a}) \subseteq T
  BY <1>1, SubtreeLeast DEF Ids
<1> QED BY <1>2

\* Ending a subtree, or the agents of a human, ends a closed set: delegates
\* carry their parent's human.
LEMMA SubtreeIsClosed ==
    ASSUME NEW roots
    PROVE  /\ Subtree(agents, roots) \subseteq Ids
           /\ \A b \in Ids : agents[b].parent_id \in Subtree(agents, roots)
                              => b \in Subtree(agents, roots)
  BY SubtreeClosed DEF Children, Subtree, Ids

\* The agents of a human are closed under delegation, since delegates carry
\* their parent's human.
LEMMA HumanIsClosed ==
    ASSUME IInv, NEW h
    PROVE  LET T == {a \in Ids : agents[a].human = h}
           IN  \A b \in Ids : agents[b].parent_id \in T => b \in T
  BY RegistryAssumption
     DEF IInv, TypeOK, DelegationNarrows, AllRows, NarrowsParent

\* The statuses after ending a set of rows.
LEMMA UpdatedStatus ==
    ASSUME IInv, NEW S
    PROVE  \A a \in Ids :
              /\ a \in S =>
                    /\ Updated(S, RevokedRow)[a].status = "revoked"
                    /\ Updated(S, DeprovisionedRow)[a].status = "deprovisioned"
                    /\ Updated(S, ExpiredRow)[a].status = "expired"
              /\ a \notin S =>
                    /\ Updated(S, RevokedRow)[a] = agents[a]
                    /\ Updated(S, DeprovisionedRow)[a] = agents[a]
                    /\ Updated(S, ExpiredRow)[a] = agents[a]
<1> SUFFICES ASSUME NEW a \in Ids
             PROVE  /\ a \in S =>
                         /\ Updated(S, RevokedRow)[a].status = "revoked"
                         /\ Updated(S, DeprovisionedRow)[a].status
                               = "deprovisioned"
                         /\ Updated(S, ExpiredRow)[a].status = "expired"
                    /\ a \notin S =>
                         /\ Updated(S, RevokedRow)[a] = agents[a]
                         /\ Updated(S, DeprovisionedRow)[a] = agents[a]
                         /\ Updated(S, ExpiredRow)[a] = agents[a]
  OBVIOUS
<1>1. /\ agents[a] \in Row
      /\ RevokedRow(agents[a]).status = "revoked"
      /\ DeprovisionedRow(agents[a]).status = "deprovisioned"
      /\ ExpiredRow(agents[a]).status = "expired"
  BY DEF IInv, TypeOK, Row, RevokedRow, DeprovisionedRow, ExpiredRow
<1> QED BY <1>1 DEF Updated

\* What EndTakesSubtree says of one agent.
TakesSubtree(a) ==
    (agents[a].status = "active" /\ agents'[a].status # "active")
        => \A b \in Subtree(agents, {a}) : agents'[b].status # "active"

\* Revoking or deprovisioning a subtree takes the subtree of each agent it ends.
LEMMA SubtreeUpdateTakes ==
    ASSUME IInv, NEW roots, NEW a \in Ids,
           \/ agents' = Updated(Subtree(agents, roots), RevokedRow)
           \/ agents' = Updated(Subtree(agents, roots), DeprovisionedRow)
    PROVE  TakesSubtree(a)
<1> DEFINE T == Subtree(agents, roots)
<1>1. /\ \A b \in T : agents'[b].status # "active"
      /\ \A b \in Ids \ T : agents'[b].status = agents[b].status
  BY UpdatedStatus, SubtreeIsClosed
<1> HIDE DEF T
<1>2. T \subseteq Ids /\ \A b \in Ids : agents[b].parent_id \in T => b \in T
  BY SubtreeIsClosed DEF T
<1> QED BY <1>1, <1>2, ClosedSetEnds DEF TakesSubtree

\* Deprovisioning a human takes the subtree of each agent it ends.
LEMMA HumanUpdateTakes ==
    ASSUME IInv, NEW h, NEW a \in Ids,
           agents' = Updated(DeprovisionableOf(h), DeprovisionedRow)
    PROVE  TakesSubtree(a)
<1> DEFINE T == {b \in Ids : agents[b].human = h}
<1>1. /\ \A b \in T : agents'[b].status = "deprovisioned"
      /\ \A b \in Ids \ T : agents'[b].status = agents[b].status
  BY UpdatedStatus DEF DeprovisionableOf
<1>2. T \subseteq Ids /\ \A b \in Ids : agents[b].parent_id \in T => b \in T
  BY HumanIsClosed
<1> HIDE DEF T
<1> QED BY <1>1, <1>2, ClosedSetEnds DEF TakesSubtree

\* The expiry job takes the subtree of each agent it ends.
LEMMA ExpiryTakes ==
    ASSUME IInv, NEW a \in Ids, agents' = Updated(ExpirySet, ExpiredRow)
    PROVE  TakesSubtree(a)
<1> DEFINE T == Subtree(agents, Due)
<1>1. /\ \A b \in T : agents'[b].status # "active"
      /\ \A b \in Ids \ T : agents'[b].status = agents[b].status
  BY UpdatedStatus, SubtreeIsClosed DEF ExpirySet, ActiveIds
<1> HIDE DEF T
<1>2. T \subseteq Ids /\ \A b \in Ids : agents[b].parent_id \in T => b \in T
  BY SubtreeIsClosed DEF T
<1> QED BY <1>1, <1>2, ClosedSetEnds DEF TakesSubtree

\* An agent whose status is kept takes nothing with it.
LEMMA KeptStatusTakes ==
    ASSUME NEW a \in Ids, agents'[a].status = agents[a].status
    PROVE  TakesSubtree(a)
  BY DEF TakesSubtree

\* Whatever ends an agent ends the agents below it in the same step.
THEOREM EndsTakeSubtrees == Spec => EndTakesSubtree
<1>1. ASSUME IInv, [Next]_vars, NEW a \in Ids
      PROVE  TakesSubtree(a)
  <2> USE <1>1
  <2>1. agents[a] \in Row
    BY DEF IInv, TypeOK
  <2>2. CASE QuietStep
    BY <2>2, KeptStatusTakes DEF QuietStep
  <2>3. ASSUME NEW r \in Requests, Inserting(r), agents' = InsertedBy(r)
        PROVE  TakesSubtree(a)
    BY <2>3, KeptStatusTakes DEF InsertedBy, IInv, PendingSound
  <2>4. ASSUME NEW r \in Requests, agents' = RotatedBy(r)
        PROVE  TakesSubtree(a)
    <3>1. agents'[a].status = agents[a].status
      BY <2>1, <2>4 DEF RotatedBy, Row, Ids
    <3> QED BY <3>1, KeptStatusTakes
  <2>5. CASE Crash
    BY <2>2, <2>3, <2>4, <2>5, SubtreeUpdateTakes, HumanUpdateTakes
       DEF Crash, TornWrite, RevokeSet, QuietStep
  <2>6. CASE \/ \E c \in AgentIds : Revoke(c) \/ Deprovision(c)
             \/ \E h \in Humans : ScimDeprovision(h)
    BY <2>6, SubtreeUpdateTakes
       DEF Revoke, RevokeSet, Deprovision, ScimDeprovision
  <2>7. CASE \E h \in Humans : DeprovisionHuman(h)
    BY <2>7, HumanUpdateTakes DEF DeprovisionHuman
  <2>8. CASE AutoExpiry
    BY <2>8, ExpiryTakes DEF AutoExpiry
  <2>9. CASE \E r \in Requests : Insert(r) \/ RotateFinish(r)
    BY <2>3, <2>4, <2>9 DEF Insert, RotateFinish
  <2> QED BY <2>2, <2>5, <2>6, <2>7, <2>8, <2>9
          DEF Next, vars, QuietStep, Register, Delegate, RotateStart, Tick
<1>2. IInv /\ [Next]_vars
        => [\A a \in Ids :
              (agents[a].status = "active" /\ agents'[a].status # "active")
                  => \A b \in Subtree(agents, {a}) :
                        agents'[b].status # "active"]_vars
  BY <1>1 DEF TakesSubtree
<1> QED BY <1>2, Inductive, PTL DEF Spec, EndTakesSubtree

\* Deprovisioning a human reaches every agent that descends from the human's,
\* though the handler walks no tree.
THEOREM HumanDeprovisionReachesAll == Spec => HumanDeprovisionComplete
<1>1. ASSUME IInv, NEW h \in Humans, DeprovisionHuman(h),
             NEW b \in Subtree(agents, {a \in Ids : agents[a].human = h})
      PROVE  agents'[b].status = "deprovisioned"
  <2> DEFINE T == {a \in Ids : agents[a].human = h}
  <2>1. Subtree(agents, T) \subseteq T
    BY <1>1, HumanIsClosed, SubtreeLeast DEF Ids
  <2>2. b \in T
    BY <1>1, <2>1
  <2> QED BY <1>1, <2>2, UpdatedStatus DEF DeprovisionHuman, DeprovisionableOf
<1>2. IInv /\ [Next]_vars
        => [\A h \in Humans : DeprovisionHuman(h) =>
              \A b \in Subtree(agents, {a \in Ids : agents[a].human = h}) :
                  agents'[b].status = "deprovisioned"]_vars
  BY <1>1
<1> QED BY <1>2, Inductive, PTL DEF Spec, HumanDeprovisionComplete

\* Entries are only added.
LEMMA LogGrows ==
    ASSUME NEW S, NEW action
    PROVE  /\ audit \subseteq Log(S, action)
           /\ \A a \in S : [agent |-> a, action |-> action] \in Log(S, action)
  BY DEF Log

\* A step that expires no agent keeps the expired ones logged.
LEMMA NoNewExpiry ==
    ASSUME ExpiryIsAudited, audit \subseteq audit',
           \A a \in Ids' : agents'[a].status = "expired"
                            => a \in Ids /\ agents[a].status = "expired"
    PROVE  ExpiryIsAudited'
  BY DEF ExpiryIsAudited

\* An end is final, and no way of ending an agent, or the agents of a human, leaves
\* out a descendant.
THEOREM EndsReachAll == Spec => EndsAreFinal
<1> QED BY EndIsFinal, EndsTakeSubtrees, HumanDeprovisionReachesAll DEF EndsAreFinal

\* Status 'expired' and the entry 'auto_expired' come in one transaction.
THEOREM ExpiryLogged == Spec => []ExpiryIsAudited
<1>1. Init => ExpiryIsAudited
  BY DEF Init, ExpiryIsAudited, Ids
<1>2. ASSUME IInv, ExpiryIsAudited, [Next]_vars
      PROVE  ExpiryIsAudited'
  <2> USE <1>2
  <2>1. \A a \in Ids : agents[a] \in Row
    BY DEF IInv, TypeOK
  <2>2. ASSUME UNCHANGED agents, UNCHANGED audit
        PROVE  ExpiryIsAudited'
    BY <2>2 DEF ExpiryIsAudited, Ids
  <2>3. ASSUME NEW r \in Requests, Inserting(r), agents' = InsertedBy(r),
               audit \subseteq audit'
        PROVE  ExpiryIsAudited'
    <3>1. pending[r].row.status = "active"
      BY <2>3 DEF IInv, PendingSound
    <3>2. \A a \in Ids' : \/ a = pending[r].id /\ agents'[a] = pending[r].row
                          \/ a \in Ids /\ agents'[a] = agents[a]
      BY <2>3 DEF InsertedBy, Ids
    <3> QED BY <2>3, <3>1, <3>2, NoNewExpiry
  <2>4. ASSUME NEW r \in Requests, agents' = RotatedBy(r),
               audit \subseteq audit'
        PROVE  ExpiryIsAudited'
    <3>1. Ids' = Ids /\ \A a \in Ids : agents'[a].status = agents[a].status
      BY <2>1, <2>4 DEF RotatedBy, Row, Ids
    <3> QED BY <2>4, <3>1, NoNewExpiry
  <2>5. ASSUME NEW S, audit \subseteq audit',
               \/ agents' = Updated(S, RevokedRow)
               \/ agents' = Updated(S, DeprovisionedRow)
        PROVE  ExpiryIsAudited'
    <3>1. Ids' = Ids
      BY <2>5 DEF Updated, Ids
    <3>2. \A a \in Ids : agents'[a].status = "expired"
                          => agents[a].status = "expired"
      BY <2>5, UpdatedStatus
    <3> QED BY <2>5, <3>1, <3>2, NoNewExpiry
  <2>6. CASE AutoExpiry
    <3>1. Ids' = Ids
      BY <2>6 DEF AutoExpiry, Updated, Ids
    <3>2. \A a \in Ids \ ExpirySet : agents'[a] = agents[a]
      BY <2>6, UpdatedStatus DEF AutoExpiry
    <3>3. /\ audit \subseteq audit'
          /\ \A a \in ExpirySet :
                [agent |-> a, action |-> "auto_expired"] \in audit'
      BY <2>6, LogGrows DEF AutoExpiry, LoggedExpiries
    <3> QED BY <3>1, <3>2, <3>3 DEF ExpiryIsAudited
  <2>7. CASE Crash
    <3>1. \A S, action : audit' = Log(S, action) => audit \subseteq audit'
      BY LogGrows
    <3> QED BY <2>2, <2>3, <2>4, <2>5, <2>7, <3>1 DEF Crash, TornWrite
  <2>8. CASE \E r \in Requests : Insert(r) \/ RotateFinish(r)
    BY <2>3, <2>4, <2>8, LogGrows DEF Insert, RotateFinish
  <2>9. CASE \E a \in AgentIds : Revoke(a) \/ Deprovision(a)
    BY <2>5, <2>9, LogGrows DEF Revoke, Deprovision
  <2>10. CASE \E h \in Humans : DeprovisionHuman(h) \/ ScimDeprovision(h)
    BY <2>5, <2>10, LogGrows DEF DeprovisionHuman, ScimDeprovision
  <2> QED BY <2>2, <2>6, <2>7, <2>8, <2>9, <2>10
          DEF Next, vars, Register, Delegate, RotateStart, Tick
<1> QED BY <1>1, <1>2, Inductive, PTL DEF Spec

-----------------------------------------------------------------------------
(* What the registry answers about the tree.  An agent's ancestry, found       *)
(* upwards, has one root, and its size is the agent's depth and one: by        *)
(* induction on the depth.                                                     *)

\* A root has depth 0, a delegate is one deeper than its parent, of its human.
LEMMA RowsMakeATree ==
    ASSUME IInv
    PROVE  \A a \in Ids :
              /\ agents[a] \in Row /\ agents[a].depth \in Nat
              /\ agents[a].parent_id \notin Ids => agents[a].parent_id = Null
              /\ agents[a].parent_id = Null =>
                    agents[a].parent_id \notin Ids /\ agents[a].depth = 0
              /\ agents[a].parent_id \in Ids =>
                    /\ agents[a].human = agents[agents[a].parent_id].human
                    /\ agents[a].depth = agents[agents[a].parent_id].depth + 1
<1> SUFFICES ASSUME NEW a \in Ids
             PROVE  /\ agents[a] \in Row /\ agents[a].depth \in Nat
                    /\ agents[a].parent_id \notin Ids => agents[a].parent_id = Null
                    /\ agents[a].parent_id = Null =>
                          agents[a].parent_id \notin Ids /\ agents[a].depth = 0
                    /\ agents[a].parent_id \in Ids =>
                          /\ agents[a].human = agents[agents[a].parent_id].human
                          /\ agents[a].depth = agents[agents[a].parent_id].depth + 1
  OBVIOUS
<1>1. agents[a] \in Row /\ Ids \subseteq AgentIds
  BY DEF IInv, TypeOK
<1>2. agents[a] \in AllRows
  BY DEF AllRows
<1>3. NarrowsParent(agents[a]) /\ (agents[a].parent_id = Null => agents[a].depth = 0)
  BY <1>2 DEF IInv, DelegationNarrows, DepthBounded
<1>4. Null \notin Ids
  BY <1>1, RegistryAssumption
<1> QED BY <1>1, <1>3, <1>4 DEF NarrowsParent, Row

\* The ancestry is closed upwards, and least.
LEMMA AncestryCloses ==
    ASSUME NEW a \in Ids
    PROVE  /\ Ancestry(a) \subseteq Ids /\ a \in Ancestry(a)
           /\ UpwardClosed(Ancestry(a))
<1>1. Ancestry(a) \subseteq Ids /\ a \in Ancestry(a)
  BY DEF Ancestry
<1>2. ASSUME NEW b \in Ancestry(a), agents[b].parent_id \in Ids
      PROVE  agents[b].parent_id \in Ancestry(a)
  BY <1>2 DEF Ancestry, UpwardClosed
<1> QED BY <1>1, <1>2 DEF UpwardClosed

\* The ancestry of an agent is within every set that holds it and is closed upwards.
LEMMA AncestryLeast ==
    ASSUME NEW a \in Ids, NEW S \in SUBSET Ids, a \in S, UpwardClosed(S)
    PROVE  Ancestry(a) \subseteq S
  BY DEF Ancestry

\* The ancestry of a root, and that of a delegate.
LEMMA AncestryGrows ==
    ASSUME NEW a \in Ids
    PROVE  Ancestry(a) = IF agents[a].parent_id \in Ids
                         THEN {a} \cup Ancestry(agents[a].parent_id) ELSE {a}
<1>1. CASE agents[a].parent_id \notin Ids
  <2>1. UpwardClosed({a})
    BY <1>1 DEF UpwardClosed
  <2>2. Ancestry(a) \subseteq {a}
    BY <2>1, AncestryLeast
  <2> QED BY <1>1, <2>2, AncestryCloses
<1>2. CASE agents[a].parent_id \in Ids
  <2> DEFINE p == agents[a].parent_id
             S == {a} \cup Ancestry(p)
  <2>1. /\ Ancestry(p) \subseteq Ids /\ p \in Ancestry(p)
        /\ UpwardClosed(Ancestry(p))
    BY <1>2, AncestryCloses
  <2>2. UpwardClosed(S) /\ S \in SUBSET Ids /\ a \in S
    BY <2>1 DEF UpwardClosed
  <2>3. Ancestry(a) \subseteq S
    <3> HIDE DEF S
    <3> QED BY <2>2, AncestryLeast
  <2>4. a \in Ancestry(a) /\ p \in Ancestry(a) /\ UpwardClosed(Ancestry(a))
        /\ Ancestry(a) \subseteq Ids
    BY <1>2, AncestryCloses DEF UpwardClosed
  <2>5. Ancestry(p) \subseteq Ancestry(a)
    <3> HIDE DEF p
    <3> QED BY <2>4, AncestryLeast
  <2> QED BY <1>2, <2>3, <2>4, <2>5
<1> QED BY <1>1, <1>2

\* Who is above is less deep, and of the same human.
LEMMA AncestryRises ==
    ASSUME IInv, NEW a \in Ids
    PROVE  \A b \in Ancestry(a) :
              /\ b = a \/ agents[b].depth < agents[a].depth
              /\ agents[b].human = agents[a].human
<1> DEFINE S == {b \in Ids : /\ b = a \/ agents[b].depth < agents[a].depth
                             /\ agents[b].human = agents[a].human}
<1>1. UpwardClosed(S)
  BY RowsMakeATree DEF UpwardClosed
<1>2. S \in SUBSET Ids /\ a \in S
  OBVIOUS
<1>3. Ancestry(a) \subseteq S
  <2> HIDE DEF S
  <2> QED BY <1>1, <1>2, AncestryLeast
<1> QED BY <1>3

\* A chain is a sequence of ids.
LEMMA ChainLength ==
    ASSUME NEW n \in Nat, NEW S, NEW chain \in [1..n -> S]
    PROVE  chain \in Seq(S) /\ Len(chain) = n
<1>1. chain \in Seq(S)
  BY SeqDef
<1>2. Len(chain) \in Nat /\ 1..Len(chain) = 1..n
  BY <1>1, LenProperties
<1>3. Len(chain) = n
  BY <1>2
<1> QED BY <1>1, <1>3

\* There is a chain, and each begins at the only root above.
WellRead(a) ==
    LET n == agents[a].depth + 1
    IN  /\ IsFiniteSet(Ancestry(a)) /\ Cardinality(Ancestry(a)) = n
        /\ \E chain \in [1..n -> Ancestry(a)] : LeadsTo(chain, a)
        /\ \A chain \in [1..n -> Ids] : LeadsTo(chain, a) =>
              /\ agents[chain[1]].parent_id = Null
              /\ \A b \in Ancestry(a) : agents[b].parent_id = Null => b = chain[1]

\* The chain of an agent without a parent is the agent alone.
LEMMA RootIsWellRead ==
    ASSUME IInv, NEW a \in Ids, agents[a].parent_id = Null
    PROVE  WellRead(a)
<1>1. agents[a].depth = 0 /\ agents[a].parent_id \notin Ids
  BY RowsMakeATree
<1>2. Ancestry(a) = {a}
  BY <1>1, AncestryGrows
<1>3. IsFiniteSet({a}) /\ Cardinality({a}) = 1
  BY FS_Singleton
<1> DEFINE c == [i \in 1..1 |-> a]
<1>4. c \in [1..1 -> {a}] /\ LeadsTo(c, a)
  <2>1. c \in [1..1 -> {a}] /\ c[1] = a
    OBVIOUS
  <2> HIDE DEF c
  <2>2. Len(c) = 1
    BY <2>1, ChainLength
  <2> QED BY <2>1, <2>2 DEF LeadsTo
<1>5. ASSUME NEW chain \in [1..1 -> Ids], LeadsTo(chain, a)
      PROVE  chain[1] = a
  <2>1. Len(chain) = 1
    BY ChainLength
  <2> QED BY <1>5, <2>1 DEF LeadsTo
<1>6. \E chain \in [1..1 -> {a}] : LeadsTo(chain, a)
  BY <1>4
<1> QED BY <1>1, <1>2, <1>3, <1>5, <1>6 DEF WellRead

\* The chain of a delegate is that of its parent with the delegate at the end.
LEMMA ChildIsWellRead ==
    ASSUME IInv, NEW a \in Ids, agents[a].parent_id \in Ids,
           WellRead(agents[a].parent_id)
    PROVE  WellRead(a)
<1>1. PICK p \in Ids : p = agents[a].parent_id
  OBVIOUS
<1>2. PICK n \in Nat \ {0} : agents[p].depth + 1 = n
  BY <1>1, RowsMakeATree
<1>3. agents[a].depth = n /\ agents[p].depth < agents[a].depth /\ p # Null
  BY <1>1, <1>2, RowsMakeATree
<1>4. Ancestry(a) = {a} \cup Ancestry(p)
  BY <1>1, AncestryGrows
<1>5. /\ IsFiniteSet(Ancestry(p)) /\ Cardinality(Ancestry(p)) = n
      /\ \E chain \in [1..n -> Ancestry(p)] : LeadsTo(chain, p)
      /\ \A chain \in [1..n -> Ids] : LeadsTo(chain, p) =>
            /\ agents[chain[1]].parent_id = Null
            /\ \A b \in Ancestry(p) : agents[b].parent_id = Null => b = chain[1]
  BY <1>1, <1>2 DEF WellRead
<1>6. a \notin Ancestry(p)
  <2>1. \A b \in Ancestry(p) : b = p \/ agents[b].depth < agents[p].depth
    BY AncestryRises
  <2> QED BY <1>2, <1>3, <2>1, RowsMakeATree
<1>7. IsFiniteSet(Ancestry(a)) /\ Cardinality(Ancestry(a)) = n + 1
  BY <1>4, <1>5, <1>6, FS_AddElement
<1>8. \E chain \in [1..(n + 1) -> Ancestry(a)] : LeadsTo(chain, a)
  <2>1. PICK c \in [1..n -> Ancestry(p)] : LeadsTo(c, p)
    BY <1>5
  <2>2. c[n] = p /\ \A i \in 1..(n - 1) : c[i] = agents[c[i + 1]].parent_id
    BY <2>1, ChainLength DEF LeadsTo
  <2> DEFINE d == [i \in 1..(n + 1) |-> IF i = n + 1 THEN a ELSE c[i]]
  <2>3. d \in [1..(n + 1) -> Ancestry(a)]
    BY <1>4
  <2>4. d[n + 1] = a /\ \A i \in 1..n : d[i] = c[i]
    OBVIOUS
  <2> HIDE DEF d
  <2>5. Len(d) = n + 1
    BY <2>3, ChainLength
  <2>6. ASSUME NEW i \in 1..n
        PROVE  d[i] = agents[d[i + 1]].parent_id
    <3>1. CASE i = n
      BY <1>1, <2>2, <2>4, <3>1
    <3>2. CASE i # n
      <4>1. i \in 1..(n - 1) /\ i + 1 \in 1..n
        BY <3>2
      <4> QED BY <2>2, <2>4, <4>1
    <3> QED BY <3>1, <3>2
  <2>7. LeadsTo(d, a)
    BY <2>4, <2>5, <2>6 DEF LeadsTo
  <2> QED BY <2>3, <2>7
<1>9. ASSUME NEW chain \in [1..(n + 1) -> Ids], LeadsTo(chain, a)
      PROVE  /\ agents[chain[1]].parent_id = Null
             /\ \A b \in Ancestry(a) : agents[b].parent_id = Null => b = chain[1]
  <2>1. /\ chain[n + 1] = a
        /\ \A i \in 1..n : chain[i] = agents[chain[i + 1]].parent_id
    BY <1>9, ChainLength DEF LeadsTo
  <2> DEFINE c == [i \in 1..n |-> chain[i]]
  <2>2. c \in [1..n -> Ids] /\ \A i \in 1..n : c[i] = chain[i]
    OBVIOUS
  <2> HIDE DEF c
  <2>3. Len(c) = n
    BY <2>2, ChainLength
  <2>4. c[n] = p
    BY <1>1, <2>1, <2>2
  <2>5. ASSUME NEW i \in 1..(n - 1)
        PROVE  c[i] = agents[c[i + 1]].parent_id
    <3>1. i \in 1..n /\ i + 1 \in 1..n
      OBVIOUS
    <3> QED BY <2>1, <2>2, <3>1
  <2>6. LeadsTo(c, p) /\ c[1] = chain[1]
    BY <2>2, <2>3, <2>4, <2>5 DEF LeadsTo
  <2> QED BY <1>1, <1>3, <1>4, <1>5, <2>2, <2>6
<1> QED BY <1>3, <1>7, <1>8, <1>9 DEF WellRead

\* By induction on the depth
LEMMA AllAreWellRead ==
    ASSUME IInv
    PROVE  \A a \in Ids : WellRead(a)
<1> DEFINE T == {agents[a].depth : a \in {b \in Ids : ~WellRead(b)}}
<1> SUFFICES ASSUME T # {} PROVE FALSE
  OBVIOUS
<1>1. T \subseteq Nat
  BY RowsMakeATree
<1> HIDE DEF T
<1>2. \E x \in T : \A y \in T : <<y, x>> \notin OpToRel(<, Nat)
  BY <1>1, NatLessThanWellFounded, WFMin
<1>3. PICK m \in T : \A y \in T : ~(y < m)
  BY <1>1, <1>2 DEF OpToRel
<1>4. PICK a \in Ids : ~WellRead(a) /\ agents[a].depth = m
  BY <1>3 DEF T
<1>5. agents[a].parent_id \in Ids
  BY <1>4, RootIsWellRead, RowsMakeATree
<1>6. agents[agents[a].parent_id].depth < m
  BY <1>4, <1>5, RowsMakeATree
<1>7. ~WellRead(agents[a].parent_id)
  BY <1>4, <1>5, ChildIsWellRead
<1>8. agents[agents[a].parent_id].depth \in T
  BY <1>5, <1>7 DEF T
<1> QED BY <1>3, <1>6, <1>8

\* The chain that is shown begins at the only root above the agent.
LEMMA ChainIsAncestry ==
    ASSUME IInv, NEW a \in Ids
    PROVE  /\ DelegationChain(a) \in Seq(Ids)
           /\ Len(DelegationChain(a)) = agents[a].depth + 1
           /\ Members(DelegationChain(a)) \subseteq Ancestry(a)
           /\ Head(DelegationChain(a)) \in Ancestry(a)
           /\ agents[Head(DelegationChain(a))].parent_id = Null
           /\ \A b \in Ancestry(a) :
                 agents[b].parent_id = Null => b = Head(DelegationChain(a))
<1>1. PICK n \in Nat \ {0} : n = agents[a].depth + 1
  BY RowsMakeATree
<1>2. /\ Cardinality(Ancestry(a)) = n
      /\ \E chain \in [1..n -> Ancestry(a)] : LeadsTo(chain, a)
      /\ \A chain \in [1..n -> Ids] : LeadsTo(chain, a) =>
            /\ agents[chain[1]].parent_id = Null
            /\ \A b \in Ancestry(a) : agents[b].parent_id = Null => b = chain[1]
  BY <1>1, AllAreWellRead DEF WellRead
<1>3. DelegationChain(a) = CHOOSE chain \in [1..n -> Ancestry(a)] : LeadsTo(chain, a)
  BY <1>2 DEF DelegationChain
<1>4. PICK c : c = DelegationChain(a)
  OBVIOUS
<1>5. c \in [1..n -> Ancestry(a)] /\ LeadsTo(c, a)
  BY <1>2, <1>3, <1>4
<1>6. Ancestry(a) \subseteq Ids
  BY AncestryCloses
<1>7. c \in [1..n -> Ids]
  BY <1>5, <1>6
<1>8. c \in Seq(Ids) /\ Len(c) = n
  BY <1>7, ChainLength
<1>9. Head(c) = c[1] /\ c[1] \in Ancestry(a) /\ Members(c) \subseteq Ancestry(a)
  BY <1>5, <1>8 DEF Members
<1> QED BY <1>1, <1>2, <1>4, <1>5, <1>7, <1>8, <1>9

\* Down from r one comes to a if going up from a leads to r: also over the rows
\* of a part of the table that has the ancestry of each of its rows.
LEMMA DownIsUp ==
    ASSUME NEW S \in SUBSET Ids, UpwardClosed(S), NEW a \in S, NEW r \in S
    PROVE  /\ a \in ChainNodes(S, r) <=> r \in Ancestry(a)
           /\ ChainNodes(S, r) \subseteq S
<1> DEFINE table == [b \in S |-> agents[b]]
           nodes == Subtree(table, {r})
<1>1. DOMAIN table = S /\ \A b \in S : table[b] = agents[b]
  OBVIOUS
<1> HIDE DEF table
<1>2. nodes \subseteq S /\ r \in nodes
  BY <1>1, SubtreeHasRoots DEF Subtree
<1>3. \A b \in S : agents[b].parent_id \in nodes => b \in nodes
  BY <1>1, SubtreeClosed DEF Children
<1>4. ASSUME a \in nodes PROVE r \in Ancestry(a)
  <2> DEFINE T == {b \in S : r \in Ancestry(b)}
  <2>1. T \subseteq DOMAIN table /\ {r} \subseteq T
    BY <1>1, AncestryCloses
  <2>2. \A b \in DOMAIN table : table[b].parent_id \in T => b \in T
    BY <1>1, AncestryGrows
  <2>3. nodes \subseteq T
    <3> HIDE DEF T
    <3> QED BY <2>1, <2>2, SubtreeLeast
  <2> QED BY <1>4, <2>3
<1>5. ASSUME r \in Ancestry(a) PROVE a \in nodes
  <2> DEFINE U == {b \in S : b \in nodes => a \in nodes}
  <2>1. a \in U /\ U \in SUBSET Ids
    OBVIOUS
  <2>2. UpwardClosed(U)
    BY <1>3 DEF UpwardClosed
  <2>3. Ancestry(a) \subseteq U
    <3> HIDE DEF U
    <3> QED BY <2>1, <2>2, AncestryLeast
  <2> QED BY <1>2, <1>5, <2>3
<1>6. nodes = ChainNodes(S, r)
  BY DEF ChainNodes, table
<1> QED BY <1>2, <1>4, <1>5, <1>6

\* The rows of a report have their ancestry in it.
LEMMA CollectedIsClosed ==
    ASSUME IInv, NEW h
    PROVE  /\ Collected(h, Null) \in SUBSET Ids
           /\ UpwardClosed(Collected(h, Null))
           /\ Collected(Null, Null) = Ids
           /\ \A a \in Collected(h, Null) : Ancestry(a) \subseteq Collected(h, Null)
<1>1. Collected(h, Null) = {a \in Ids : h # Null => agents[a].human = h}
  BY DEF Collected, ListAgents
<1>2. Collected(Null, Null) = Ids
  BY DEF Collected, ListAgents
<1>3. UpwardClosed(Collected(h, Null))
  BY <1>1, RowsMakeATree DEF UpwardClosed
<1> QED BY <1>1, <1>2, <1>3, AncestryLeast

\* Whatever was ended, expired or inserted late: the chain routes, the depth of
\* the row and the report's walk down tell the same tree.
THEOREM AnswersAgree == Spec => []ChainsAgree
<1>1. ASSUME IInv, NEW h \in Humans \cup {Null}, NEW a \in Collected(h, Null)
      PROVE  /\ agents[Head(ChainAnswer(a).chain)].parent_id = Null
             /\ ChainAnswer(a).root_human = agents[a].human
             /\ ChainAnswer(a).depth = agents[a].depth
             /\ {c.root : c \in {d \in DelegationChains(Collected(h, Null)) :
                                      a \in d.nodes}} = {Head(ChainAnswer(a).chain)}
  <2> DEFINE S == Collected(h, Null)
             root == Head(DelegationChain(a))
             audits == DelegationChains(S)
  <2>1. S \in SUBSET Ids /\ UpwardClosed(S) /\ Ancestry(a) \subseteq S /\ a \in Ids
    BY <1>1, CollectedIsClosed
  <2>2. /\ Len(DelegationChain(a)) = agents[a].depth + 1
        /\ root \in Ancestry(a) /\ agents[root].parent_id = Null
        /\ \A b \in Ancestry(a) : agents[b].parent_id = Null => b = root
    BY <1>1, <2>1, ChainIsAncestry
  <2>3. agents[root].human = agents[a].human /\ agents[a].depth \in Nat
    BY <1>1, <2>1, <2>2, AncestryRises, RowsMakeATree
  <2>4. /\ ChainAnswer(a).chain = DelegationChain(a)
        /\ ChainAnswer(a).root_human = agents[root].human
        /\ ChainAnswer(a).depth = Len(DelegationChain(a)) - 1
    BY DEF ChainAnswer
  <2>5. {c.root : c \in {d \in audits : a \in d.nodes}} =
            {r \in S : agents[r].parent_id = Null /\ a \in ChainNodes(S, r)}
    <3> HIDE DEF S
    <3>1. \A r : ChainAudit(S, r).root = r /\ ChainAudit(S, r).nodes = ChainNodes(S, r)
      BY DEF ChainAudit
    <3>2. audits = {ChainAudit(S, r) : r \in {b \in S : agents[b].parent_id = Null}}
      BY DEF DelegationChains
    <3> HIDE DEF audits
    <3> QED BY <3>1, <3>2
  <2>6. \A r \in S : a \in ChainNodes(S, r) <=> r \in Ancestry(a)
    <3>1. a \in S
      BY <1>1
    <3> HIDE DEF S
    <3> QED BY <2>1, <3>1, DownIsUp
  <2>7. {r \in S : agents[r].parent_id = Null /\ a \in ChainNodes(S, r)} = {root}
    <3> HIDE DEF S, root
    <3> QED BY <2>1, <2>2, <2>6
  <2>8. Head(ChainAnswer(a).chain) = root
    BY <2>4
  <2>9. ChainAnswer(a).depth = agents[a].depth
    <3> HIDE DEF root
    <3> QED BY <2>2, <2>3, <2>4
  <2>10. ChainAnswer(a).root_human = agents[a].human
    BY <2>3, <2>4
  <2> QED BY <2>2, <2>5, <2>7, <2>8, <2>9, <2>10
<1>2. IInv => ChainsAgree
  BY <1>1 DEF ChainsAgree
<1> QED BY <1>2, Inductive, PTL

\* An agent in a report on everyone has, when all chains narrow, no scope that is
\* missing above it.
LEMMA NarrowingReachesUp ==
    ASSUME IInv, \A c \in DelegationChains(Ids) : c.narrowing, NEW a \in Ids
    PROVE  \A b \in Ancestry(a) : agents[a].scope \subseteq agents[b].scope
<1> DEFINE U == {b \in Ids : agents[a].scope \subseteq agents[b].scope}
<1>1. ASSUME NEW b \in Ids, agents[b].parent_id \in Ids
      PROVE  agents[b].scope \subseteq agents[agents[b].parent_id].scope
  <2>1. PICK r \in Ids : r \in Ancestry(b) /\ agents[r].parent_id = Null
    BY ChainIsAncestry, AncestryCloses
  <2>2. UpwardClosed(Ids) /\ Ids \in SUBSET Ids
    BY DEF UpwardClosed
  <2>3. b \in ChainNodes(Ids, r)
    BY <2>1, <2>2, DownIsUp
  <2>4. ChainAudit(Ids, r) \in DelegationChains(Ids)
    BY <2>1 DEF DelegationChains
  <2>5. ChainAudit(Ids, r).narrowing = NarrowingValid(Ids, ChainNodes(Ids, r))
    BY DEF ChainAudit
  <2>6. NarrowingValid(Ids, ChainNodes(Ids, r))
    BY <2>4, <2>5
  <2> QED BY <1>1, <2>3, <2>6 DEF NarrowingValid
<1>2. UpwardClosed(U) /\ U \in SUBSET Ids /\ a \in U
  BY <1>1 DEF UpwardClosed
<1>3. Ancestry(a) \subseteq U
  <2> HIDE DEF U
  <2> QED BY <1>2, AncestryLeast
<1> QED BY <1>3

\* A rating COMPLIANT: nothing failed, no severe violation.  Any other rating has
\* its reason among the recommendations.
LEMMA PostureHasReasons ==
    ASSUME NEW S, NEW logged, NEW chains
    PROVE  LET violations == Violations(S, logged)
               failed == SOC2Failed(S, logged) \cup EUFailed(S, logged, chains)
           IN  IF Posture(violations, failed) = "COMPLIANT"
               THEN Wildcarded(S) = {} /\ \A c \in chains : c.narrowing
               ELSE Recommendations(violations, failed)
                       \ {"Maintain current compliance posture"} # {}
<1> DEFINE violations == Violations(S, logged)
           failed == SOC2Failed(S, logged) \cup EUFailed(S, logged, chains)
           severe(s) == \E v \in violations : v.severity = s
           none == "Maintain current compliance posture"
<1>1. none \notin failed
  BY DEF SOC2Failed, EUFailed
<1>2. \A v \in violations : v.category # none
  BY DEF Violations
<1>3. (\E c \in chains : ~c.narrowing) => "Art.14-2" \in failed
  BY DEF EUFailed
<1>4. Wildcarded(S) # {} => severe("high")
  <2> SUFFICES ASSUME NEW a \in Wildcarded(S) PROVE severe("high")
    OBVIOUS
  <2> DEFINE v == [severity |-> "high", category |-> "Scope", agent |-> a]
  <2>1. v \in violations
    BY DEF Violations
  <2>2. v.severity = "high"
    OBVIOUS
  <2> QED BY <2>1, <2>2
<1> HIDE DEF violations, failed
<1>5. CASE Posture(violations, failed) = "COMPLIANT"
  <2>1. failed = {} /\ ~severe("high")
    BY <1>5 DEF Posture
  <2> QED BY <1>3, <1>4, <1>5, <2>1 DEF violations, failed
<1>6. CASE Posture(violations, failed) # "COMPLIANT"
  <2>1. Cardinality({}) = 0
    BY FS_EmptySet
  <2>2. failed # {} \/ severe("critical") \/ severe("high")
    BY <1>6, <2>1 DEF Posture
  <2>3. ASSUME NEW c \in failed
        PROVE  c \in Recommendations(violations, failed) \ {none}
    BY <1>1 DEF Recommendations
  <2>4. ASSUME NEW v \in violations, v.severity \in {"critical", "high"}
        PROVE  v.category \in Recommendations(violations, failed) \ {none}
    BY <1>2, <2>4 DEF Recommendations
  <2>5. Recommendations(violations, failed) \ {none} # {}
    BY <2>2, <2>3, <2>4
  <2> QED BY <1>6, <2>5 DEF violations, failed
<1> QED BY <1>5, <1>6

\* What an auditor concludes from the rating COMPLIANT of a report on everyone
\* holds, and every other rating gives a reason.
THEOREM CompliantMeansNarrow == Spec => []CompliantIsNarrow
<1>1. ASSUME IInv, NEW logged \in PeriodLogs,
             ComplianceReport(Null, Null, logged).posture = "COMPLIANT",
             NEW a \in Ids, NEW tool \in Tools,
             \/ ExplainAllows(a, tool)
             \/ \E t \in tokens : HoldsToken(t, a) /\ VerifyAllows(t, tool),
             NEW b \in Members(Explain(a, Star).chain)
      PROVE  ExplainAllows(b, tool)
  <2>1. Collected(Null, Null) = Ids
    BY <1>1, CollectedIsClosed
  <2>2. Wildcarded(Ids) = {} /\ \A c \in DelegationChains(Ids) : c.narrowing
    BY <1>1, <2>1, PostureHasReasons DEF ComplianceReport
  <2>3. b \in Ancestry(a)
    BY <1>1, ChainIsAncestry DEF Explain
  <2>4. agents[a].scope \subseteq agents[b].scope
    BY <1>1, <2>2, <2>3, NarrowingReachesUp
  <2>5. Star \notin agents[a].scope
    BY <1>1, <2>2, ReadsAssumption DEF Wildcarded
  <2>6. tool \in agents[a].scope
    <3>1. CASE ExplainAllows(a, tool)
      BY <2>5, <3>1 DEF ExplainAllows
    <3>2. ASSUME NEW t \in tokens, HoldsToken(t, a), VerifyAllows(t, tool)
          PROVE  tool \in agents[a].scope
      <4>1. PICK x \in Ids : HoldsToken(t, x) /\ tool \in agents[x].scope
        BY <3>2 DEF VerifyAllows
      <4>2. x = a
        BY <1>1, <3>2, <4>1 DEF IInv, JtisUnique
      <4> QED BY <4>1, <4>2
    <3> QED BY <1>1, <3>1, <3>2
  <2> QED BY <2>4, <2>6 DEF ExplainAllows
<1>2. ASSUME IInv, NEW logged \in PeriodLogs,
             ComplianceReport(Null, Null, logged).posture # "COMPLIANT"
      PROVE  ComplianceReport(Null, Null, logged).recommendations
                \ {"Maintain current compliance posture"} # {}
  BY <1>2, PostureHasReasons DEF ComplianceReport
<1>3. IInv => CompliantIsNarrow
  BY <1>1, <1>2 DEF CompliantIsNarrow, ReportsOnEveryone
<1> QED BY <1>3, Inductive, PTL

\* What is granted to an agent was passed on by everyone above it, in the name of
\* the same human, at the same risk, and for no longer than they last.
LEMMA AuthorityComesDown ==
    ASSUME IInv, NEW a \in Ids
    PROVE  \A b \in Ancestry(a) :
              \/ b = a
              \/ /\ agents[a].scope \cup agents[a].can_delegate
                       \subseteq agents[b].can_delegate
                 /\ agents[b].human = agents[a].human
                 /\ agents[b].risk = agents[a].risk
                 /\ agents[a].expires_at <= agents[b].expires_at
<1> DEFINE Above(b) == /\ agents[a].scope \cup agents[a].can_delegate
                            \subseteq agents[b].can_delegate
                       /\ agents[b].human = agents[a].human
                       /\ agents[b].risk = agents[a].risk
                       /\ agents[a].expires_at <= agents[b].expires_at
           S == {b \in Ids : b = a \/ Above(b)}
<1>1. ASSUME NEW b \in S, agents[b].parent_id \in Ids
      PROVE  agents[b].parent_id \in S
  <2> DEFINE p == agents[b].parent_id
  <2>1. agents[b] \in AllRows /\ p # Null
    BY <1>1, RegistryAssumption DEF AllRows, IInv, TypeOK
  <2>2. /\ agents[b].human = agents[p].human /\ agents[b].risk = agents[p].risk
        /\ agents[b].scope \cup agents[b].can_delegate \subseteq agents[p].can_delegate
        /\ agents[b].expires_at <= agents[p].expires_at
    BY <2>1 DEF IInv, DelegationNarrows, NarrowsParent
  <2>3. /\ agents[a].expires_at \in Nat /\ agents[b].expires_at \in Nat
        /\ agents[p].expires_at \in Nat
    <3>1. agents[a] \in Row /\ agents[b] \in Row /\ agents[p] \in Row
      BY <1>1 DEF IInv, TypeOK
    <3> QED BY <3>1 DEF Row
  <2> HIDE DEF p
  <2>4. Above(p)
    <3>1. CASE b = a
      BY <2>2, <3>1
    <3>2. CASE Above(b)
      <4>1. agents[a].expires_at <= agents[p].expires_at
        BY <2>2, <2>3, <3>2
      <4> QED BY <2>2, <3>2, <4>1
    <3> QED BY <1>1, <3>1, <3>2
  <2> QED BY <1>1, <2>4 DEF p
<1>2. UpwardClosed(S)
  BY <1>1 DEF UpwardClosed
<1>3. S \in SUBSET Ids /\ a \in S
  OBVIOUS
<1>4. Ancestry(a) \subseteq S
  <2> HIDE DEF S
  <2> QED BY <1>2, <1>3, AncestryLeast
<1> QED BY <1>4

\* /api/verify looks at the caller's row alone, and still lets nothing through that
\* anyone above the caller could not have passed on, or that anyone above, ended
\* or not, was not to outlast.
THEOREM VerifiedCallsAreGranted == Spec => []VerifiedIsGranted
<1>1. ASSUME IInv, NEW t \in tokens, NEW a \in Ids, NEW tool \in Tools,
             HoldsToken(t, a), VerifyAllows(t, tool),
             NEW b \in Ancestry(a) \ {a}
      PROVE  /\ tool \in agents[b].can_delegate
             /\ agents[b].human = agents[a].human
             /\ agents[b].risk = agents[a].risk
             /\ now < agents[b].expires_at
  <2>1. PICK x \in Ids : HoldsToken(t, x) /\ tool \in agents[x].scope
    BY <1>1 DEF VerifyAllows
  <2>2. x = a /\ t.agent = a
    BY <1>1, <2>1 DEF IInv, JtisUnique
  <2>3. now < agents[a].expires_at
    BY <1>1, <2>2 DEF IInv, TokensEndWithAgent, VerifyAllows, TokenLive
  <2>4. b \in Ids
    BY <1>1, AncestryCloses
  <2>5. agents[a].expires_at \in Nat /\ agents[b].expires_at \in Nat /\ now \in Nat
    <3>1. agents[a] \in Row /\ agents[b] \in Row /\ now \in 0..MaxTime
      BY <1>1, <2>4 DEF IInv, TypeOK
    <3> QED BY <3>1, RegistryAssumption DEF Row
  <2>6. /\ agents[a].scope \cup agents[a].can_delegate \subseteq agents[b].can_delegate
        /\ agents[b].human = agents[a].human /\ agents[b].risk = agents[a].risk
        /\ agents[a].expires_at <= agents[b].expires_at
    BY <1>1, AuthorityComesDown
  <2> QED BY <2>1, <2>2, <2>3, <2>5, <2>6
<1>2. IInv => VerifiedIsGranted
  BY <1>1 DEF VerifiedIsGranted
<1> QED BY <1>2, Inductive, PTL

-----------------------------------------------------------------------------
(* The abstract specification of delegation *)

\* A row is a grant, and one that narrows its parent's is narrower than that.
LEMMA RowGrants ==
    ASSUME NEW row \in Row
    PROVE  /\ GrantOf(row) \in Delegation!Grant
           /\ \A p \in Row :
                 (/\ row.max_depth = p.max_depth
                  /\ row.depth = p.depth + 1 /\ row.depth <= row.max_depth
                  /\ row.scope \cup row.can_delegate \subseteq p.can_delegate
                  /\ row.expires_at <= p.expires_at)
                 => Delegation!Narrower(GrantOf(row), GrantOf(p))
<1>1. /\ row.parent_id \in AgentIds \cup {Null}
      /\ row.scope \subseteq Tools /\ row.can_delegate \subseteq Tools
      /\ row.depth \in Nat /\ row.max_depth \in Nat /\ row.expires_at \in Nat
  BY DEF Row
<1>2. row.max_depth - row.depth \in Int /\ row.expires_at \in Int /\ 0 \in Nat
  BY <1>1
<1>3. GrantOf(row) \in Delegation!Grant
  BY <1>1, <1>2 DEF GrantOf, Delegation!Grant
<1>4. ASSUME NEW p \in Row,
             row.max_depth = p.max_depth,
             row.depth = p.depth + 1, row.depth <= row.max_depth,
             row.scope \cup row.can_delegate \subseteq p.can_delegate,
             row.expires_at <= p.expires_at
      PROVE  Delegation!Narrower(GrantOf(row), GrantOf(p))
  <2>1. p.depth \in Nat /\ p.max_depth \in Nat /\ p.expires_at \in Nat
    BY DEF Row
  <2>2. /\ row.max_depth - row.depth = (p.max_depth - p.depth) - 1
        /\ row.max_depth - row.depth >= 0
        /\ row.expires_at <= p.expires_at + 0
    BY <1>1, <1>4, <2>1
  <2> HIDE DEF Row
  <2> QED BY <1>4, <2>2 DEF GrantOf, Delegation!Narrower
<1> QED BY <1>3, <1>4

\* What ends or rotates agents changes nothing of what they were granted.
LEMMA SameGrants ==
    ASSUME Ids' = Ids, \A a \in Ids : GrantOf(agents'[a]) = GrantOf(agents[a])
    PROVE  UNCHANGED AllGrants
  BY DEF AllGrants, GrantOf

\* A row that is inserted is a new grant, justified by the parent's row of now:
\* whatever was done to it since it was read, its grant is the same.
LEMMA InsertGrants ==
    ASSUME IInv, NEW r \in Requests, Inserts(r)
    PROVE  Delegation!Next
<1> DEFINE id == pending[r].id
           row == pending[r].row
<1>1. /\ id \in AgentIds \ Ids /\ row \in Row /\ Inserting(r)
      /\ agents' = InsertedBy(r) /\ \A a \in Ids : agents[a] \in Row
  <2>1. pending[r] \in [phase: {"inserting"}, id: AgentIds, row: Row]
    BY DEF IInv, TypeOK, Inserts, Inserting, PendingRequest, Idle
  <2>2. id \notin Ids
    BY DEF IInv, PendingSound, Inserts
  <2>3. agents \in [Ids -> Row]
    BY DEF IInv, TypeOK
  <2> QED BY <2>1, <2>2, <2>3 DEF Inserts
<1>2. NarrowsParent(row)
  BY <1>1 DEF IInv, DelegationNarrows, AllRows, RowsToCome
<1>3. row.parent_id = Null \/ row.parent_id \in Ids
  BY <1>2 DEF NarrowsParent
<1> HIDE DEF id, row
<1>4. /\ Ids' = Ids \cup {id}
      /\ \A a \in Ids : agents'[a] = agents[a]
      /\ agents'[id] = row
  BY <1>1 DEF InsertedBy, Ids, id, row
<1>5. /\ DOMAIN AllGrants = Ids
      /\ \A a \in Ids : AllGrants[a] = GrantOf(agents[a])
  BY DEF AllGrants
<1>6. AllGrants' = [a \in Ids \cup {id} |-> GrantOf(agents'[a])]
  BY <1>4 DEF AllGrants, GrantOf
<1>7. AllGrants' \in [Ids \cup {id} -> Delegation!Grant]
  <2>1. \A a \in Ids \cup {id} : GrantOf(agents'[a]) \in Delegation!Grant
    BY <1>1, <1>4, RowGrants
  <2> QED BY <1>6, <2>1
<1>8. /\ \A a \in Ids : AllGrants'[a] = AllGrants[a]
      /\ AllGrants'[id] = GrantOf(row)
  BY <1>4, <1>5, <1>6
<1>9. Delegation!Justified(GrantOf(row))
  <2>1. GrantOf(row).from = row.parent_id
    BY DEF GrantOf
  <2>2. CASE row.parent_id = Null
    BY <2>1, <2>2 DEF Delegation!Justified
  <2>3. CASE row.parent_id # Null
    <3>1. /\ row.parent_id \in Ids /\ agents[row.parent_id] \in Row
          /\ AllGrants[row.parent_id] = GrantOf(agents[row.parent_id])
      BY <1>1, <1>3, <1>5, <2>3
    <3>2. Delegation!Narrower(GrantOf(row), GrantOf(agents[row.parent_id]))
      BY <1>1, <1>2, <2>3, <3>1, RowGrants DEF NarrowsParent
    <3> QED BY <1>5, <2>1, <3>1, <3>2 DEF Delegation!Justified
  <2> QED BY <2>2, <2>3
<1>10. Delegation!Granting(id)
  BY <1>1, <1>5, <1>7, <1>8, <1>9 DEF Delegation!Granting
<1> QED BY <1>1, <1>10 DEF Delegation!Next

\* For any table: seen from scopes, depths and expiries, the registry grants
\* authority once, changes it never, and passes on only what may be passed on.
THEOREM RegistryImplementsDelegation == Spec => ImplementsDelegation
<1>1. Init => Delegation!Init
  <2> SUFFICES ASSUME Init
               PROVE  AllGrants \in [{} -> Delegation!Grant]
    BY DEF Delegation!Init
  <2>1. Ids = {}
    BY DEF Init, Ids
  <2> QED BY <2>1 DEF AllGrants
<1>2. ASSUME IInv, [Next]_vars
      PROVE  [Delegation!Next]_AllGrants
  <2>1. \A a \in Ids : agents[a] \in Row
    BY <1>2 DEF IInv, TypeOK
  <2>2. CASE QuietStep
    BY <2>2, SameGrants DEF QuietStep, Ids
  <2>3. CASE Ends
    <3>1. now \in Nat
      BY <1>2, RegistryAssumption DEF IInv, TypeOK
    <3>2. ASSUME NEW a \in Ids
          PROVE  GrantOf(agents'[a]) = GrantOf(agents[a])
      <4>1. EndedRow(agents[a], agents'[a])
        BY <2>3 DEF Ends
      <4> QED BY <2>1, <3>1, <4>1, EndedRowKeeps DEF GrantOf
    <3>3. Ids' = Ids
      BY <2>3 DEF Ends, Ids
    <3> QED BY <3>2, <3>3, SameGrants
  <2>4. ASSUME NEW r \in Requests, Rotates(r)
        PROVE  UNCHANGED AllGrants
    <3>1. agents' = RotatedBy(r)
      BY <2>4 DEF Rotates
    <3>2. Ids' = Ids
      BY <3>1 DEF RotatedBy, Ids
    <3>3. ASSUME NEW a \in Ids
          PROVE  GrantOf(agents'[a]) = GrantOf(agents[a])
      <4>1. \/ agents'[a] = agents[a]
            \/ agents'[a] = [agents[a] EXCEPT !.token_jti = pending[r].token_jti]
        BY <3>1 DEF RotatedBy, Ids
      <4>2. agents[a] \in Row
        BY <2>1
      <4> QED BY <4>1, <4>2 DEF GrantOf, Row
    <3> QED BY <3>2, <3>3, SameGrants
  <2> QED BY <1>2, <2>2, <2>3, <2>4, StepShapes, InsertGrants
<1> QED BY <1>1, <1>2, Inductive, PTL
        DEF Spec, ImplementsDelegation, Delegation!Spec

-----------------------------------------------------------------------------
(* Heartbeats and the staleness job beside the registry *)

\* The clock never goes back.
LEMMA ClockRises ==
    ASSUME IInv, [Next]_vars
    PROVE  now \in Nat /\ now' \in Nat /\ now <= now'
<1>1. now \in Nat
  BY RegistryAssumption DEF IInv, TypeOK
<1>2. now' = now \/ now' = now + 1
  BY DEF Next, vars, Register, Delegate, Insert, RotateStart, RotateFinish, Revoke,
         Deprovision, DeprovisionHuman, ScimDeprovision, AutoExpiry, Crash, Tick
<1> QED BY <1>1, <1>2

\* The heartbeats lie in the past, and so do the reports on their way, which are
\* about agents that are still in the table.
Beats == /\ DOMAIN lastSeen = Ids
         /\ \A a \in Ids : lastSeen[a] # Null => lastSeen[a] \in Nat /\ lastSeen[a] <= now
Sent == \A r \in sending : /\ r.at \in Nat /\ r.at <= now
                           /\ r.agents \subseteq r.known /\ r.known \subseteq Ids

LifecycleInv == IInv /\ Beats /\ Sent /\ ReportsTrue

\* A report that is true stays true when heartbeats come, the clock goes on and
\* agents are ended or inserted.
LEMMA ReportStaysTrue ==
    ASSUME LifecycleInv, NEW r \in sending,
           now' \in Nat, now <= now', Ids \subseteq Ids',
           \A a \in Ids : agents'[a].status = "active" => agents[a].status = "active",
           \A a \in Ids : lastSeen'[a] = lastSeen[a] \/ lastSeen'[a] = now
    PROVE  /\ r.at \in Nat /\ r.at <= now'
           /\ r.agents \subseteq r.known /\ r.known \subseteq Ids'
           /\ \A a \in r.agents : \/ lastSeen'[a] = Null
                                  \/ lastSeen'[a] + StaleAfter <= r.at
                                  \/ lastSeen'[a] >= r.at
           /\ \A a \in r.known \cap ActiveIds' :
                 (lastSeen'[a] = Null \/ lastSeen'[a] + StaleAfter <= r.at)
                     => a \in r.agents
<1>1. now \in Nat /\ StaleAfter \in Nat /\ Null \notin Nat
  BY RegistryAssumption, LifecycleAssumption DEF LifecycleInv, IInv, TypeOK
<1>2. /\ r.at \in Nat /\ r.at <= now
      /\ r.agents \subseteq r.known /\ r.known \subseteq Ids
  BY DEF LifecycleInv, Sent
<1>3. /\ \A a \in r.agents : \/ lastSeen[a] = Null
                             \/ lastSeen[a] + StaleAfter <= r.at
                             \/ lastSeen[a] >= r.at
      /\ \A a \in r.known \cap ActiveIds :
            (lastSeen[a] = Null \/ lastSeen[a] + StaleAfter <= r.at) => a \in r.agents
  BY DEF LifecycleInv, ReportsTrue
<1>4. ASSUME NEW a \in r.agents
      PROVE  \/ lastSeen'[a] = Null
             \/ lastSeen'[a] + StaleAfter <= r.at
             \/ lastSeen'[a] >= r.at
  <2>1. lastSeen'[a] = lastSeen[a] \/ lastSeen'[a] = now
    BY <1>2
  <2>2. CASE lastSeen'[a] = lastSeen[a]
    BY <1>3, <2>2
  <2>3. CASE lastSeen'[a] = now
    BY <1>2, <2>3
  <2> QED BY <2>1, <2>2, <2>3
<1>5. ASSUME NEW a \in r.known \cap ActiveIds',
             lastSeen'[a] = Null \/ lastSeen'[a] + StaleAfter <= r.at
      PROVE  a \in r.agents
  <2>1. a \in Ids /\ a \in ActiveIds
    BY <1>2 DEF ActiveIds
  <2>2. lastSeen[a] # Null => lastSeen[a] \in Nat /\ lastSeen[a] <= now
    BY <2>1 DEF LifecycleInv, Beats
  <2>3. CASE lastSeen'[a] = lastSeen[a]
    BY <1>3, <1>5, <2>1, <2>3
  <2>4. CASE lastSeen'[a] = now
    <3>1. lastSeen'[a] # Null
      BY <1>1, <2>4
    <3>2. StaleAfter = 0 /\ r.at = now
      BY <1>1, <1>2, <1>5, <2>4, <3>1
    <3>3. lastSeen[a] = Null \/ lastSeen[a] + StaleAfter <= r.at
      BY <2>2, <3>2
    <3> QED BY <1>3, <2>1, <3>3
  <2> QED BY <2>1, <2>3, <2>4
<1>6. r.known \subseteq Ids' /\ r.at <= now'
  BY <1>1, <1>2
<1> QED BY <1>2, <1>4, <1>5, <1>6

\* What is shown of the reports on their way holds of each of them.
LEMMA OldReportsStayTrue ==
    ASSUME LifecycleInv, IInv', Beats', sending' \subseteq sending,
           now' \in Nat, now <= now', Ids \subseteq Ids',
           \A a \in Ids : agents'[a].status = "active" => agents[a].status = "active",
           \A a \in Ids : lastSeen'[a] = lastSeen[a] \/ lastSeen'[a] = now
    PROVE  LifecycleInv'
<1>1. Sent' /\ ReportsTrue'
  BY ReportStaysTrue DEF Sent, ReportsTrue
<1> QED BY <1>1 DEF LifecycleInv

\* A step of the registry inserts agents that were never seen and touches no heartbeat.
LEMMA RegistryStepKeeps ==
    ASSUME LifecycleInv, [Next]_vars, sending' = sending,
           \/ lastSeen' = lastSeen /\ vars' = vars
           \/ lastSeen' = [a \in Ids' |-> IF a \in Ids THEN lastSeen[a] ELSE Null]
    PROVE  LifecycleInv'
<1>1. IInv /\ Beats
  BY DEF LifecycleInv
<1>2. IInv' /\ now \in Nat /\ now' \in Nat /\ now <= now'
  BY <1>1, NextIInv, ClockRises
<1>3. \A a \in Ids : /\ a \in Ids'
                     /\ agents'[a].status = "active" => agents[a].status = "active"
  BY <1>1, EndedStaysEnded
<1>4. /\ DOMAIN lastSeen' = Ids'
      /\ \A a \in Ids : lastSeen'[a] = lastSeen[a]
      /\ \A a \in Ids' \ Ids : lastSeen'[a] = Null
  BY <1>1, <1>3 DEF Beats, vars, Ids
<1>5. ASSUME NEW a \in Ids', lastSeen'[a] # Null
      PROVE  lastSeen'[a] \in Nat /\ lastSeen'[a] <= now'
  <2>1. a \in Ids /\ lastSeen'[a] = lastSeen[a]
    BY <1>4, <1>5
  <2> QED BY <1>1, <1>2, <1>5, <2>1 DEF Beats
<1>6. Beats'
  BY <1>4, <1>5 DEF Beats
<1> QED BY <1>2, <1>3, <1>4, <1>6, OldReportsStayTrue

\* A heartbeat sets last_seen_at to now, for an agent that is in the table.
LEMMA HeartbeatKeeps ==
    ASSUME LifecycleInv, NEW b \in AgentIds, Heartbeat(b)
    PROVE  LifecycleInv'
<1>1. [Next]_vars /\ Ids' = Ids /\ now' = now /\ agents' = agents
  BY DEF Heartbeat, vars, Ids
<1>2. IInv' /\ now \in Nat
  BY <1>1, NextIInv, ClockRises DEF LifecycleInv
<1>3. /\ DOMAIN lastSeen' = Ids
      /\ \A a \in Ids : lastSeen'[a] = IF a = b THEN now ELSE lastSeen[a]
  BY DEF LifecycleInv, Beats, Heartbeat, recordHeartbeat
<1>4. Beats'
  BY <1>1, <1>2, <1>3 DEF LifecycleInv, Beats
<1> QED BY <1>1, <1>2, <1>3, <1>4, OldReportsStayTrue DEF Heartbeat

\* The job reports who is silent by the clock it reads.
LEMMA StalenessJobKeeps ==
    ASSUME LifecycleInv, StalenessJob
    PROVE  LifecycleInv'
<1> DEFINE new == [at |-> now, agents |-> findStaleAgents(StaleAfter), known |-> Ids]
<1>1. /\ [Next]_vars /\ Ids' = Ids /\ now' = now /\ agents' = agents
      /\ lastSeen' = lastSeen /\ ActiveIds' = ActiveIds
      /\ sending' = sending \cup {new}
  BY DEF StalenessJob, vars, Ids, ActiveIds
<1>2. IInv' /\ now \in Nat /\ Beats /\ StaleAfter \in Nat
  BY <1>1, NextIInv, ClockRises, LifecycleAssumption DEF LifecycleInv
<1>3. Beats'
  BY <1>1, <1>2 DEF Beats
<1>4. new.at = now /\ new.agents = findStaleAgents(StaleAfter) /\ new.known = Ids
  OBVIOUS
<1> HIDE DEF new
<1>5. \A a \in findStaleAgents(StaleAfter) :
         a \in ActiveIds /\ (lastSeen[a] = Null \/ lastSeen[a] + StaleAfter <= now)
  BY DEF findStaleAgents, Silent
<1>6. \A a \in ActiveIds :
         (lastSeen[a] = Null \/ lastSeen[a] + StaleAfter <= now)
            => a \in findStaleAgents(StaleAfter)
  BY DEF findStaleAgents, Silent
<1>7. findStaleAgents(StaleAfter) \subseteq Ids
  BY <1>5 DEF ActiveIds
<1>8. Sent'
  BY <1>1, <1>2, <1>4, <1>7 DEF LifecycleInv, Sent
<1>9. ReportsTrue'
  BY <1>1, <1>4, <1>5, <1>6 DEF LifecycleInv, ReportsTrue
<1> QED BY <1>2, <1>3, <1>8, <1>9 DEF LifecycleInv

\* Beside heartbeats and reports the registry takes its own steps only, so that
\* what is proved of it holds there.
THEOREM LifecycleImplementsRegistry == LifecycleSpec => Spec
<1>1. LifecycleInit => Init
  BY DEF LifecycleInit
<1>2. [LifecycleNext]_allVars => [Next]_vars
  BY DEF LifecycleNext, allVars, RegistryStep, Heartbeat, StalenessJob, ReportEnds
<1> QED BY <1>1, <1>2, PTL DEF LifecycleSpec, Spec

\* What is under way between the staleness job and its receiver is always such a report.
THEOREM LifecycleInvariant == LifecycleSpec => []LifecycleInv
<1>1. LifecycleInit => LifecycleInv
  <2> SUFFICES ASSUME LifecycleInit PROVE LifecycleInv
    OBVIOUS
  <2>1. IInv /\ Ids = {}
    BY InitIInv DEF LifecycleInit, Init, Ids
  <2>2. Beats /\ sending = {}
    BY <2>1 DEF LifecycleInit, Beats
  <2> QED BY <2>1, <2>2 DEF LifecycleInv, Sent, ReportsTrue
<1>2. LifecycleInv /\ [LifecycleNext]_allVars => LifecycleInv'
  <2> SUFFICES ASSUME LifecycleInv, [LifecycleNext]_allVars PROVE LifecycleInv'
    OBVIOUS
  <2>1. CASE RegistryStep
    BY <2>1, RegistryStepKeeps DEF RegistryStep
  <2>2. ASSUME NEW r \in sending, ReportEnds(r) PROVE LifecycleInv'
    <3>1. [Next]_vars /\ Ids' = Ids /\ now' = now /\ agents' = agents
          /\ lastSeen' = lastSeen /\ sending' \subseteq sending
      BY <2>2 DEF ReportEnds, vars, Ids
    <3>2. IInv' /\ now \in Nat /\ Beats
      BY <3>1, NextIInv, ClockRises DEF LifecycleInv
    <3>3. Beats'
      BY <3>1, <3>2 DEF Beats
    <3> QED BY <3>1, <3>2, <3>3, OldReportsStayTrue
  <2>3. CASE UNCHANGED allVars
    BY <2>3, RegistryStepKeeps DEF allVars, lifecycleVars
  <2> QED BY <2>1, <2>2, <2>3, HeartbeatKeeps, StalenessJobKeeps DEF LifecycleNext
<1> QED BY <1>1, <1>2, PTL DEF LifecycleSpec

\* Late, overlapping and lost reports of the staleness job name exactly the agents
\* that were silent.
THEOREM ReportsAreTrue == LifecycleSpec => []ReportsTrue
<1>1. LifecycleInv => ReportsTrue
  BY DEF LifecycleInv
<1> QED BY <1>1, LifecycleInvariant, PTL
=============================================================================
