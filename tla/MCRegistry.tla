------------------------------ MODULE MCRegistry ------------------------------
(***************************************************************************)
(* Small instances of the registry for TLC.                                *)
(***************************************************************************)
EXTENDS RegistryReads, TLC

CONSTANTS a1, a2, a3, r1, r2, alice, bob, read, write, star

MCAgentIds == {a1, a2, a3}
MCRequests == {r1, r2}
MCSymmetry == Permutations(MCAgentIds) \cup Permutations(MCRequests)
\* No guard reads the audit entries: a run whose properties do not mention
\* them need not tell states apart by them.
WithoutAudit == <<agents, tokens, pending, nextJti, now>>
MCTools == {read, write, star}
MCWildcards == {star}

Body(h, v, s, cd, m, ttl, risk) ==
    [human |-> h, verified |-> v, scope |-> s, can_delegate |-> cd,
     max_depth |-> m, ttl |-> ttl, risk |-> risk]

\* Delegation over two levels, delegatable scopes outside the scope, high risk,
\* and bodies that the risk checks refuse.
MCRegistrations ==
    {Body(alice, FALSE, {read, write}, {read}, 2, 2, "minimal"),
     Body(bob, TRUE, {read}, {write}, 1, 1, "high"),
     Body(bob, FALSE, {read}, {}, 1, 1, "high"),
     Body(bob, TRUE, {read}, {}, 2, 1, "high"),
     Body(bob, TRUE, {star}, {}, 1, 1, "high"),
     Body(bob, TRUE, {read}, {}, 0, 1, "unacceptable")}
MCDelegations == {[requested_scope |-> {read, write}, ttl |-> 2]}
=============================================================================
