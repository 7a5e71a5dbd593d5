----------------------------- MODULE MCLifecycle -----------------------------
(***************************************************************************)
(* The registry and its background jobs on a small instance for TLC.       *)
(***************************************************************************)
EXTENDS Lifecycle

CONSTANTS a1, a2, r1, r2, alice, read, write, star

MCAgentIds == {a1, a2}
MCRequests == {r1, r2}
MCTools == {read, write, star}
MCWildcards == {star}

\* One agent that may delegate part of its scope, over two levels.
MCRegistrations ==
    {[human |-> alice, verified |-> FALSE, scope |-> {read, write},
      can_delegate |-> {read}, max_depth |-> 2, ttl |-> 2, risk |-> "minimal"]}
MCDelegations == {[requested_scope |-> {read, write}, ttl |-> 2]}

\* No guard reads the audit entries, and the properties of the run only those
\* on expiry: it need not tell states apart by the others.
WithExpiries ==
    <<agents, tokens, pending, nextJti, now, lastSeen, sending,
      {e \in audit : e.action = "auto_expired"}>>
=============================================================================
