---------------------------- MODULE MCCoreTokens ----------------------------
(***************************************************************************)
(* Small instances of the core library for TLC.                            *)
(***************************************************************************)
EXTENDS CoreTokens, TLC

CONSTANTS db, read, write, root, r1, r2

MCNamespaces == {db}
MCOps == {read, write}
MCRootSubs == {root}
MCRequests == {r1, r2}
MCSymmetry == Permutations(MCRequests)

dbRead  == [ns |-> db, op |-> read]
dbWrite == [ns |-> db, op |-> write]
dbAny   == [ns |-> db, op |-> AnyOp]

Root(scope, can, max, chain) ==
    [sub |-> root, scope |-> scope, can_delegate |-> can, depth |-> 0,
     max_depth |-> max, chain |-> chain, ttl |-> 2]

\* Wildcards held and delegated, a scope that may be delegated but is not held,
\* a chain that does not fit the depth.
MCRootClaims ==
    {Root({dbAny, dbRead}, {dbAny, dbRead, dbWrite}, 2, <<>>),
     Root({dbRead}, {All, dbRead}, 1, <<root>>)}

MCDelegations ==
    {[requested_scope |-> {All, dbAny}, ttl |-> 1],
     [requested_scope |-> {dbRead, dbWrite}, ttl |-> 3]}
=============================================================================
