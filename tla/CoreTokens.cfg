SPECIFICATION Spec
CONSTANTS
    db = db  read = read  write = write  root = root
    r1 = r1  r2 = r2
    AnyOp = AnyOp  All = All
    Namespaces <- MCNamespaces
    Ops <- MCOps
    RootSubs <- MCRootSubs
    RootClaims <- MCRootClaims
    Delegations <- MCDelegations
    Requests <- MCRequests
    MaxTokens = 3
    MaxTime = 3
SYMMETRY MCSymmetry
INVARIANTS ChildrenBounded DecisionsAgree RevokedNotForgotten
PROPERTIES ImplementsDelegation
CHECK_DEADLOCK FALSE
