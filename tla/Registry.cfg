SPECIFICATION Spec
CONSTANTS
    a1 = a1  a2 = a2  a3 = a3
    alice = alice  bob = bob
    read = read  write = write  star = star
    Null = Null
    AgentIds <- MCAgentIds
    Humans = {alice, bob}
    Tools <- MCTools
    Wildcards <- MCWildcards
    Star = star
    r1 = r1  r2 = r2
    Requests <- MCRequests
    Registrations <- MCRegistrations
    Delegations <- MCDelegations
    MaxTime = 2
    MaxTokens = 3
SYMMETRY MCSymmetry
VIEW WithoutAudit
INVARIANTS VerifiedIsGranted NoDelegationAfterEnd EndsJustified OneUsableToken
           ChainsAgree CompliantIsNarrow
PROPERTIES EndsAreFinal ImplementsDelegation
