SPECIFICATION LifecycleSpec
CONSTANTS
    a1 = a1  a2 = a2
    alice = alice
    read = read  write = write  star = star
    Null = Null
    AgentIds <- MCAgentIds
    Humans = {alice}
    Tools <- MCTools
    Wildcards <- MCWildcards
    Star = star
    r1 = r1  r2 = r2
    Requests <- MCRequests
    Registrations <- MCRegistrations
    Delegations <- MCDelegations
    StaleAfter = 1
    MaxSending = 1
    MaxTime = 2
    MaxTokens = 2
VIEW WithExpiries
INVARIANTS ExpiryIsAudited ReportsTrue
PROPERTIES EveryAgentEnds
