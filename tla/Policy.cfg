SPECIFICATION FairPolicySpec
CONSTANTS
    MaxSize = 2
    MaxFiles = 2
    MaxDecisions = 6
    Policies <- MCPolicies
    Calls <- MCCalls
    MaxEdits = 3
INVARIANTS RulingsFollowPolicy LogIsContiguous
PROPERTY LastEditWins
CHECK_DEADLOCK FALSE
