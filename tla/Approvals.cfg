SPECIFICATION NotifierSpec
CONSTANTS
    c1 = c1  c2 = c2
    p1 = p1  p2 = p2
    Calls <- MCCalls
    ApprovalIds <- MCApprovalIds
    Channels <- MCChannels
    Timeout = 2
    PollInterval = 1
    MaxTime = 4
    Null = Null
INVARIANTS ApprovalsSound
PROPERTIES DecisionIsFinal HeldCallsEnd
CHECK_DEADLOCK FALSE
