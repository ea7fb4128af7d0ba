CONSTANTS
    Owner = owner
    Callers = {owner}
    HostFns <- TalkingFns
    MaxCalls = 1
    MaxMsgs = 1
SPECIFICATION FairSpec
PROPERTY HostCallReturns
CHECK_DEADLOCK FALSE
