\* The owner evaluates, as in the repository, or another process does and
\* the owner is free to answer.
CONSTANTS
    Owner = owner
    Callers = {owner, other}
    HostFns <- AllFns
    MaxCalls = 4
    MaxMsgs = 3
SPECIFICATION FairSpec
INVARIANTS TypeOK NoStaleReply MessagesInOrder NoRunInFreedContext NestedRequestBlocked SelfCallNeverReturns
PROPERTIES ImplementsBridge NeverOverwrites Answered ReceiveReturns
CHECK_DEADLOCK FALSE
