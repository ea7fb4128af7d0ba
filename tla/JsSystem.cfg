CONSTANTS
    Threads = {t1, t2}
    Clients = {c1, c2}
    Hosting = TRUE
    MaxRestarts = 1
    MaxReqs = 3
    MaxFaults = 2
    MaxProcs = 5
SPECIFICATION FairSpec
INVARIANTS TypeOK NoUseAfterFree NoContextLeak ThreadsAccounted NoOrphanedCaller OneInitAtATime
PROPERTIES OwnAnswerOnly EvalAnswered StartAnswered ContextFreed
CHECK_DEADLOCK FALSE
