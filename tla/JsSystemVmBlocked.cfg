CONSTANTS
    Threads = {t1}
    Clients = {c1, c2}
    Hosting = TRUE
    MaxRestarts = 1
    MaxReqs = 3
    MaxFaults = 0
    MaxProcs = 3
SPECIFICATION FairSpec
PROPERTY VmNotBlocked
CHECK_DEADLOCK FALSE
