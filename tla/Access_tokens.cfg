SPECIFICATION RunSpec
CONSTANTS
    u1 = u1
    Users     <- MCUsers
    Second    = 3
    Lifetime  = 1
    MaxTime   = 4
    MaxStarts = 3
    Profiles  <- MCProfiles
    MaxRuns   = 2
CHECK_DEADLOCK FALSE
INVARIANTS TokensSurviveRestarts RefusalIsFinal ExpiryHonest
           ReportsHonest RestartRefusesOne OneCopyPerRun
