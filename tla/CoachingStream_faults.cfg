SPECIFICATION ApiFairSpec
CONSTANTS
    r1 = r1  r2 = r2  h1 = h1
    Requests   <- TwoRequests
    Others     <- OneOther
    PoolSize   = 1
    MaxChunks  = 2
INVARIANTS TypeOK NeverCutShort DoneMeansWhole PoolAccounted
PROPERTIES ImplementsContract WaitEnds GoneReleases OthersAnswered
