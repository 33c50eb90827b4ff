SPECIFICATION Spec
CONSTANTS
    u1 = u1  u2 = u2
    s1 = s1  s2 = s2  s3 = s3
    p1 = p1
    tilt = tilt
    None = None
    Users    <- MCUsers
    Sessions <- MCSessions
    Patterns <- MCPatterns
    Signals  <- MCSignals
    Written  <- MCWritten
    Spelt    <- MCSpelt
    Stamps   <- MCStamps
    Limit    = 2
SYMMETRY Symmetry
INVARIANT OwnSessionsOnly
PROPERTY LastRelevant
