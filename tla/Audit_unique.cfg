SPECIFICATION Spec
CONSTANTS
    s1 = s1  s2 = s2  s3 = s3
    Sessions  <- MCSessions
    Responses <- Small
INVARIANT UniqueCounted
SYMMETRY SymmetrySessions
