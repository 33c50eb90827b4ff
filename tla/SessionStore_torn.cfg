SPECIFICATION Spec
CONSTANTS
    r1 = r1  r2 = r2
    u1 = u1  u2 = u2
    s1 = s1
    summary = summary  metrics = metrics
    a = a  b = b  c = c
    NoRow = NoRow
    Requests <- MCRequests
    Users    <- MCUsers
    Sessions <- MCSessions
    Columns  <- MCColumns
    Values   <- MCValues
    Bodies   <- MCBodies
    Stamps   <- MCStamps
    Overlap  = TRUE
INVARIANT WholeRecord
