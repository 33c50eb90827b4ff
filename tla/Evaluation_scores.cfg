SPECIFICATION Spec
CONSTANTS
    equity = equity
    LocalTimes <- MCTimes
    Offsets    <- MCOffsets
    Assets     <- MCAssets
    Trades     <- MCTrades
    Classes    <- MCClasses
    Many   = 2
    Losses = 1
    Cited  = 2
    MaxTrades = 4
CHECK_DEADLOCK FALSE
INVARIANTS StreamWouldCoach MatrixAgrees FlawlessOnly
PROPERTIES LostOnlyTo CitationsStand
