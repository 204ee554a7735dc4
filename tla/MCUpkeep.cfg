SPECIFICATION MCSpec
CONSTANTS
    Tokens = {t1, t2}
    MaxFails = 2
    Symbols = {s1, s2}
    MaxOffers = 2
    MaxFailures = 1
    Pools = {"p", "q"}
    Markets <- MCMarkets
    MinLiq = 4
    MinVol = 3
    PoolMinVol = 1
    PoolMinLiq = 5
    VolRatio = 2
    TTL <- MCTTL
    MaxMoves = 2
    MaxSlips = 2
    Items = {i1, i2, i3, i4}
    SaveEvery = 1
    FlushEvery = 2
    MaxRuns = 2
    MaxHits = 1
INVARIANTS
    TypeOK
    NoRequestForgotten
    UpkeepTypeOK
    ListingAccounted
    OkIsForTheBound
    LossIsBounded
PROPERTIES
    EveryTokenAttempted
    EveryTokenCovered
    ListingStreamed
    LowRecovers
CHECK_DEADLOCK FALSE
