SPECIFICATION MCSpec
CONSTANTS
    Callers = {c1, c2, c3}
    Unit = 3
    Rate = 2
    Capacity = 7
    Early = 1
    Late = 1
    MaxTime = 16
    LastCall = 7
    MaxGrants = 6
    Watchable = {"w1", "w2"}
    WatchTTL = 0
    MaxWatches <- MCWatches
    MaxMisses = 1
    HotNap = 1
    PassiveNap = 4
    HotTTL = 6
    MaxLag = 6
    Exchanges <- MCExchanges
    Quotations <- MCQuotations
    DexPrices = {19970, 19990, 20060, 20200}
    MinSpread = 30
    Blacklists <- MCBlacklists
    Blocks = {"none", "withdraw"}
INVARIANTS
    TypeOK
    RateBound
    PollingTypeOK
    OldDepthHasCause
    FlagSeenInTime
    LogIsCurrent
PROPERTIES
    EveryCallServed
    DepthArrives
CHECK_DEADLOCK FALSE
