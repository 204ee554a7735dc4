SPECIFICATION MCSpec
CONSTANTS
    BidLevels = {1, 2}
    AskLevels = {3}
    MaxTruth = 3
    MaxConns = 3
    MaxRepeats = 1
    Tokens <- MCTokens
    Alphabet <- MCAlphabet
    Reports <- MCReports
    Coins <- MCCoins
    MaxStarts = 1
    Fresh = {k1, k2}
    MaxFaults = 1
INVARIANTS
    FeedsTypeOK
    NoMixing
    LookupsAreTrue
    OpenIsQueued
PROPERTIES
    BookKeepsPromise
    BookCatchesUp
    EntriesStay
    KnownIsDecided
CHECK_DEADLOCK FALSE
