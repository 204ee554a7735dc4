SPECIFICATION FairSpec
CONSTANTS
  t1 = t1
  t2 = t2
  p1 = p1
  p2 = p2
  p3 = p3
  NoToken = NoToken
  NoPool = NoPool
  Tokens = {t1, t2}
  Pools = {p1, p2, p3}
  SymbolOf <- TwoSymbols
  OnChain <- TwoOnChain
  Offers <- TwoOffers
  Rank <- Earlier
  Blacklist <- BBlacklisted
  Found <- FoundAB
  Features <- SteadyFeatures
  GtVersion = {TRUE}
  Threshold = 1
  MaxCrashes = 1
INVARIANT
  ListedPoolsHaveRows
PROPERTY
  RowsGetLinked
