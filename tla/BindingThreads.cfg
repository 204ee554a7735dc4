SPECIFICATION Spec
CONSTANTS
  t1 = t1
  t2 = t2
  p1 = p1
  p2 = p2
  p3 = p3
  NoToken = NoToken
  NoPool = NoPool
  Tokens = {t1, t2}
  Pools = {p1, p2}
  SymbolOf <- OneSymbol
  OnChain <- OneOnChain
  Offers <- OneOffers
  Rank <- Earlier
  Blacklist <- NoneBlacklisted
  Found <- FoundA
  Features <- ThreadFeatures
  GtVersion = {TRUE}
  Threshold = 2
  MaxCrashes = 1
INVARIANTS
  RejectedStaysOut
  OneRowPerTicker
  PricedFromOwnPool
