SPECIFICATION FairSpec
CONSTANTS
  r1 = r1
  r2 = r2
  Rows = {r1, r2}
  FirstRows = {r1}
  V4Pools = {q1, q2}
  Monitors = {"chain", "v4"}
  Count = 4
  Kind <- Four
  MaxWrites = 2
INVARIANTS
  TypeOK
  NoChangeMissed
PROPERTIES
  FeedFollowsFile
  V4PoolStreamed
