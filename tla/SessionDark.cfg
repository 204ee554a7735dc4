SPECIFICATION FairSpec
CONSTANTS
  r1 = r1
  r2 = r2
  Rows = {r1, r2}
  FirstRows = {r1}
  V4Pools = {q1}
  Monitors = {"chain", "v4"}
  Count = 2
  Kind <- Two
  MaxWrites = 0
PROPERTY
  ChainStaysLit
