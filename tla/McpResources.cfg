CONSTANTS
  c1 = c1 c2 = c2 c3 = c3
  Managers = {m1, m2} Calls = {c1, c2, c3} Closers = {s, t} Teardown = t
  Asks <- Mixed
  MaxResources = 3 MaxFaults = 1 None = None
SPECIFICATION FairSpec
INVARIANTS TypeOK ResourcesAreOwned
PROPERTIES AliasesAreKept ClosesReturn
CHECK_DEADLOCK FALSE
