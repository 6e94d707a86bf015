CONSTANTS
  Pulls = {p1, p2} Closers = {c1} Sweepers = {r1}
  MaxItems = 2 None = None p1 = p1 p2 = p2 c1 = c1 r1 = r1
SPECIFICATION FairSpec
CHECK_DEADLOCK FALSE
INVARIANTS TypeOK
PROPERTIES AddressIsKept ImplementsPullStream PullsEnd
