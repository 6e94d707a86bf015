CONSTANTS
  p = p i = i s1 = s1 s2 = s2 x1 = x1 x2 = x2 g = g d1 = d1 d2 = d2 d3 = d3 j = j k1 = k1 k2 = k2
  Sessions = {s1, s2} Scopes = {p} ScopeOf <- OneScope
  Executes = {x1, x2} Graphs = {g} Dispatches = {d1, d2, d3} Asks = {j} Closes = {k1, k2}
  Keys = {i} KeyOf <- Ids Plans <- WorkPlans MaxOpenHandles = 1
  Host = Host None = None
SPECIFICATION FairSpec
CHECK_DEADLOCK FALSE
INVARIANTS TypeOK WorkIsOwned
PROPERTIES FailuresStand CallsReturn
