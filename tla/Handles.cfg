CONSTANTS
  a = a a1 = a1 b = b s1 = s1 s2 = s2 s3 = s3
  c1 = c1 c2 = c2 c3 = c3 x = x y = y k1 = k1 k2 = k2 f = f
  None = None
  Calls = {a, a1, b, s1, s2, s3, c1, c2, c3}
  Request <- SameAddress
  KnownIds = {x}
  MaxHandles = 7
  MaxFailures = 1
SPECIFICATION FairSpec
CHECK_DEADLOCK FALSE
INVARIANTS TypeOK SessionsAreKept
PROPERTIES ImplementsHandleLife CallsAreAnswered
