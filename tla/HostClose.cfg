CONSTANTS
  run = run  guard = guard  actor = actor  Unset = Unset
  MaxFailures = 1
  MaxDrops = 1
  Callers = {c1, c2}
SPECIFICATION FairHostClose
CHECK_DEADLOCK FALSE
INVARIANTS TypeOK CloseIsSound
PROPERTY ClosesComplete
