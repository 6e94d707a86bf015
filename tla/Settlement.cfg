CONSTANTS
  r1 = r1  p1 = p1  s1 = s1
  short = short  long = long  bad = bad
  None = None
  Runs <- OneAndPrompt
  Standard <- OnePrompt
  Sessions = {s1}
  SessionOf <- InOneSession
  Receipts = {short, long, bad}
  Projectable = {short, long}
  Bytes <- RecordBytes
  MaxEntries = 2
  MaxIndexBytes = 3
  MaxHandles = 2
  MaxSequence = 1
  MaxFaults = 2
  MaxGenerations = 3
SPECIFICATION Spec
CHECK_DEADLOCK FALSE
INVARIANTS TypeOK AnswersSurvive DebtsAreSettled
PROPERTY ImplementsHistory
