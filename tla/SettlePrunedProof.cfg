CONSTANTS
  r1 = r1  p1 = p1  s1 = s1
  short = short  long = long  bad = bad
  None = None
  Runs <- OneAndPrompt
  Standard <- OnePrompt
  Sessions = {s1}
  SessionOf <- InOneSession
  Receipts = {short}
  Projectable = {short}
  Bytes <- RecordBytes
  MaxEntries = 1
  MaxIndexBytes = 20
  MaxHandles = 2
  MaxSequence = 1
  MaxFaults = 0
  MaxGenerations = 3
SPECIFICATION Spec
CHECK_DEADLOCK FALSE
INVARIANT ReleasedIsProvable
