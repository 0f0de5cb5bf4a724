SPECIFICATION Spec
CONSTANTS
  p1 = p1
  p2 = p2
  p3 = p3
  f1 = f1
  f3 = f3
  b1 = b1
  b2 = b2
  b3 = b3
  cycles = cycles
  faults = faults
  hostname = hostname
  arch = arch
  None = None
  Pending = Pending
  Fatal = Fatal
  MaxRecords = 1
  Path = {p1, p2, p3}
  FileName = {f1, f3}
  Lossy <- MCLossy
  BuildId = {b1, b2, b3}
  EventName = {cycles, faults}
  Section = {hostname, arch}
  Captures <- RecordCaptures
INVARIANT BuildIdByPath
