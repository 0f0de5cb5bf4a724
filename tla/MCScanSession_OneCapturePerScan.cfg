SPECIFICATION Spec
CONSTANTS
  empty = empty
  short = short
  even = even
  long = long
  notPerf = notPerf
  Absent = Absent
  Unreadable = Unreadable
  ByPath = ByPath
  Mistyped = Mistyped
  Garbled = Garbled
  NoToken = NoToken
  NoScan = NoScan
  Images = {empty, short, even, long, notPerf}
  RowCount <- MCRowCount
  BatchRows = 2
  Transports = {"stream", "http"}
  MaxChanges = 1
  MaxLost = 0
INVARIANT OneCapturePerScan
