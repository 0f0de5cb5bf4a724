SPECIFICATION Spec
CONSTANTS
  Unset = Unset
  NotUnicode = NotUnicode
  Garbage = Garbage
  NoAnswer = NoAnswer
  None = None
  Slots = {1, 2, 3}
  PoolSize = 2
  Names = {"perf", "renamed"}
  Overrides = {Unset, NotUnicode, "renamed"}
  Contents <- MCContents
INVARIANTS
  TypeOK
  OneName
  AdvertisedIsBound
  ReadsWhatWasWritten
  RecordsAligned
  TasksAnswered
CHECK_DEADLOCK FALSE
