SPECIFICATION FairSpec
CONSTANTS
  Transports = {"subprocess", "http", "unix"}
  Presets = {"none", "command", "url"}
  Stages = {"fresh", "reused"}
  MaxPolls = 4
INVARIANTS
  TypeOK
  SuiteWaitsForWorker
  GreenMeansTested
  NothingLeftBehind
PROPERTY Terminates
