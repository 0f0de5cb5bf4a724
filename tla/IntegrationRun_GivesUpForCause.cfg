SPECIFICATION Spec
CONSTANTS
  Transports = {"subprocess", "http", "unix"}
  Presets = {"none", "command", "url"}
  Stages = {"fresh", "reused"}
  MaxPolls = 2
INVARIANT GivesUpForCause
