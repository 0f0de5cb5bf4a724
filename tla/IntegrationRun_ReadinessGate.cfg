SPECIFICATION Spec
CONSTANTS
  Transports = {"subprocess", "http", "unix"}
  Presets = {"none", "command", "url"}
  Stages = {"fresh", "reused"}
  MaxPolls = 1
INVARIANT ReadinessGate
