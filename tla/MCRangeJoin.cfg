SPECIFICATION Spec
CONSTANTS
  loop = loop
  shell = shell
  None = None
  Pids = {loop, shell}
  MaxAddr = 3
  MaxMmaps = 3
  MaxSamples = 1
SYMMETRY Symmetry
CHECK_DEADLOCK FALSE
INVARIANTS
  TypeOK
  JoinComplete
  ExtraOnlyAtTheEnd
