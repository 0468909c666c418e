CONSTANTS
  e1 = e1
  e2 = e2
  c1 = c1
  Events = {e1, e2}
  Consumers = {c1}
  Dumps <- MCDumps
  MaxBatchSize = 2
  MaxFailures = 1
  MaxExpired = 1
SPECIFICATION Spec
INVARIANTS
  TypeOK
  NothingIsMissed
PROPERTIES
  CatchesUp
  ShutdownEnds
CHECK_DEADLOCK FALSE
