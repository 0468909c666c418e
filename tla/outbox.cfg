CONSTANTS
  created = created
  renamed = renamed
  retired = retired
  t1 = t1
  t2 = t2
  pod = pod
  Events = {created, renamed}
  Retired = {}
  Threads = {t1, t2}
  Instances = {pod}
  InstanceOf <- MCInstanceOf
  MaxBatchSize = 2
  DrainLimit = 1
  MaxInFlight = 1
  MaxFailures = 2
  MaxCrashes = 1
SPECIFICATION Spec
INVARIANTS
  TypeOK
  KeptUntilDelivered
  NoPhantomEvent
PROPERTIES
  ImplementsAtLeastOnce
  DeliveredIsForgotten
CHECK_DEADLOCK FALSE
