CONSTANTS
  created = created
  renamed = renamed
  retired = retired
  t1 = t1
  t2 = t2
  pod = pod
  Events = {created, retired}
  Retired = {retired}
  Threads = {t1}
  Instances = {pod}
  InstanceOf <- MCInstanceOf
  MaxBatchSize = 2
  DrainLimit = 2
  MaxInFlight = 1
  MaxFailures = 0
  MaxCrashes = 1
SPECIFICATION Spec
PROPERTY GuaranteedFromDrainer
CHECK_DEADLOCK FALSE
