CONSTANTS
  c1 = c1
  c2 = c2
  i1 = i1
  i2 = i2
  Nonces = {c1, c2}
  Instances = {i1, i2}
  MaxEvents = 3
  MaxFailures = 2
SPECIFICATION Spec
INVARIANTS
  TypeOK
  LastEventDecides
  LoneEventIsHandled
PROPERTIES
  NeverBack
  LoggedIsHandled
CHECK_DEADLOCK FALSE
