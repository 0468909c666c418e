CONSTANTS
  MaxEvents = 3
  MaxFailures = 2
SPECIFICATION Spec
INVARIANTS
  TypeOK
  WaitingIsAnnounced
PROPERTIES
  AnnouncedIsProjected
  ShutdownStops
CHECK_DEADLOCK FALSE
