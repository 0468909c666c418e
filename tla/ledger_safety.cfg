CONSTANTS
  alice = alice
  bob = bob
  carol = carol
  t1 = t1
  t2 = t2
  t3 = t3
  pod1 = pod1
  pod2 = pod2
  NoEvent = NoEvent
  Accounts = {alice, bob, carol}
  Seeded = {alice, bob}
  SeedBalance <- MCSeedBalance
  Transfers = {t1, t2}
  Amounts <- MCAmounts
  Pods = {pod1, pod2}
  ConsumerOf <- MCConsumerOf
SYMMETRY MCSymmetry
SPECIFICATION Spec
INVARIANTS
  TypeOK
  NoLostUpdate
  ConsumedIsSettled
  OneWinnerPerVersion
  DroppedOnlyByCollision
  DebitsStayCovered
  BalanceReconciles
  ConservedUnlessRaced
  HistoryExplainsBalance
PROPERTIES
  OffsetNeverRetreats
  ImplementsSerialProjection
CHECK_DEADLOCK FALSE
