CONSTANTS
  alice = alice
  bob = bob
  carol = carol
  t1 = t1
  t2 = t2
  t3 = t3
  pod1 = pod1
  pod2 = pod2
  NoEvent = NoEvent
  Accounts = {alice, bob}
  Seeded = {alice, bob}
  SeedBalance <- MCSeedBalance
  Transfers = {t1, t2}
  Amounts = {1, 2}
  Pods = {pod1}
  ConsumerOf <- MCConsumerOf
SPECIFICATION Spec
INVARIANT NoEventLeftBehind
CHECK_DEADLOCK FALSE
