CONSTANTS
  alice = alice
  bob = bob
  carol = carol
  p1 = p1
  p2 = p2
  Dancers = {alice, bob, carol}
  Partitions = {p1, p2}
  PartitionOf <- MCPartitionOf
  Likes <- MCLikes
  MaxLikes = 3
  MaxCrashes = 2
SPECIFICATION Spec
INVARIANTS
  TypeOK
  MatchIsMutual
  MutualIsNoticed
  PassedOnOnce
PROPERTY MatchedOrStuck
CHECK_DEADLOCK FALSE
