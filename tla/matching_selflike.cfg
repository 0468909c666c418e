CONSTANTS
  alice = alice
  bob = bob
  carol = carol
  p1 = p1
  p2 = p2
  Dancers = {alice, bob, carol}
  Partitions = {p1, p2}
  PartitionOf <- MCPartitionOf
  Likes <- MCSelfLikes
  MaxLikes = 3
  MaxCrashes = 1
SPECIFICATION Spec
PROPERTY MutualLikesMatch
CHECK_DEADLOCK FALSE
