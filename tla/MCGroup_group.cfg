SPECIFICATION GroupSpec
CONSTANTS
  p1 = p1
  p2 = p2
  p3 = p3
  i1 = i1
  i2 = i2
  i3 = i3
  i4 = i4
  g1 = g1
  g2 = g2
  NoItem = NoItem
  Items = {i1, i2, i3}
  Producers = {p1, p2, p3}
  Guards = {g1}
  Author <- Author111
  Size <- Size111
  MaxSeq = 3
  Backend = "redb"
  Capacities = {1, 2, 3}
  MaxBytes = 15
  UsizeMod = 16
  Durability = "Sync"
  DurableAcks = FALSE
  Threaded = FALSE
  MaxRestarts = 1
SYMMETRY PairSymmetry
INVARIANTS
  HeadSafe
  FollowersServed
  LenExact
  NoLostWakeup
PROPERTIES
  Implements
