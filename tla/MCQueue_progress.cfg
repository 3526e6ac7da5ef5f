SPECIFICATION FairSpec
CONSTANTS
  p1 = p1
  p2 = p2
  p3 = p3
  i1 = i1
  i2 = i2
  i3 = i3
  i4 = i4
  g1 = g1
  g2 = g2
  NoItem = NoItem
  Items = {i1, i2}
  Producers = {p1, p2}
  Guards = {g1, g2}
  Author <- Author2
  Size <- Size2
  MaxSeq = 2
  Backend = "redb"
  Capacities = {2}
  MaxBytes = 3
  UsizeMod = 16
  Durability = "Sync"
  DurableAcks = TRUE
  Threaded = FALSE
  MaxRestarts = 1
PROPERTIES
  EventuallyConsumed
