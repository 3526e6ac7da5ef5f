SPECIFICATION ThreadSpec
CONSTANTS
  p1 = p1
  p2 = p2
  p3 = p3
  i1 = i1
  i2 = i2
  i3 = i3
  i4 = i4
  g1 = g1
  g2 = g2
  NoItem = NoItem
  Items = {i1, i2, i3, i4}
  Producers = {p1, p2}
  Guards = {g1}
  Author <- Author22
  Size <- Size4
  MaxSeq = 4
  Backend = "redb"
  Capacities = {2}
  MaxBytes = 2
  UsizeMod = 16
  Durability = "Sync"
  DurableAcks = TRUE
  Threaded = FALSE
  MaxRestarts = 0
PROPERTIES
  CloseReleases
  EventuallyAdmitted
