SPECIFICATION AsyncSpec
CONSTANTS
  p1 = p1
  p2 = p2
  p3 = p3
  i1 = i1
  i2 = i2
  i3 = i3
  i4 = i4
  g1 = g1
  g2 = g2
  NoItem = NoItem
  Items = {i1, i2, i3}
  Producers = {p1, p2}
  Guards = {g1}
  Author <- Author3
  Size <- SameSize
  MaxSeq = 3
  Backend = "mem"
  Capacities = {1}
  MaxBytes = 15
  UsizeMod = 16
  Durability = "Sync"
  DurableAcks = TRUE
  Threaded = FALSE
  MaxRestarts = 0
  MaxOwed = 0
  MaxLeft = 1
SYMMETRY ItemSymmetry
INVARIANTS
  RoomSignalled
