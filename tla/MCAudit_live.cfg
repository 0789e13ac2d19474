CONSTANTS
  Entries = {a, b, c}
  Foreign = {c}
  TenantOf <- TwoTenants
  QueueCapacity = 2
  BatchSize = 2
  Spilling = TRUE
  SpillMax = 2
  Archiving = TRUE
  MaxFaults = 1
  MaxCorrupt = 1
  a = a
  b = b
  c = c
SPECIFICATION LiveSpec
INVARIANTS NothingVanishes CountersBalance StoredOnce
PROPERTIES SpillIsDelivered StopEnds
