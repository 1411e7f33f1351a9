SPECIFICATION MCSpec
CONSTANTS
  Parts = {"reads"}
  Addresses = {1, 2, 3}
  Fields = {"pan"}
  Offset <- PanOnly
  OwnerOnly = {}
  HashOf <- Hashes
  OwnerSlots = 2
  Cells = 1
  Words = 3
  Probes = 2
  Budget = 2
  Tries = 2
  Generations = 3
  LastRevision = 6
  Retries = 1
  Bits = {0}
  Committers = {"audio"}
  Wanted = {}
INVARIANTS
  CellsHoldTheirOwn
CHECK_DEADLOCK FALSE
