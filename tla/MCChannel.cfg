SPECIFICATION MCSpec
CONSTANTS
  Parts = {"reads", "setter", "crowd"}
  Addresses = {1, 2}
  Fields = {"pan", "arm"}
  Offset <- PanArm
  OwnerOnly = {"arm"}
  HashOf <- Crowded
  OwnerSlots = 1
  Cells = 1
  Words = 2
  Probes = 2
  Budget = 1
  Tries = 1
  Generations = 2
  LastRevision = 4
  Retries = 2
  Bits = {0}
  Committers = {"audio"}
  Wanted = {"pan"}
INVARIANTS
  ChannelTypeOK
  ReadIsCurrent
  FieldsAreReachable
CHECK_DEADLOCK FALSE
