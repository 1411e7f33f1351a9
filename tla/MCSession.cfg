SPECIFICATION MCSpec
CONSTANTS
  Sessions = 2
  Apps = 2
  Bridges = 2
  Boots = 2
  Interrupts = 1
  PromptReceipts = TRUE
  HistoryEntries = 1
  Commands <- AllCommands
INVARIANTS
  OneApp
  CleanStopIsComplete
  GenerationsDoNotMix
  EvidenceIsKept
PROPERTIES
  RevokedStaysDown
  LaunchesArePermitted
CHECK_DEADLOCK FALSE
