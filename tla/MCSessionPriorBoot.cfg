SPECIFICATION Spec
CONSTANTS
  Sessions = 2
  Apps = 1
  Bridges = 1
  Boots = 2
  Interrupts = 0
  PromptReceipts = TRUE
  HistoryEntries = 1
  Commands <- StartStop
INVARIANT PriorBootIsAdmitted
CHECK_DEADLOCK FALSE
