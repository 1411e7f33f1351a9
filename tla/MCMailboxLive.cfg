SPECIFICATION FairSpec
CONSTANTS
  SlotCount = 2
  Last = 2
  QueuedControls = {}
  SyncControls = {"selection", "arm"}
  JogControls = {}
  ClosePolls = 1
  MeterPolls = 1
  EventRows = 1
  Environment = {}
PROPERTIES
  ClosingEnds
  RequestsAreAnswered
