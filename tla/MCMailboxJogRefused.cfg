SPECIFICATION Spec
CONSTANTS
  SlotCount = 2
  Last = 3
  QueuedControls = {"volume"}
  SyncControls = {}
  JogControls = {"bar"}
  ClosePolls = 1
  MeterPolls = 1
  EventRows = 1
  Environment = {}
INVARIANTS
  RefusedJogLosesOnlyItself
