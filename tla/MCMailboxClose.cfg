SPECIFICATION Spec
CONSTANTS
  SlotCount = 1
  Last = 1
  QueuedControls = {"volume"}
  SyncControls = {}
  JogControls = {}
  ClosePolls = 2
  MeterPolls = 1
  EventRows = 1
  Environment = {"writer_dies", "new_project", "commit", "trace_loss", "foreign_owner", "clock", "window", "exit"}
INVARIANTS
  TypeOK
  CleanCloseIsComplete
  StopIsQuiet
PROPERTIES
  ClosedIsFinal
  NewProjectBlocksCalls
CHECK_DEADLOCK FALSE
