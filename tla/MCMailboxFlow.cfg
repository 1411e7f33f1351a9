SPECIFICATION Spec
CONSTANTS
  SlotCount = 2
  Last = 2
  QueuedControls = {"volume"}
  SyncControls = {"selection"}
  JogControls = {"bar"}
  ClosePolls = 1
  MeterPolls = 1
  EventRows = 1
  Environment = {}
INVARIANTS
  OneFlightPerControl
  RequestIntact
  NoFabricatedReceipt
PROPERTIES
  JogsInOrder
