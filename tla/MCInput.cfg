SPECIFICATION InputSpec
CONSTANTS
  Scenes <- FlowScenes
  Serials = 4
  Top = 1
  Slots = 2
  Edges = 2
  TransportScenes <- LaneScenes
  Epochs = 2
  Limit = 2
  Banked = 2
  Steps = 1
  Ring = 2
INVARIANTS
  InputTypeOK
  MovesReachTheirTrack
  LastRequestWins
  NeverSentIntoConflict
  TurnsArriveInOrder
PROPERTIES
  MotorsYield
  NothingStaleIsSent
CHECK_DEADLOCK FALSE
