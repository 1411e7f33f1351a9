SPECIFICATION LaneSpec
CONSTANTS
  TransportScenes <- OrderScenes
  Epochs = 1
  Limit = 2
  Banked = 2
  Steps = 1
  Ring = 3
  Slots = 3
PROPERTIES
  IntentsInOrder
CHECK_DEADLOCK FALSE
