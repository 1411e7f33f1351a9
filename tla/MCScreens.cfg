SPECIFICATION ScreensSpec
CONSTANTS
  Screens = {"s1", "s2"}
  Widgets = {"list", "knob"}
  Home <- TwoHomes
  Kind <- TwoKinds
  Nesting = 1
  Throws = 1
  Buttons = {"xtouch", "generic"}
  Profiles = {"xtouch", "generic"}
  Default = "xtouch"
  None = None
  NoProfile = NoProfile
  Clicks = 2
  Configures = 1
  Apps = 2
  Slots = {1, 2}
  Targets = {"t1", "t2"}
  Files = {"f1", "f2"}
  WaitLimit = 2
  Waiting = 2
  Overlays = 2
  Faults = 1
CHECK_DEADLOCK FALSE
INVARIANTS ScreensTypeOK NothingInUseIsFreed ConsumerSeesItsScreens LastChoiceWins EditsLandWhereMade LearnEndsWithItsEditor
PROPERTIES  EveryPressIsAnswered
