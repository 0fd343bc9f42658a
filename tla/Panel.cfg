CONSTANTS
  FrameCount = 2
  Pins = 2
  NoSet = NoSet
  MaxGames = 2
  MaxRemote = 0
  MaxEdits = 0
  MaxWork = 0
  MaxRows = 4
  MaxFixes = 1
  MaxFaults = 2
  MaxTotal = 5
SPECIFICATION PSpec
INVARIANTS ControlsAreHonest ReportsAreTrue
PROPERTIES NoSilentSwitch 
CHECK_DEADLOCK FALSE
