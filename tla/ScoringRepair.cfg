CONSTANTS
  FrameCount = 2
  Pins = 2
  NoSet = NoSet
  MaxGames = 1
  MaxRemote = 0
  MaxEdits = 1
  MaxWork = 6
SPECIFICATION Spec
INVARIANT CompletedGamesArePlayable
CHECK_DEADLOCK FALSE
