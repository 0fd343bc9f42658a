CONSTANTS
  FrameCount = 2
  Pins = 2
  NoSet = NoSet
  MaxGames = 1
  MaxRemote = 1
  MaxEdits = 2
  MaxWork = 6
SPECIFICATION Spec
INVARIANTS TypeOK NoDeadEnd ScoreFollowsTheRules EffectiveDetailFitsRack OfferedBallsAreAccepted OutboxReplaysToRows CorrectionsFormAChain DiscardKeepsBalls AnalysesAgree
PROPERTIES ResolvedFramesStand
CHECK_DEADLOCK FALSE
