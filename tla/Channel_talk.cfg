SPECIFICATION ChannelSpec
CONSTANTS
  People = {ann, ben}
  Admins = {ben}
  Total = 3
  NoRound = NoRound
  Unloaded = Unloaded
  NoQuestion = NoQuestion
  Nobody = Nobody
  QueueCap = 2
  MaxRounds = 1
  MaxInputs = 3
  MaxFaults = 1
  MaxReloads = 1
  MaxErasures = 1
  MaxTroubles = 1
  ann = ann
  ben = ben
  xx = xx
  yy = yy
  MaxMishaps = 1
INVARIANTS AnswersAreAccounted RoundIsCoherent TalkIsFair
PROPERTY RoundsEnd
CHECK_DEADLOCK FALSE
