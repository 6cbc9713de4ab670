SPECIFICATION Spec
CONSTANTS
  People = {p1, p2}
  Cosmetics = {c1}
  None = None
  EggCost = 2
  Refund = 1
  Bundle = 1
  JunkValue = 1
  Bets = {10}
  Multipliers = {0, 2}
  Gain = 10
  LossLimit = 10
  GiftLimit = 10
  MaxCrew = 2
  LedgerKept = 2
  Courses = {{"buy", "pull", "hatch", "recycle", "cut"}, {"buy", "hatch", "erasure"},
             {"give", "wager", "cut", "erasure"}, {"heist", "cut"}, {"heist", "erasure"},
             {"heist", "wager", "midnight"}}
  EggDraws = 5
  BetDraws = 3
  MaxGains = 2
  MaxCuts = 1
  MaxErasures = 1
  MaxDay = 1
  MaxLoss = 30
INVARIANTS GoodsAreAccounted StakesAreAccounted
PROPERTIES HeistsEnd
CHECK_DEADLOCK FALSE
