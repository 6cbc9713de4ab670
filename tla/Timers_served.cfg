SPECIFICATION TimersSpec
CONSTANTS
  People = {ann, ben}
  None = None
  Delays = {1}
  Period = 1
  SnoozeDelay = 1
  SnoozeWindow = 1
  RequestTtl = 1
  MaxPending = 2
  MaxRecurring = 1
  MaxPerRecipient = 1
  MaxTime = 2
  MaxNumber = 2
  MaxCommands = 3
  MaxTroubles = 1
  MaxErasures = 1
  Masks = {m, n, bot}
  Refused = {bot}
  Cells = {c, d}
  Warnings = {w, x}
  MaxMishaps = 1
  Batch = 1
  PerBook = 3
  PerSender = 2
  PerRecipient = 2
  PerPair = 2
  MaxTold = 2
INVARIANTS RemindersAreSound MemosAreAccounted GamesAreFair PromisesAreBooked
PROPERTIES RemindersArrive TimersAreServed
CHECK_DEADLOCK FALSE
