SPECIFICATION FairSpec
CONSTANTS
  Channels <- MCChannels
  Kinds <- MCKinds
  InboxSize = 1
  MaxPending = 2
  Burst = 1
  EventCap = 1
  MaxLines = 2
  MaxMessages = 2
  MaxTroubles = 2
INVARIANTS LoggedInIfPossible StatusFollowsActor
PROPERTIES LinesInOrder InterruptedWorkResumes
CHECK_DEADLOCK FALSE
