SPECIFICATION Spec
CONSTANTS
  Modules = {m1}
  Ids = {i1}
  Owners = {alice}
  NoOwner = NoOwner
  Payloads = {p}
  Malformed = Malformed
  NoJob = NoJob
  Requests = {"set"}
  Slots = {s1}
  DeliveryQueue = 1
  InboxSize = 1
  MaxJobs = 1
  RetrySeconds = 1
  Horizon = 2
  MaxTime = 3
  MaxSets = 1
  MaxFaults = 0
PROPERTY OnlyStoredJobsFire
