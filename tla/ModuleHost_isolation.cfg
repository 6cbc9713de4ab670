SPECIFICATION BusySpec
CONSTANTS
  ai = ai
  hunt = hunt
  Modules = {ai, hunt}
  NoModule = NoModule
  Caller = ai
  Disabled = {hunt}
  JoinEvents = {hunt}
  HostQueue = 1
  WorkerQueue = 2
  Edited = {}
  Traffic <- OtherTraffic
  MaxItems = 2
  MaxTroubles = 0
  MaxArrivals = 2
  Persons = {alice, bob}
  Admins = {bob}
  NoPerson = NoPerson
  Absentee = Absentee
  MaxErasures = 1
  MaxEvents = 1
  MaxFaults = 2
  QueueCap = 1
INVARIANT UnrelatedModulesRun
CHECK_DEADLOCK FALSE
