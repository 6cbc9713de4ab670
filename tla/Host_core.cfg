SPECIFICATION HostSpec
CONSTANTS
  ai = ai
  hunt = hunt
  Modules = {ai, hunt}
  NoModule = NoModule
  Caller = ai
  Disabled = {hunt}
  JoinEvents = {hunt}
  HostQueue = 1
  WorkerQueue = 2
  Edited = {hunt}
  Traffic <- MainTraffic
  MaxItems = 2
  MaxTroubles = 2
  MaxArrivals = 3
  Persons = {alice, bob}
  Admins = {}
  NoPerson = NoPerson
  Absentee = Absentee
  MaxErasures = 1
  MaxEvents = 1
  MaxFaults = 2
  QueueCap = 1
INVARIANT DeliveriesAreHeld
PROPERTIES QueuesAreDrained FilesAreLoaded ConfirmedIsCompleted
CHECK_DEADLOCK FALSE
