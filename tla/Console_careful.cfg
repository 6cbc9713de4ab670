SPECIFICATION ConsoleSpec
CONSTANTS
  Modules = {m1}
  Ids = {i1}
  Owners = {}
  NoOwner = NoOwner
  Payloads = {p}
  Malformed = Malformed
  NoJob = NoJob
  Requests = {"set", "cancel"}
  Slots = {s1, s2}
  DeliveryQueue = 1
  InboxSize = 1
  MaxJobs = 1
  RetrySeconds = 1
  Horizon = 2
  MaxTime = 4
  MaxSets = 2
  MaxFaults = 2
  Host = host
  Names = {1, 2, 3}
  HostName = 2
  Manifests <- TwoManifests
  Values = {"low", "high"}
  Prefixes = {{"!"}, {"."}}
  Bang = {"!"}
  MaxLoads = 2
  MaxChanges = 2
  \* The third spelling of the nick differs in a letter NOCASE does not know the case of.
  Spellings = {1, 2, 3}
  Cased = {1, 2}
  Accounts = {a1, a2}
  NoAccount = NoAccount
  Hosts = {h1, h2}
  ProfileFields = {f1}
  Titles = {t1, t2, t3}
  People = {ann, ben}
  Subject = ann
  Rows = {r1}
  MaxSaves = 2
  MaxEdits = 1
  MaxDeeds = 3
  \* Two days to a week, four to a month, and a form that may switch retention off.
  WeekDays = 2
  MonthDays = 4
  RemoteFrom = 1
  Keeps = {0, 2}
  MaxNow = 4
  MaxRuns = 3
  MaxForms = 1
  MaxCuts = 1
  MaxMishaps = 1
INVARIANTS TypeOK RowsAreScheduled AttemptsAreApart
PROPERTIES JobsAreServed NotSentAfterSuccess NewerJobSurvives TimersAreDurable ConsoleIsSafe
CHECK_DEADLOCK FALSE
