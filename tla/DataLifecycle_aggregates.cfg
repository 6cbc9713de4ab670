SPECIFICATION Spec
CONSTANTS
  Modules = {ma}
  Persons = {alice, bob}
  Admins = {bob}
  Nobody = Nobody
  Absent = Absent
  Overlap = FALSE
  MaxJobs = 1
  MaxEvents = 2
  MaxFaults = 0
  QueueCap = 2
PROPERTY OnlySubjectRemoved
