SPECIFICATION BooksSpec
CONSTANTS
  Modules = {ma, mb}
  Persons = {alice, bob}
  Admins = {bob}
  Nobody = Nobody
  Absent = Absent
  Overlap = FALSE
  MaxJobs = 2
  MaxEvents = 1
  MaxFaults = 1
  QueueCap = 1
  ann = ann
  ben = ben
  cid = cid
  Anyone = Anyone
  la = la
  lb = lb
  lc = lc
  MaxMishaps = 1
SYMMETRY ModuleSymmetry
INVARIANTS OldTokensAreDead OldDataIsGone BooksAreTrue
PROPERTY ProfileGoesLast
CHECK_DEADLOCK FALSE
