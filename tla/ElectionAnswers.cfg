SPECIFICATION FairSpec
CONSTANTS
  Coordinators = {c1}
  MayCrash = {}
  Ids = {a, b}
  Nobody = Nobody
  Requests = {r1, r2}
  Scrapes = {}
  Duration = 1
  Interval = 0
  MaxCASAttempts = 1
  MaxVersions = 3
  MaxDeletes = 0
  MaxLate = 0
  MaxClock = 1
PROPERTIES EveryRequestEnds HolderNotRefusedByCache
