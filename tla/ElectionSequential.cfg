SPECIFICATION Spec
CONSTANTS
  Coordinators = {c1}
  MayCrash = {}
  Ids = {a, b}
  Nobody = Nobody
  Requests = {r1}
  Scrapes = {s1}
  Duration = 1
  Interval = 0
  MaxCASAttempts = 1
  MaxVersions = 3
  MaxDeletes = 0
  MaxLate = 1
  MaxClock = 3
SYMMETRY Symmetry
PROPERTIES TimerNotRestarted
