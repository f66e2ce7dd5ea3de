SPECIFICATION Spec
CONSTANTS
  Coordinators = {c1}
  MayCrash = {c1}
  Ids = {a, b}
  Nobody = Nobody
  Requests = {r1, r2}
  Scrapes = {}
  Duration = 2
  Interval = 1
  MaxCASAttempts = 1
  MaxVersions = 3
  MaxDeletes = 1
  MaxLate = 1
  MaxClock = 2
SYMMETRY Symmetry
INVARIANTS ElectionInv ObservationNotBeforeWrite SuccessIsBacked AtMostOneCollector
PROPERTIES ImplementsLeaseTerms
