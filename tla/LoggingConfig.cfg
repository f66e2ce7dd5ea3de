SPECIFICATION FairSpec
CONSTANTS
  Names = {n1, n2}
  Specs <- MCSpecs
  Pods <- MCPods
  Gone = Gone
  NoLabels = NoLabels
  MaxChanges = 3
  x = x
  y = y
  web = web
  db = db
  front = front
INVARIANTS Inv NothingLost ListIsMap
PROPERTIES OrderKept Settles WorkerStops
CHECK_DEADLOCK FALSE
