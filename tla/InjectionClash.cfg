SPECIFICATION Spec
CONSTANTS
  Cases <- ClashCases
  TagKey <- MCTagKey
  PathsOf <- MCPathsOf
  LogfwdVolumes <- MCLogfwdVolumes
  LogsVolumes <- MCLogsVolumes
  LateSidecars <- MCLateSidecars
  MaxReviews = 3
  MaxOthers = 1
INVARIANT PodStaysValid
CHECK_DEADLOCK FALSE
