SPECIFICATION Spec
CONSTANTS
  Cases <- TagCases
  TagKey <- MCTagKey
  PathsOf <- MCPathsOf
  LogfwdVolumes <- MCLogfwdVolumes
  LogsVolumes <- MCLogsVolumes
  LateSidecars <- MCLateSidecars
  MaxReviews = 3
  MaxOthers = 1
PROPERTY UserTagsKept
CHECK_DEADLOCK FALSE
