SPECIFICATION Spec
CONSTANTS
  Cases <- PassingCases
  TagKey <- MCTagKey
  PathsOf <- MCPathsOf
  LogfwdVolumes <- MCLogfwdVolumes
  LogsVolumes <- MCLogsVolumes
  LateSidecars <- MCLateSidecars
  MaxReviews = 3
  MaxOthers = 1
INVARIANTS Inv OneTracer PodStaysValid LogsReachSidecar
PROPERTIES PatchLeadsToCopy ReviewSettles UserWorkKept WholeOrNothing JavaAgentRestored TagsAfterVariables
CHECK_DEADLOCK FALSE
