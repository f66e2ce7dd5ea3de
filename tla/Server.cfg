SPECIFICATION FairServerSpec
CONSTANTS
  NamespaceKnown = TRUE
  MaxVersions = 2
  MaxFailures = 3
  Grace = 1
INVARIANTS ServerInv ReadyMeansStreaming
PROPERTIES ImplementsLeaseCache PodAnswersMoveForward RequestsGetTheGrace ListensInAnyCase ExitsWhenTold LeaseCacheBecomesReady
CHECK_DEADLOCK FALSE
