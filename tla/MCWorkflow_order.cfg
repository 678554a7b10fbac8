CONSTANTS
  NoJob = NoJob
  CycleThrottle = 3
  Cases <- AllCases
  Experiments <- CaseNames
  MemberJobs <- TwoMembers
  Jobs <- WorkflowJobs
  Ready <- WorkflowReady
SPECIFICATION RoundsSpec
INVARIANTS
  RoundsTypeOK
  AnalysesHaveBackground
  MarineAnalysesHaveBackground
  ForecastsHaveIncrements
  MembersArchivedWhole
  RequiredFilesMade
  CleanupAfterArchives
  ConfigsSourced
PROPERTIES
  Implements
  EveryJobRuns
