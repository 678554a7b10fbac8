CONSTANTS
  NoJob = NoJob
  CycleThrottle = 3
  Cases <- EveryTwelveHours
  Experiments <- TwelveHourNames
  MemberJobs <- TwoMembers
  Jobs <- WorkflowJobs
  Ready <- WorkflowReady
SPECIFICATION RoundsSpec
PROPERTIES
  EveryJobRuns
