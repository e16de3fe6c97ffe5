\* As deployed: TaskOrchestrator.pause takes every pause request.
SPECIFICATION TaskSpec
CONSTANTS
  ChapterCount = 1
  Nodes <- PlanNodes
  Deps <- PlanDeps
  Rank <- PlanRank
  Chapters <- PlanChapters
  NonCritical <- PlanNonCritical
  RetryTimes = 1
  MaxWorkers = 3
  BatchSizes = {1}
  MaxRounds = 0
  InitialStage = InitialStage
  PausedStage = PausedStage
  PauseAnswers = {TRUE}
PROPERTY CancelHolds
CHECK_DEADLOCK FALSE
