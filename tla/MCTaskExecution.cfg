\* A novel of two chapters; TaskOrchestrator.pause answers True as deployed, or
\* False, so that pause requests reach the row.
SPECIFICATION TaskFairSpec
CONSTANTS
  ChapterCount = 2
  Nodes <- PlanNodes
  Deps <- PlanDeps
  Rank <- PlanRank
  Chapters <- PlanChapters
  NonCritical <- PlanNonCritical
  RetryTimes = 1
  MaxWorkers = 3
  BatchSizes = {1}
  MaxRounds = 0
  InitialStage = InitialStage
  PausedStage = PausedStage
  PauseAnswers = {TRUE, FALSE}
INVARIANTS
  TaskTypeOK
  HeldStops
  CompletedMeansExhausted
PROPERTIES
  ProgressGrows
  ExecutorEnds
CHECK_DEADLOCK FALSE
