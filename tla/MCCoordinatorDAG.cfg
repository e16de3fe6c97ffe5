\* The planned graph with four chapters, called node by node or for all ready
\* nodes, serially or with the chapter pool. The default
\* workflow, executed, paused, resumed and cancelled by two threads, one retry.
SPECIFICATION MCSpec
CONSTANTS
  ChapterCount = 4
  Nodes <- PlanNodes
  Deps <- PlanDeps
  Rank <- PlanRank
  Chapters <- PlanChapters
  NonCritical <- PlanNonCritical
  RetryTimes = 1
  MaxWorkers = 3
  BatchSizes = {0, 1, 2}
  MaxRounds = 2
  StageList <- NovelStages
  Followers <- NovelFollowers
  Condition <- NovelCondition
  Reads <- NovelReads
  Writes <- NovelWrites
  NoStage = NoStage
  Runners = {r1, r2}
  StageRetries = 1
INVARIANTS
  WorkflowTypeOK
  DependenciesSettled
  CompletedMeansAll
  FailedMeansExhausted
  InputsThere
PROPERTIES
  ScheduleSpec
  RunEnds
  ExecutionsReturn
