\* A pause is lost to the end of planning.
SPECIFICATION MCSpec
CONSTANTS
  ChapterCount = 1
  Nodes <- PlanNodes
  Deps <- PlanDeps
  Rank <- PlanRank
  Chapters <- PlanChapters
  NonCritical <- PlanNonCritical
  RetryTimes = 1
  MaxWorkers = 3
  BatchSizes = {0, 1}
  MaxRounds = 1
  StageList <- NovelStages
  Followers <- NovelFollowers
  Condition <- NovelCondition
  Reads <- NovelReads
  Writes <- NovelWrites
  NoStage = NoStage
  Runners = {r1, r2}
  StageRetries = 1
PROPERTY PauseHolds
