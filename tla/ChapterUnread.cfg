\* The quality report of a novel whose chapters are all stored.
SPECIFICATION NovelSpec
CONSTANTS
  ChapterCount = 2
  MaxWorkers = 2
  WordsPerChapter = 1201
  LongOutline = 4
  ShortOutline = 1
  DefaultOutline = 3
  OwnOutlines = {}
  Said = {"list"}
  Capacity = 2
  MaxTexts = 1
INVARIANT ChaptersReviewed
CHECK_DEADLOCK FALSE
