\* MongoDB is down when the first agent looks for it.
SPECIFICATION NovelSpec
CONSTANTS
  ChapterCount = 2
  MaxWorkers = 2
  WordsPerChapter = 1201
  LongOutline = 4
  ShortOutline = 1
  DefaultOutline = 3
  OwnOutlines = {}
  Said = {"list"}
  Capacity = 2
  MaxTexts = 1
INVARIANT ChapterKept
CHECK_DEADLOCK FALSE
