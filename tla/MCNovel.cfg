\* Two chapters of two sections, a thread for each, a cache of two.
SPECIFICATION NovelFairSpec
CONSTANTS
  ChapterCount = 2
  MaxWorkers = 2
  WordsPerChapter = 1201
  LongOutline = 4
  ShortOutline = 1
  DefaultOutline = 3
  OwnOutlines = {1}
  Said = {"short", "chapters:", "generate", "chaos", "list"}
  Capacity = 2
  MaxTexts = 1
INVARIANTS
  NovelTypeOK
  MainHandlers
  OutlineFound
  StoredWhole
  StoreKeeps
PROPERTIES
  ChaptersEnd
CHECK_DEADLOCK FALSE
