\* A diamond of four nodes and a task of its own on two workers, one of which
\* may be registered a second time.
SPECIFICATION FairSpec
CONSTANTS
  a = a
  b = b
  c = c
  d = d
  x = x
  outliner = outliner
  writer = writer
  NoTask = NoTask
  Tasks <- MCTasks
  DagNodes <- MCDagNodes
  Deps <- MCDeps
  Names = {outliner, writer}
  Wants <- MCWants
  Slots <- MCSlots
  AgentName <- MCAgentName
  MaxRetries <- MCMaxRetries
  Cancellable = {b}
  Pausable = {b}
  Removable = {1}
  Threaded = {2}
  Stalling = {b}
INVARIANTS
  TypeOK
  AttemptOnce
  BusyWorks
  OnlyUnregisteringLoses
  GraphOrder
  FailureReachesAll
PROPERTIES
  GraphKept
  Answered
CHECK_DEADLOCK FALSE
