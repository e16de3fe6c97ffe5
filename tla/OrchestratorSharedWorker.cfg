\* One idle worker is given every queued task.
SPECIFICATION Spec
CONSTANTS
  a = a
  b = b
  c = c
  d = d
  x = x
  outliner = outliner
  writer = writer
  NoTask = NoTask
  Tasks <- MCTasks
  DagNodes <- MCDagNodes
  Deps <- MCDeps
  Names = {outliner, writer}
  Wants <- MCWants
  Slots <- MCSlots
  AgentName <- MCAgentName
  MaxRetries <- MCMaxRetries
  Cancellable = {b}
  Pausable = {b}
  Removable = {1}
  Threaded = {2}
  Stalling = {b}
PROPERTY BusyTakesNothing
CHECK_DEADLOCK FALSE
