\* Batches of two, three events at most; a stream of three entries, the first
\* malformed, read two at a time by two processes, with two faults: as many as it
\* takes to make every start fail.
SPECIFICATION MCSpec
CONSTANTS
  e1 = e1  e2 = e2  e3 = e3
  created = created  progress = progress  any = any
  client = client  waiter = waiter  logger = logger
  audit = audit  index = index
  Events = {e1, e2, e3}
  TypeOf <- MCTypeOf
  Patterns = {any}
  Covers <- MCCovers
  Handlers = {client, waiter, logger}
  AsyncHandlers = {waiter}
  BatchSize = 2
  HistorySize = 2
  ReplayLimit = 1
  Subscriptions <- MCSubscriptions
  MaxReplays = 1
  Processor = Processor
  Streams = {client}
  StreamSub <- MCStreamSub
  Processes = {p1, p2}
  StreamHandlers = {audit, index}
  Wanted <- MCWanted
  MaxEntries = 3
  Malformed = {1}
  ReadCount = 2
  MaxFaults = 2
INVARIANTS
  EventsTypeOK
  BatchInOrder
  OneShotOnce
  SentInOrder
PROPERTIES
  FeedKept
  DeliveryKept
  BatchDrains
  StreamDelivers
  EntriesSettle
CHECK_DEADLOCK FALSE
