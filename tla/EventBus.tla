------------------------------ MODULE EventBus ------------------------------
(* The in-memory event bus (core/event_bus.py).                              *)
(*                                                                           *)
(* The bus lives in the event loop: between two awaits a coroutine runs      *)
(* alone. The statistics lock is never held across an await, so publishing   *)
(* without a batch is one step. The batch lock is held while a flush waits   *)
(* for the tasks it gathered, so adding to a batch and flushing it are steps *)
(* of their own, and asyncio.Lock hands the lock over in order of arrival.   *)
(* Asynchronous handlers run as tasks and the others in threads: a call is   *)
(* over in a later step, and the calls end in any order.                     *)
EXTENDS Naturals, FiniteSets, SequencesExt

CONSTANTS
  Events,           \* Event objects
  TypeOf,           \* the type of each event
  Patterns,         \* subscription types that end in ".*"
  Covers,           \* the types a pattern is a prefix of
  Handlers,         \* handlers
  AsyncHandlers,    \* those that are coroutine functions or EventHandlers
  BatchSize,        \* _batch_size
  HistorySize,      \* _history_size
  ReplayLimit,      \* the limit of get_history
  Subscriptions,    \* the calls of subscribe the application makes, an event
                    \* filter as the set of events it matches
  MaxReplays,       \* bound: calls of replay
  Processor         \* _batch_processor

ASSUME EventAssumption ==
  /\ BatchSize \in Nat \ {0}
  /\ HistorySize \in Nat \ {0} /\ ReplayLimit \in Nat \ {0}
  /\ AsyncHandlers \subseteq Handlers
  /\ Processor \notin Events
  /\ MaxReplays \in Nat

Types == {TypeOf[e] : e \in Events}
Keys == Types \cup Patterns

\* No type of an event ends in ".*".
ASSUME SubscriptionAssumption ==
  /\ Types \cap Patterns = {}
  /\ IsFiniteSet(Patterns) /\ IsFiniteSet(Subscriptions)
  /\ Subscriptions \subseteq [handler: Handlers, keys: SUBSET Keys,
                              filter: SUBSET Events, once: BOOLEAN]

VARIABLES
  bus,          \* _handlers, _history and the calls of handlers
  batchQueue,   \* _batch_queue
  lockQueue,    \* the holder of _batch_lock, then those that wait for it
  flushing,     \* the holder of the lock waits for its gather
  ready,        \* tasks of _process_event, in the order the loop starts them
  processor,    \* _batch_task
  closing,      \* where shutdown is
  awaited,      \* the calls shutdown waits for, as pairs of handler and event
  fresh,        \* events that have not been published
  pending,      \* calls of subscribe to come
  batched,      \* events published with batch=True, in order
  seen,         \* events that were processed
  replays       \* calls of replay so far

batchVars == <<batchQueue, lockQueue, flushing, ready, processor>>
closeVars == <<closing, awaited>>
busVars == <<bus, batchVars, closeVars, fresh, pending, batched, seen, replays>>

Nobody == [h \in Handlers |-> [e \in Events |-> 0]]

BusTypeOK ==
  /\ bus.handlers \in [Keys -> SUBSET Subscriptions]
  /\ bus.history \in Seq(Events) /\ Len(bus.history) <= HistorySize
  /\ bus.running \in [Handlers -> [Events -> Nat]]
  /\ bus.called \in [Handlers -> [Events -> Nat]]
  /\ batchQueue \in Seq(Events) /\ Len(batchQueue) < BatchSize
  /\ lockQueue \in Seq(Events \cup {Processor})
  /\ flushing \in BOOLEAN
  /\ ready \in Seq([event: Events, flush: BOOLEAN])
  /\ processor \in {"none", "asleep", "awake"}
  /\ closing \in {"open", "waiting", "closed"}
  /\ awaited \subseteq AsyncHandlers \X Events
  /\ fresh \subseteq Events
  /\ pending \subseteq Subscriptions
  /\ batched \in Seq(Events)
  /\ seen \subseteq Events
  /\ replays \in 0..MaxReplays

\* The events that will be published, the subscriptions that will be made, and
\* whether the bus has seen its replays and its shutdown before.
BusInit(events, subscriptions, used) ==
  /\ bus = [handlers |-> [k \in Keys |-> {}], history |-> <<>>,
            running |-> Nobody, called |-> Nobody]
  /\ batchQueue = <<>> /\ lockQueue = <<>> /\ flushing = FALSE /\ ready = <<>>
  /\ processor = "none" /\ closing = (IF used THEN "closed" ELSE "open") /\ awaited = {}
  /\ fresh = events /\ pending = subscriptions
  /\ batched = <<>> /\ seen = {}
  /\ replays = IF used THEN MaxReplays ELSE 0

-----------------------------------------------------------------------------
(* Subscriptions. Subscribing to a list of types makes an entry per type; the *)
(* calls for an event end in any order, so the entries have none.            *)

Subscribe(s) ==
  /\ s \in pending
  /\ pending' = pending \ {s}
  /\ bus' = [bus EXCEPT !.handlers = [k \in Keys |->
               IF k \in s.keys THEN @[k] \cup {s} ELSE @[k]]]
  /\ UNCHANGED <<closeVars, batchVars, fresh, batched, seen, replays>>

\* What the function that subscribe returned does: it drops every entry of the
\* handler under these types, those of its other subscriptions too.
WithoutHandler(hs, h, keys) ==
  [k \in Keys |-> IF k \in keys
                  THEN {s \in hs[k] : s.handler # h}
                  ELSE hs[k]]

Unsubscribe(s) ==
  /\ s \in Subscriptions \ pending
  /\ bus' = [bus EXCEPT !.handlers = WithoutHandler(@, s.handler, s.keys)]
  /\ bus' # bus
  /\ UNCHANGED <<closeVars, batchVars, fresh, pending,
                 batched, seen, replays>>

-----------------------------------------------------------------------------
(* Processing of an event: one step of the loop.                             *)

KeysOf(e) == {TypeOf[e]} \cup {p \in Patterns : TypeOf[e] \in Covers[p]}

\* The event filter of a subscription.
Passes(s, e) == e \in s.filter

\* The entries of h that match e, with the key each is under.
Matches(hs, e, h) ==
  {x \in KeysOf(e) \X Subscriptions :
     x[2] \in hs[x[1]] /\ x[2].handler = h /\ Passes(x[2], e)}

CallsOf(hs, e, h) == Cardinality(Matches(hs, e, h))

\* Handlers that matched e with a one-shot entry.
Spent(hs, e) == {h \in Handlers : \E x \in Matches(hs, e, h) : x[2].once}

\* Mutant of MatchingRemoved: the entries stay.
NothingRemoved(hs, e) == hs

\* One-shot handlers leave the list of the event's own type, and only that one.
MatchingRemoved(hs, e) ==
  [hs EXCEPT ![TypeOf[e]] = {s \in @ : s.handler \notin Spent(hs, e)}]

\* Mutant of Remember: the history is not bounded.
RememberAll(history, e) == Append(history, e)

Remember(history, e) ==
  IF Len(history) < HistorySize THEN Append(history, e)
  ELSE Append(Tail(history), e)

More(count, hs, e) ==
  [h \in Handlers |-> [count[h] EXCEPT ![e] = @ + CallsOf(hs, e, h)]]

Process(b, e) ==
  [handlers |-> MatchingRemoved(b.handlers, e),
   history |-> Remember(b.history, e),
   running |-> More(b.running, b.handlers, e),
   called |-> More(b.called, b.handlers, e)]

\* publish without a batch.
PublishNow(e) ==
  /\ e \in fresh
  /\ fresh' = fresh \ {e}
  /\ bus' = Process(bus, e)
  /\ seen' = seen \cup {e}
  /\ UNCHANGED <<closeVars, batchVars, pending, batched, replays>>

\* A task of _process_event that a gather has scheduled.
ProcessTask ==
  /\ ready # <<>>
  /\ bus' = Process(bus, Head(ready).event)
  /\ seen' = seen \cup {Head(ready).event}
  /\ ready' = Tail(ready)
  /\ UNCHANGED <<closeVars, batchQueue, lockQueue, flushing, processor, fresh,
                 pending, batched, replays>>

\* A handler, in its task or thread, comes to its end.
FinishCall(h, e) ==
  /\ bus.running[h][e] > 0
  /\ bus' = [bus EXCEPT !.running[h][e] = @ - 1]
  /\ UNCHANGED <<closeVars, batchVars, fresh, pending,
                 batched, seen, replays>>

-----------------------------------------------------------------------------
(* Batches.                                                                  *)

Tasks(events, flush) ==
  [i \in DOMAIN events |-> [event |-> events[i], flush |-> flush]]

\* _flush_batch up to its await; the holder of the lock keeps it.
FlushBatch(queue) ==
  /\ batchQueue' = <<>>
  /\ ready' = ready \o Tasks(queue, TRUE)
  /\ flushing' = TRUE

\* Mutant of EnterBatch: the event that fills the queue is not queued itself.
EnterBatchAhead(e, waiters) ==
  /\ processor' = IF processor = "none" THEN "asleep" ELSE processor
  /\ IF Len(batchQueue) + 1 >= BatchSize
     THEN FlushBatch(<<e>> \o batchQueue) /\ lockQueue' = <<e>> \o waiters
     ELSE /\ batchQueue' = Append(batchQueue, e)
          /\ lockQueue' = waiters
          /\ UNCHANGED <<ready, flushing>>

\* _add_to_batch by the holder of the lock: the processor is started when there
\* is none, a full queue is flushed at once.
EnterBatch(e, waiters) ==
  /\ processor' = IF processor = "none" THEN "asleep" ELSE processor
  /\ LET queue == Append(batchQueue, e)
     IN IF Len(queue) >= BatchSize
        THEN FlushBatch(queue) /\ lockQueue' = <<e>> \o waiters
        ELSE /\ batchQueue' = queue
             /\ lockQueue' = waiters
             /\ UNCHANGED <<ready, flushing>>

\* publish with batch=True; a lock that is taken is waited for.
PublishBatched(e) ==
  /\ e \in fresh
  /\ fresh' = fresh \ {e}
  /\ batched' = Append(batched, e)
  /\ IF lockQueue = <<>>
     THEN EnterBatch(e, <<>>)
     ELSE /\ lockQueue' = Append(lockQueue, e)
          /\ UNCHANGED <<batchQueue, flushing, ready, processor>>
  /\ UNCHANGED <<bus, closeVars, pending, seen, replays>>

AddToBatch ==
  /\ lockQueue # <<>> /\ Head(lockQueue) # Processor /\ ~flushing
  /\ EnterBatch(Head(lockQueue), Tail(lockQueue))
  /\ UNCHANGED <<bus, closeVars, fresh, pending, batched, seen, replays>>

\* Mutant of FlushByTimer: the timer leaves a queue that is not full.
FlushByTimerFull(waiters) ==
  IF Len(batchQueue) >= BatchSize
  THEN FlushBatch(batchQueue) /\ lockQueue' = <<Processor>> \o waiters
                             /\ processor' = "awake"
  ELSE /\ lockQueue' = waiters
       /\ processor' = "asleep"
       /\ UNCHANGED <<batchQueue, ready, flushing>>

\* The processor holds the lock: what is queued is flushed.
FlushByTimer(waiters) ==
  IF batchQueue # <<>>
  THEN FlushBatch(batchQueue) /\ lockQueue' = <<Processor>> \o waiters
                             /\ processor' = "awake"
  ELSE /\ lockQueue' = waiters
       /\ processor' = "asleep"
       /\ UNCHANGED <<batchQueue, ready, flushing>>

\* _batch_interval is over.
ProcessorWakes ==
  /\ processor = "asleep"
  /\ IF lockQueue = <<>>
     THEN FlushByTimer(<<>>)
     ELSE /\ lockQueue' = Append(lockQueue, Processor)
          /\ processor' = "awake"
          /\ UNCHANGED <<batchQueue, ready, flushing>>
  /\ UNCHANGED <<bus, closeVars, fresh, pending, batched, seen, replays>>

ProcessorFlushes ==
  /\ lockQueue # <<>> /\ Head(lockQueue) = Processor /\ ~flushing
  /\ FlushByTimer(Tail(lockQueue))
  /\ UNCHANGED <<bus, closeVars, fresh, pending, batched, seen, replays>>

\* The gather of a flush is over and the lock is released.
FlushEnds ==
  /\ flushing
  /\ \A i \in DOMAIN ready : ~ready[i].flush
  /\ flushing' = FALSE
  /\ lockQueue' = Tail(lockQueue)
  /\ processor' = IF Head(lockQueue) = Processor THEN "asleep" ELSE processor
  /\ UNCHANGED <<bus, closeVars, batchQueue, ready, fresh, pending,
                 batched, seen, replays>>

\* publish_batch: without wait the coroutines are made and never run.
PublishBatch(events, wait) ==
  /\ ToSet(events) \subseteq fresh
  /\ fresh' = fresh \ ToSet(events)
  /\ ready' = IF wait THEN ready \o Tasks(events, FALSE) ELSE ready
  /\ UNCHANGED <<bus, closeVars, batchQueue, lockQueue, flushing, processor,
                 pending, batched, seen, replays>>

-----------------------------------------------------------------------------
(* Replay and shutdown.                                                      *)

Recent(history) ==
  IF Len(history) <= ReplayLimit THEN history
  ELSE SubSeq(history, Len(history) - ReplayLimit + 1, Len(history))

\* The bus after the events of the list, one by one.
Replayed(b, events) ==
  LET after[i \in 0 .. Len(events)] ==
        IF i = 0 THEN b ELSE Process(after[i - 1], events[i])
  IN  after[Len(events)]

\* replay without a handler publishes the latest of the history once more.
ReplayAll ==
  /\ replays < MaxReplays /\ bus.history # <<>>
  /\ bus' = Replayed(bus, Recent(bus.history))
  /\ replays' = replays + 1
  /\ UNCHANGED <<closeVars, batchVars, fresh, pending, batched, seen>>

\* The tasks that run now will be awaited; threads are not.
ShutdownBegins ==
  /\ closing = "open"
  /\ closing' = "waiting"
  /\ awaited' = {c \in AsyncHandlers \X Events : bus.running[c[1]][c[2]] > 0}
  /\ UNCHANGED <<bus, batchVars, fresh, pending, batched, seen, replays>>

\* Neither the batch queue nor the processor is looked at.
ShutdownEnds ==
  /\ closing = "waiting"
  /\ \A c \in awaited : bus.running[c[1]][c[2]] = 0
  /\ closing' = "closed"
  /\ bus' = [bus EXCEPT !.handlers = [k \in Keys |-> {}], !.history = <<>>]
  /\ UNCHANGED <<batchVars, awaited, fresh, pending, batched, seen, replays>>

\* What the loop does on its own.
LoopStep ==
  \/ ProcessTask \/ AddToBatch \/ ProcessorWakes \/ ProcessorFlushes \/ FlushEnds

BusStep ==
  \/ \E e \in Events : PublishNow(e) \/ PublishBatched(e)
  \/ \E e, f \in Events, wait \in BOOLEAN : e # f /\ PublishBatch(<<e, f>>, wait)
  \/ LoopStep
  \/ ReplayAll
  \/ ShutdownBegins
  \/ ShutdownEnds

BusNext ==
  \/ BusStep
  \/ \E s \in Subscriptions : Subscribe(s) \/ Unsubscribe(s)
  \/ \E h \in Handlers, e \in Events : FinishCall(h, e)

-----------------------------------------------------------------------------
(* Properties.                                                               *)

\* Through the batch, events are processed in the order of their publication:
\* whatever flushes (size, timer) and however direct publications and shutdown
\* fall between them, none is processed before one published earlier.
BatchInOrder ==
  \A i, j \in DOMAIN batched :
    i < j /\ batched[j] \in seen => batched[i] \in seen

\* A handler subscribed to one concrete type with once=True and in no other way
\* is called for one event at most, whatever is published at the same time,
\* from a batch or by a replay.
OneShotOnce ==
  \A s \in Subscriptions :
    s.once /\ (\E k \in Types : s.keys = {k})
      /\ (\A r \in Subscriptions : r.handler = s.handler => r = s)
    => \A e, f \in Events : /\ bus.called[s.handler][e] <= 1
                            /\ bus.called[s.handler][e] = 0
                                 \/ bus.called[s.handler][f] = 0 \/ e = f

\* An event published with batch=True is processed in the end, by the flush of a
\* full queue or by the timer, after a shutdown too.
BatchDrains == \A e \in Events : e \in ToSet(batched) ~> e \in seen
=============================================================================
