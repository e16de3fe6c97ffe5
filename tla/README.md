# AI-Novels: a TLA+ model of the generation engine

AI-Novels writes a novel with a dozen LLM agents. A request becomes a task; a
coordinator plans a graph of agents and chapters and runs it with threads,
retries and pauses; a second scheduler, the task orchestrator, runs single
agent tasks and task graphs on a pool of workers; around them are event buses,
LLM routers, pools, message queues and databases. This directory models the
parts of that program whose correctness depends on the order of things, checks
them with TLC on small instances, and proves with TLAPS what matters most for
every graph and every limit.

Paths below are relative to `src/src/ai_novels/`. "Graph" is what the code
calls DAG.

## 1. Inventory

### The parts that decide what runs when

"Modelled in its main part" means that the notes in `PROJECT.json` ("components")
name what of the component is left out.

**Coordinator agent** (`agents/coordinator.py`, modelled in its main part).
State: `_workflow_state`, `_dag` with a status per node, thread-local progress
through `_execute_single_node`. Operations: a generation request plans and
starts, `stop` pauses, `resume` continues, `reset` forgets;
`execute_ready_nodes(batch_size, parallel)` runs a snapshot of the ready nodes,
`execute_next_node` runs one. It calls the agents and is called by the task
executor from a worker thread. Hard: chapters run in three pool threads, a node
is completed before its result is handled and may still turn into a failure,
exceptions of two kinds end a node differently, and requests come from other
threads. Correct when dependencies settle before dependants start, a verdict on
the workflow fits the statuses of all nodes, pausing takes effect at the next
call, and the run ends.

**Task executor and task requests** (`api/controllers.py`,
`api/routes/task_routes.py`, `repositories/base.py`, `models/task.py`, modelled in its main part).
State: the row of the task (status, progress, current stage) in PostgreSQL, the
position of the background job `_execute_task`, its own coordinator. Hard: the
job and the requests read and write one row in separate transactions at READ
COMMITTED; a node that takes more than 600 s is given up while its thread goes
on; any transaction may fail. Correct when a cancelled or paused task starts at
most the node it was about to start, progress never goes back, "completed" means
nothing is left to run, and the job ends.

**Task orchestrator** (`agents/task_orchestrator.py`, modelled in its main part).
State: a priority queue, known tasks with their retry counts, worker slots,
graph nodes, results, paused ids, the running flag. One dispatcher and one
coroutine per task in one event loop. Hard: the dispatcher does not yield while
the queue has entries; workers may be unregistered under a task; pausing holds a
worker; cancelling only writes a result; retries and propagation of success and
failure in graphs overlap; an agent in a thread outlives its time limit, and the
task is tried again beside it. Correct when every attempt is made once and
counted, no task is forgotten, the order of graphs is kept, verdicts are final
and every task is answered.

**The agents and the novel they write** (`agents/*_generator.py`,
`agents/outline_planner.py`, `agents/quality_checker.py`, ...,
`persistence/agent_persist.py`, `persistence/manager.py`, modelled in its main
part). State: the documents of one novel, the database clients of the process,
the sections a chapter's thread has. The coordinator builds a message for a node
out of the request and of earlier answers; the agent picks a handler by the
words it finds in the message. Hard: a word of the request or of a model's
answer may select another handler or another number of outlines; three chapters
are written at a time and ask one shared cache; a client that could not connect
is kept and later looks usable. Correct when every agent does the work the plan
gives it, a stored chapter is made of texts written for it, and what a completed
node made is stored.

**Workflow engine** (`agents/workflow_orchestrator.py`, and `execute_workflow`
of the task orchestrator, modelled in their main part). State: a task with its
current stage, state, retries and outputs, shared by the threads that execute
it. Hard: there is no lock, a stage under way looks at nothing, `resume_task`
executes a task that may still be executed, and the retries of all stages are
counted together. Correct when an agent is asked only after its inputs were
written and every call returns.

### The parts that carry calls, messages and resources

**Event bus and event stream** (`core/event_bus.py`, `event_stream` in
`api/main.py`, modelled in their main part): subscriptions with filters and
wildcards, one-shot handlers, batches flushed by size and by timer, history and
replay; for each SSE client a queue its handler fills from threads. Hard: the
batch lock is held while a flush waits, handlers run in tasks and threads of
their own, and `asyncio.Queue` is used from threads. Correct when batched events
keep their order and are not forgotten, a one-shot handler runs once, and what
the bus hands a client is sent.

**Redis event bus** (`core/redis_event_bus.py`, modelled in its main part): a stream with a
consumer group shared by processes. Hard: a crash, a stop or a failing call
between reading and acknowledging; the loop asks for new entries only, under a
new name; a `start` that fails leaves the bus marked as running. Correct when nothing is handled twice, what is acknowledged was
handled, and what was not can be told.

**LLM calls and cache** (`core/llm_router.py`, `llm/cache.py`, modelled in their
main part): an LRU cache with a time to live, locked for one operation and not
for a call. Hard: two threads miss the same key, entries expire and are evicted
between lookup and store. Correct when dictionary and list agree and a caller
gets a text of its own prompt.

**Resource and connection pools** (`core/resource_manager.py`,
`database/connection_pool.py`, modelled in their main part): a semaphore, a list of idle
connections, a table of those in use. Hard: permits on error paths, expiry,
`close_all` while connections are out. Correct when no connection has two users
and no more than `max_size` are out.

**Context store** (`core/context_manager.py`, modelled in its main part): items in scopes with
expiry, eviction and snapshots, and a read cache with a lock of its own. Hard: a
read between the two locks while another thread sets the name. Correct when the
cache never answers with an older item than the storage would.

**Messaging** (`messaging/`, `message/`, `agents/agent_communicator.py`, not
modelled, see section 8): RocketMQ producer and consumer, switched off where the
API starts (`api/main.py` l. 266-269).

### The rest

Tools, prompt assembly, retrieval, LLM adapters, database clients, ORM classes,
services, repositories, HTTP routes, authentication, configuration and utilities
are sequential request handling, text processing or I/O. They are listed in
`PROJECT.json` with the reason each is left out. The schedulers' models see of an
agent that it succeeds, fails for now, or fails; `NovelPipeline` opens that box.
The frontend, the deployment files and the migrations are not part of the model.

### How they interact

```
HTTP routes --create--> TaskController._execute_task --thread--> CoordinatorAgent --threads--> agents
     |                        |  ^                                                                ^
     +--cancel/pause/resume--> row (PostgreSQL)                                                   |
     +--submit/cancel/pause--> TaskOrchestrator --dispatcher, coroutines--> worker slots ---------+
                                    |
                                    +--events--> EventBus --> queue of each SSE client

agents --ask--> LLMRouter with its cache          agents --store--> PersistenceManager --> MongoDB, files
```

`task_action` asks the orchestrator first and touches the row only when the
orchestrator answers False. `TaskOrchestrator.pause` answers True for any id
without a result, so in the deployed wiring a pause request never reaches the
row of a coordinator task; the constant `PauseAnswers` of `TaskExecution` covers
both answers.

## 2. Modules

| Module | Models | Uses |
|---|---|---|
| `DagSchedule` | abstract: what a scheduler of one graph promises | |
| `WorkflowPlan` | the graph `_plan_workflow` and `_build_dag` make for n chapters | |
| `CoordinatorDAG` | the coordinator on any graph | `DagSchedule` (refined) |
| `TaskExecution` | executor, row, requests, around a coordinator | extends `CoordinatorDAG` |
| `TaskGraph` | abstract: what `submit_dag` promises of a graph of tasks | |
| `TaskOrchestrator` | the orchestrator on any tasks, graph and workers | `TaskGraph` (refined) |
| `WorkflowEngine` | the workflow engine, and the graph inferred from a workflow | |
| `NovelWorkflow` | the default workflow, as values of its constants | |
| `EventBus` | the in-memory bus | |
| `ClientFeed` | abstract: what the event stream promises a client | |
| `EventStream` | the SSE clients on that bus | extends `EventBus`; `ClientFeed` (refined) |
| `EntryDelivery` | abstract: what the processes promise of an entry of the Redis stream | |
| `RedisEventBus` | the bus on a Redis stream, several processes | `EntryDelivery` (refined) |
| `LlmCalls` | calls to the model through the shared cache | |
| `NovelPipeline` | one novel: messages, handlers, chapters, storage | extends `WorkflowPlan`, instantiates `LlmCalls` |
| `PoolContract` | abstract: what a pool promises its users | |
| `PoolState` | what both pools have in common | `PoolContract` (refined) |
| `ResourcePool`, `DbPool` | the two pools | extend `PoolState` |
| `ContextStore` | the context manager | |
| `MC...` | instances for TLC | |
| `CoordinatorDAGProofs`, `TaskExecutionProofs`, `TaskOrchestratorProofs`, `WorkflowEngineProofs` | theorems about these modules, and in the last one about `MCCoordinatorDAG` | TLAPS |
| `EventProofs` | theorems about the bus, the streams on it, the Redis bus, and `MCEvents` | `ListLemmas`, TLAPS |
| `NovelPipelineProofs` | theorems about the novel | `ListLemmas`, TLAPS |
| `ServiceProofs` | theorems about the LLM cache, both pools, the context store, and `MCServices` | `ListLemmas`, TLAPS |
| `ListLemmas` | lemmas about lists without repetition, concatenation, LRU lists and least numbers | TLAPS |

### CoordinatorDAG

The variables `wf`, `hasDag` and `status` are the fields of the agent. The
others are places in the code: `driver` is where the thread that calls
`execute_ready_nodes` is, `serial` and `pool` what its call still has to run,
`thread[n]` where the thread executing node n is ("starting" while the agent and
its context are made, "calling" during `agent.process`, "post" while the result
is handled, which is after the node was set to completed), `attempt[n]` the
retry counter, `results` and `raised` what the call has collected.

`EnterCall` is the head of a call, its guard on the workflow state; `TakeBatch`
is the snapshot of the ready nodes, cut to `batch_size`, split into other nodes
and chapters. They are two steps, so a pause that comes in between does not keep
the call from taking nodes.
`FindNothingReady` and `CloseRun` are the two steps of the call that finds
nothing ready (the statuses are read again after the snapshot, and a pause may
come between). `SubmitPool`, `BeginPooled`, `LeavePool` are the thread pool,
whose exit waits for all its threads. `PreparationFails` is an exception outside
the two try blocks of `_execute_single_node`: the node stays "executing" and the
call ends (serial) or loses its results (pool). `AgentRetries`, `AgentFails` are
the inner try block, `ResultHandlerFails` the outer one, which turns a completed
node into a failed one.

Planning asks the LLM, so it takes two steps and other threads may send `stop`
in between. `StartPlanning` and `Reset` come between two calls of
`execute_ready_nodes` (`driver` is idle): the handlers do not ask for that, the
callers see to it, since the executor makes a coordinator of its own for each
task and plans once before its first call (`api/controllers.py` l. 271), and
nothing but tests plans again or resets. `MaxRounds` bounds generation requests.

Abstracted: content and context of nodes, events, counters, which exceptions are
transient (either is possible), the sleep between attempts.

### TaskExecution

`pc` is where `_execute_task` is. A transaction that reads the status, checks it
and writes takes two steps (another commit may fall between them); one that only
writes takes one. `asked` holds the requests that have passed their check and
not yet written; `taken` is whether `TaskOrchestrator.pause` answers True for
this task; `begun` is auxiliary and counts the nodes begun since the row last
became cancelled or paused.

The executor calls the coordinator with `execute_next_node` through
`run_in_executor`, so `WorkerBegins` and `WorkerStep` reuse the actions of
`CoordinatorDAG`. `TimeOut` leaves the worker running. `Raise` is any exception
in the try block, `MarkFailed` its except clause, `Vanish` an exception of the
first transaction or of the except clause itself: nobody is left to write.

Not modelled: the branch on `dag_plan["error"]` (never set), an unknown agent
name (the plan only uses known ones), the column `logs` (the append in place is
not seen by the ORM and is never stored), the fields `config_enhancer`
synchronises, and a crash of the process: nothing looks at the rows at start-up,
so the model of a crash would be one step after which nothing happens. A task
with a failed critical node ends "completed", since the loop ends for want of a
next node: `CompletedMeansExhausted` says what completed means here, and no
more.

### TaskOrchestrator

The code runs in one event loop, and none of its locks is held across a
suspension (`publish_type` and `submit` do not suspend), so an action is the
stretch between two suspensions. The dispatcher therefore empties the queue in
one step: `Dispatch` gives every entry a worker and a coroutine. What the
priorities leave to decide is the order in which the coroutines first run; the
model allows any order, so the queue is a set. `exec[t]` is where the coroutine
is: created and not yet run, held by a pause, or awaiting the agent. Slots are
numbered in the order they are created, which is the order of the dictionary
`_workers`; registering a name anew takes a new slot, and `Begin` looks the
worker up by name again as the code does.

The coroutine is not the run of the agent: an agent without `aprocess` runs in a
thread (`run_in_executor`), and the time limit ends only the waiting for it. So
`LeaveRun`, a part of `Retry` and `Fail`, may leave a run behind in `stray`, with
the attempt it belongs to and the slot it was given; `RunEnds` ends it, and its
answer goes nowhere. `Threaded` names the slots of such agents.

Bounds: `Cancellable`, `Pausable`, `Removable` and `Stalling` name the tasks and
slots that clients and operators touch, and the tasks that may outlive the time
limit, in an instance.

`TaskGraph` is the graph of `submit_dag` from outside. `Phase` maps a node to
where it is there: "submitted" is everything between the submission of its task
and the verdict, retries and a cancelled answer included. An answer of a task is one step
of the abstract graph however many nodes it submits or takes along, and
`LostWith` says what a failure takes along without the walk the code makes.

### EventBus and EventStream

The bus runs in the event loop and an action is the stretch between two awaits.
`PublishNow` and `ProcessTask` process an event (history, calls, one-shot
handlers removed) in one step; `PublishBatched`, `AddToBatch` and `FlushEnds`
are the steps of a publication that waits for `_batch_lock`, enters the queue,
flushes a full one and holds the lock until the gathered tasks have begun;
`ProcessorWakes` and `ProcessorFlushes` are the timer. `bus.running[h][e]` counts
the tasks and threads in which h handles e, and `FinishCall` ends one of them, in
any order. `ShutdownBegins` and `ShutdownEnds` are the two halves of `shutdown`.
`handlers[k]` is a set of subscriptions: the order of a type's handlers decides
in which order one event's calls are made, all of them in one step, and no
property speaks of it. A handler is called once for every key its subscriptions
match (`CallsOf`), as the code does that goes through the types and wildcards.

`EventStream` adds the generator of each client: `FindEmpty`, `Park`, `GetAgain`
and `Heartbeat` are the steps of `wait_for(queue.get())` that a thread's `Put`
and `Wake` can fall between, so a wake-up may be lost. `Yield` sends, `Close` is
the generator's finally clause. `settled` is auxiliary: what had been put before
the bus called the handler for an event.

`ClientFeed` keeps of all this, for each client, whether it is there, the calls
of its handler that have yet to end, the queue and what was sent. A step of the
bus is there the beginning of any number of calls, but only for clients that are
there; a client that leaves takes its entries off the bus, and calls under way
then end unseen.

### RedisEventBus

Redis (stream, group, acknowledgements) outlives the processes. An entry is its
place in the stream. `running` is the field `_running`, `looping` whether there
is a loop: `StartLoop` sets both, `StartFails` only the first, as `start` does
when `xgroup_create` raises, and a bus that counts as running is not started
again until it is stopped. `Register` is `subscribe`, at any time; a handler that
comes while an entry of its type is gone through is still called for it. A loop's
batch is the range `first[p]..last[p]`;
`BeginEntry`, `CallHandler` and `Acknowledge` take its first entry through the
handlers, with an await between any two. `LetGo` is what every crash, stop and
failed call leaves behind: the entries in hand stay pending in the group and
nobody asks for them again (`dropped`). Of an entry whose data is no JSON object
(`Malformed`) either happens that can: what is no JSON is skipped (`SkipMalformed`),
what is JSON raises past the loop's parsing and takes the rest of its batch along
(`AbandonBatch`). `MaxFaults`
bounds crashes, stops of a loop, failed starts and failed calls. A failed
`XREADGROUP` or `XACK` may have been carried out by Redis or not.

`EntryDelivery` has no processes. `Fate` reads off what has become of an entry
(unread, taken, begun, acknowledged, dropped) and `Due` the handlers it is still
to go through; a batch, a failed read, a crash or a stop moves several entries in
one step.

### LlmCalls

`Ask` is the lookup (a hit, a miss, or an expired entry that is removed),
`ClientWrites`, `ClientAnswersBlank` and `ClientFails` what the provider answers
and what is stored, `Age` the passing of a ttl. A text is the key it was written
for and a number; `MaxTexts` bounds them.

### NovelPipeline

A message is the set of words that matter to a dispatch: those of
`_build_agent_context` for the agent and of the Task Context, the word a handler
puts into its answer whatever the model writes, and any of `Said`, chosen anew for
each message: what the request and the texts of the answers happen to say.
`_create_agent` takes the classes of `agents/implementations.py`. Three of them
(`ModelOnly`: `config_enhancer`, `chapter_summary`, `conflict_generator`) ask the
model at once and have nothing to dispatch; the other seven are those of the
agents' own files, whose tests `...Rows` gives in the order of the code. `Route`
takes the first that fits. The files `config_enhancer.py`, `chapter_summary.py`
and `conflict_generator.py` hold classes of the same names that the coordinator
never builds. `OutlineCounts` is what the outline planner makes of the words: the
number asked for, the number a "Chapters:" line of an answer gives, a long or short
outline, or what JSON says. `Opened` is a use of the MongoDB client: built at the
first use, kept whether or not it could connect (`health_check` of the manager
would connect it again, and nothing calls it); `graph` is the same for the Neo4j
client. `RunAgent` is a whole agent, chosen
handler and saving included; `BeginChapter`, `AskSection`, `ModelReturns`,
`TakeSection` and `FinishChapter` are a chapter's thread, section by section.
`ServerChanges` lets MongoDB go away and come back at any time.

Abstracted: texts (a section is the prompt it was written for and a number),
prompts beyond the chapter and the length asked for, the order of agents that
are not chapters (they run alone and in plan order, as the deployed executor
runs them; the interleavings are the matter of `CoordinatorDAG`). The model is
the first novel of a process, so the clients start absent.

### PoolState, ResourcePool, DbPool

A user in `acquire` is out, granted (has the permit), using, or returned (the
connection is back, the permit not yet). Between these places the lock is free
and others move. `ResourcePool` closes expired connections on the way and
loses the permit when none can be made; `DbPool` searches the list, leaves
expired ones in it and always gives the permit back. Both refine `PoolContract`
with `lent[u]` as the connection in u's hands.

### ContextStore

An item is the number of the write that made it, and it keeps its priority,
which `Evictions` looks at. `Miss` is the first half of `get` (cache lock),
`Read` the second (storage lock, cache filled before it is released); a hit
changes nothing. `unclean` is auxiliary: the names whose storage was changed by
an operation that does not tell the cache (delete, clear, expiry, eviction,
restore, import), until the next `set`.

### WorkflowEngine

`runner[r]` is where a thread is: out, in one of the steps of `execute_task`
with the stage it took, or between the look and the write of a request. An
agent's answer is a pass or a failure; `asked` and `succeeded` are the stages an
agent was asked for and those whose outputs are stored. `NextStages` is
`_determine_next_stage`: the value of a condition is looked for under "output"
and "input" only, so the condition of the default workflow, `quality_score > 7`,
finds none and counts as met, and its way back from the quality check to the
content is never taken. The handoff type is read nowhere: after the outline the
engine runs the characters and never the world, which the graph of
`execute_workflow` (`Sources`) does run. So `InputsThere` compares the two as far as the
engine goes, and `FlowAssumption` says what a workflow needs for it: that a
stage reads only what stages on every route to it have written. Nothing calls
`execute_task` in the program; the two threads of the run are those that
pausing and resuming take.

## 3. What the runs check

| Run | Instance | Shows |
|---|---|---|
| `coordinator_dag` | planned graph, 4 chapters, pool of 3, 1 retry, batches of 0 (all), 1, 2, serial and parallel, 2 rounds; the default workflow, 2 threads, 1 retry | safety, refinement of `DagSchedule`, `RunEnds`, `InputsThere`, `ExecutionsReturn` |
| `coordinator_noncritical` | 1 chapter | violation, finding 1 |
| `coordinator_pause_lost` | 1 chapter | violation, finding 2 |
| `task_execution` | 2 chapters, 1 retry, one request of each kind in flight | safety, `ExecutorEnds` |
| `task_cancel_lost` | 1 chapter, deployed wiring | violation, finding 3 |
| `task_orchestrator` | diamond of 4 nodes and 1 task, 2 agents, 3 slots, 1 retry | safety, refinement of `TaskGraph`, `Answered` |
| `orchestrator_shared_worker` | the same | violation, finding 4 |
| `events` | bus: 3 events of 2 types, batches of 2, history of 2, a one-shot and a filtered wildcard handler, one replay, a shutdown; stream: 1 client; Redis: 3 entries (the first malformed), batches of 2, 2 processes, 2 handlers, 2 faults | order of batches, one-shot handlers, order of a stream, refinement of `ClientFeed` and `EntryDelivery`, three liveness properties |
| `novel` | 2 chapters of 2 sections, 2 threads, cache of 2, one text per prompt; the words short, chapters:, generate, chaos and list in any message | dispatch, outlines, stored chapters, storage, `ChaptersEnd` |
| `chapter_lost`, `chapter_unread` | the same novel | violations, findings 5 and 6 |
| `services` | cache: 2 threads, 3 keys, capacity 2; pools: 3 users, 3 connections, size 2, 1 made at the start; context: 2 scopes of 1 item, 2 names, 2 writes, 2 priorities, 1 reader, 1 snapshot | cache, both pools against their contract, read cache |

In `coordinator_dag`, `events` and `services` the components do not interact, so a behaviour moves
one of them (the variable `part`) and the states add up instead of multiplying.

Why the bounds are enough to see the interesting cases: four chapters exceed the
pool of three, so a chapter waits for a thread; a batch of two cuts the snapshot
of chapters and of other nodes; one retry gives a first, a repeated and a last
attempt; two threads are one that executes and one that pauses, resumes and
executes too; the second round starts on the statuses the first has left. In
`task_execution` two chapters make two independent nodes, so one can fail with
the other still to run. In `task_orchestrator` the diamond has a fan-out, a
fan-in and a node two steps behind its root, the third slot is the first agent
registered again after its slot was removed, two tasks can be ready when one
worker is idle, and the second slot is of an agent in a thread, which any task may
be given and which the task with a retry left may outlive. In `events` three events
fill a batch and leave one for the timer, or wait for the lock of a flush under way.
Of the Redis stream, the malformed entry may take the next one along or be read alone,
two that can be handled share a batch or not, the second of all has two handlers, and
two faults are as many as it takes to make every process's start fail. In `novel` two
threads of two sections ask four prompts of a cache of two, so entries are
evicted and asked again, and 1201 words make two sections of different length,
so the two prompts of a chapter differ. In `services` there are more keys than
the cache holds, more users than the pool lets in, more connections than it
keeps, and a second item evicts the first. The proofs do not depend on these
bounds.

Safety properties, each with the code behaviour it is about in its comment:
`DependenciesSettled`, `CompletedMeansAll`, `FailedMeansExhausted`
(coordinator); `InputsThere` (workflow engine); `HeldStops`, `CompletedMeansExhausted`,
`ProgressGrows` (executor); `AttemptOnce`, `BusyWorks`, `OnlyUnregisteringLoses`,
`GraphOrder`, `FailureReachesAll` (orchestrator);
`BatchInOrder`, `OneShotOnce` (bus), `SentInOrder` (stream); `MainHandlers`, `OutlineFound`, `StoredWhole`,
`StoreKeeps` (novel); `CacheAgrees` (LLM cache), `CachedIsCurrent` (context).
`ProgressGrows` holds although a completed node may turn into a failed one,
because the executor computes progress only when no worker is at work.

`AttemptOnce` is not that a task runs once at a time: an agent in a thread that ran
over its limit and the retry run beside each other. It says that each of these
runs is an attempt of its own which was counted, so that there are never more of
them than `max_retries` allows. That the worker counts as free all the while is in
the model, and no property excludes it (section 4).

`StoredWhole` holds although any word of an answer can change a dispatch and the
cache is shared, because a text is stored under the prompt it answers.
`StoreKeeps` holds whatever becomes of Neo4j, because the first agent that saves
is also the one whose use of the Neo4j client fails: its characters are lost,
places and outlines are not.

`GraphOrder` and `FailureReachesAll` are equivalences: a node is submitted
exactly when all it depends on is done, and fails with another exactly when it
is behind it. Half of each would also hold of code that submits, or fails, too
little or too much.

Refinement: `PoolKeepsContract` maps both pools to `PoolContract`, `GraphKept`
the orchestrator to `TaskGraph` (final verdicts are part of it), `FeedKept` the
event stream to `ClientFeed`, and `DeliveryKept` the Redis bus to
`EntryDelivery`, from which it follows that no handler is called twice for an
entry (`HandledOnce`) and that an acknowledged one has been through all its
handlers (`AckedWasHandled`). `ScheduleSpec` maps the coordinator to `DagSchedule`. A node is
"running" as long as a thread is on it, even when its status already says
completed: with the status alone the mapping is false, since a completed node
may still fail.

### Fairness

`FairSpec` of the coordinator: the driver keeps calling, planning ends, and a
running thread goes on; nothing is owed by stop, resume or reset. The code's
callers loop until the workflow ends, and agents have timeouts. `TaskFairSpec`:
the event loop runs the job, the worker thread goes on; requests, timeouts and
database failures owe nothing. `FairSpec` of the orchestrator: the event loop
runs the dispatcher and each coroutine, and `wait_for` bounds the agent.
`StreamFairness`: the loop runs ready tasks, timers and the generator of a
client, and handler threads run; nobody has to publish, connect or leave.
`RedisFairness`: a process that died is started again (`restart: unless-stopped` in
`src/docker-compose.yml` l. 25), `start` is called on a bus that is not running, and
loops go on; a start may fail, nobody has to call `stop`, and the faults, bounded by
`MaxFaults`, owe nothing. `NovelFairness`: a chapter's thread goes on, and a call of a client
ends, with a text or at its timeout. `EngineFairness`: a thread inside a call goes on; nobody has to call.
All of it is weak fairness. What is excluded from the liveness properties is said in
them: `StreamDelivers` excepts a client that left, `EntriesSettle` an entry that
was dropped at a fault or could not be parsed, and the case that the start of every
process has failed (`NobodyListens`), from which no later `start` helps; `RunEnds` excepts an abandoned node, with which the coordinator waits
forever; `ExecutorEnds` a paused row; `Answered` a shutdown, a paused task
(which keeps its worker), no worker, and a task whose worker was unregistered.

## 4. Findings

1. A failed `quality_checker` alone fails the workflow and `humanizer` never
   runs, although `src/README.md` l. 241 and `coordinator.py` l. 731 say that
   the failure of a non-critical node is skipped.
2. A pause acknowledged during planning is overwritten by the end of planning.
3. An acknowledged cancellation is overwritten by the executor, which writes
   RUNNING, COMPLETED or FAILED without a check in the same step.
4. The dispatcher gives all queued tasks to one idle worker; the slot is marked
   idle by the first that ends while the others still run on it.
5. A chapter is lost when MongoDB cannot be reached, although a comment at the
   save promises a file: the client that failed to connect is kept, looks usable
   to `save_chapter`, and the failure of the insertion is printed.
6. `quality_checker` reads no chapter: it takes the task from a parameter the
   coordinator's message does not have, and reports on chapter numbers alone.

Seen by reading and not stated as a finding of a run: a one-shot subscription to a wildcard
is never removed (`event_bus.py` l. 507), `publish_batch` without wait drops its
coroutines (l. 436), a crashed consumer's entries stay pending for good
(`redis_event_bus.py` l. 119), a `start` whose `xgroup_create` raised leaves a bus
that counts as running, so that no later `start` makes a loop (l. 91-107), a worker
whose agent ran over its time limit in a thread is released as free while the agent
is still at work in it (`task_orchestrator.py` l. 608-613 and 688), a connection that cannot be made costs the
resource pool a permit, and `get` of the context store answers what delete,
clear and restore have removed. The models contain all of them as actions;
the properties say exactly what is left.

The dependencies in the table of `src/README.md` (l. 245-256) also differ from
those `_plan_workflow` builds (characters and world wait for the outline there,
the outline waits for them in the code); the model follows the code.

## 5. What is proved

`CoordinatorDAGProofs`, from `NumbersAssumption` and `DepsAssumption` only, so
for every graph (cyclic ones too), retry limit, pool size and set of batch sizes:

* `Invariant`: `Spec => []IInv`.
* `TypeCorrect`, `DependenciesSettledHolds`, `CompletedMeansAllHolds`,
  `FailedMeansExhaustedHolds`.
* `Refinement`: `Spec => ScheduleSpec`.

None of the safety properties is inductive. `DependenciesSettled` speaks of
threads and snapshots, so `IInv` adds that threads exist only for nodes with the
matching status (`ThreadsOnTheirNodes`), that only a call in progress has
threads or a snapshot (`CallsOwnThreads`), that what a snapshot still holds is
pending and its two parts are disjoint (`PickedArePending`), that the serial part
runs one node at a time (`SerialOneByOne`), and that a verdict on the workflow is
only there between calls or just before the closing step reads the statuses
again (`VerdictsBetweenCalls`). Each action has a step of its own in the proof,
and each conjunct it can disturb one under it. The refinement proof shows that
an action of the coordinator is a start, an end, a restart or a stutter of
`DagSchedule` under the mapping `Phase`.

`TaskOrchestratorProofs`, from `GraphAssumption`, `WorkersAssumption` and
`RetriesAssumption`, so for every set of tasks, every graph (cyclic ones too),
every set of workers and every limit of retries:

* `Invariant`: `Spec => []IInv`.
* `TypeCorrect`, `AttemptOnceHolds`, `BusyWorksHolds`,
  `OnlyUnregisteringLosesHolds`, `GraphOrderHolds`, `FailureReachesAllHolds`.
* `VerdictFinalHolds`: an action property no run needs any more, from the invariant.
* `QueueIsServedHolds`: until the shutdown the dispatcher never waits for nothing,
  though tasks share a slot; it follows from `BusyWorks` and the types.
* `GraphIsKept`: `Spec => GraphKept`.

`IInv` adds to the properties that whatever is queued, run or answered was
submitted (`OnlyKnownTasks`, without which a task could be submitted again while
it runs), that a task that may still run has a retry left to count
(`RetriesLeft`), that a queued or running node has no verdict
(`ActiveNodesUndecided`, which makes verdicts final), that a node is known only
with its graph and done only when known (`KnownNodes`), that what a node still
waits for is exactly what is not done of its dependencies (`WaitsForTheRest`,
which ties the set the code shrinks to the order of the graph; from it both
directions of `GraphOrder` follow), and that slots are created in order (`SlotsInOrder`, so that a new slot is not one an earlier
task was given). Three lemmas carry the propagation of a failure:
`DownstreamClosed`, that the nodes behind a failed one are closed under
"depends on", `DownstreamUnknown`, that none of them was submitted, and
`DownstreamLeast`, that they are in every set so closed, so that nothing else
fails. The refinement has a lemma per action the graph sees (`SubmitDagRefines`,
`SucceedRefines`, `FailRefines`) and one for all others (`OthersStutter`).

`TaskExecutionProofs`, from the assumptions of both modules, for every graph and
every bound: `TaskInvariant`, `TaskTypeCorrect`, `HeldStopsHolds`,
`CompletedMeansExhaustedHolds`, `ProgressGrowsHolds`, and `TaskKeepsSchedule`,
that the composition still refines `DagSchedule`. `TaskInv` contains the
coordinator's `IInv` (the executor moves the coordinator by the coordinator's
own actions, so its step lemmas are cited) and adds that a worker runs
nodes only while the job waits for it or has given it up (`WorkerWhileCalled`), that the deployed
executor has one node at work at a time (`OneNodeAtATime`), that the nodes begun
since a cancellation are counted by where the job is (`HeldCounted`), that a
request the orchestrator took does not pause the row (`TakenIsNeverPaused`) and
that the loop, when the row is never paused, ends only with nothing left to run
or cancelled (`LoopEndsExhausted`).

`EventProofs`, from `EventAssumption`, `SubscriptionAssumption` and
`StreamAssumption`, for any number of events, handlers, subscriptions and
clients, any size of a batch, of the history and of a replay:

* `BatchOrderHolds`. `BatchInOrder` speaks of what was processed; an event on its
  way there is at the lock, in the queue or in a task of a flush. `LineInv` says
  that these three, one behind the other, are a line in the order of publication
  (`Ordered`), that every event published with `batch=True` is in the line or
  processed (`LineOrdered`), that nothing else is in it (`LineMembers`), and that
  while a flush waits the queue behind it is empty (`FlushAlone`), without which a
  second flush could overtake the first.
* `OneShotOnceHolds`. `CallsInv` says of every handler the property is about that
  as long as its entry is in `_handlers` nobody has called it, and that at most one
  event was ever handed to it (`Fires`), and of a subscription not made yet that
  there is neither entry nor call (`Dormant`). `Advances` is what one processing
  keeps; a replay is a chain of them, and keeps it too.
* `SentInOrderHolds`. For each client, what was sent followed by what is queued is
  a list in which an event stands behind all that had been put when the bus first
  called the handler for it (`PutInOrder`); both are only of called events, so a
  first call finds its event in neither.
* `StreamTypes`: the types, which need that a flush leaves room in the queue.
* `NeverStrandedHolds`, the safety half of `BatchDrains`: while a batched event is
  not processed, something the loop will do leads to it. `LineInv` says where the
  event is; `TimerLives` adds that the queue has something in it only while there is
  a timer, and that a timer which is awake is in line for the lock, so the queue is
  never left with nobody to empty it. That the loop then does it is fairness, and
  stays with TLC.
* `FeedIsKept`: `StreamSpec => FeedKept`. `ListedOn` is the invariant: the bus lists a
  client's handler only while the client is there, and only under the types it
  subscribed, which are those the end of the generator takes it off. `CallsBegin`,
  a part of `Advances`, says that processing an event calls listed handlers only
  and lists none, and a replay, being a chain of processings, the same.

From `RedisAssumption`, for any number of processes, entries, handlers and
faults: `RedisConsistent`, `NothingHandledTwice`, `AcknowledgedIsHandled`,
`EntriesAccountedHolds`, `DeliveryIsKept`.
`HandledOnce` is not inductive: `RedisInv` adds that the batches of two
processes have no entry in common and lie behind the group's position
(`BatchesApart`), that what was acknowledged or dropped is in no batch
(`SettledApart`), that an entry nobody has begun was gone to no handler
(`UnbegunIsFresh`), that the entry in hand has called exactly the handlers
that are expected and no longer to do (`EntryInHand`), and that the process
has these and no other was called for it (`HandlersKnown`), without which one that is
subscribed meanwhile could be called a second time. The refinement of
`EntryDelivery` rests on the same: an entry in hand is begun by one process alone
(`BegunAlone`), so `Due` is what that process still has to do; `TakeRefines`,
`BeginRefines`, `CallRefines` and `SettleRefines` are its steps, the last one for
an acknowledgement, a malformed entry, a failed `XACK`, a stop and a crash alike.
`EntriesAccounted` needs no more than that a step which takes an entry from a
batch acknowledges or drops it (`AccountedElse`).

`NovelPipelineProofs`, from `NovelAssumption` and the assumption of
`WorkflowPlan`, for any number of chapters, sections and threads, any capacity of
the cache and any set of words that are said: `NovelTypes`, `MainHandlersHold`,
`OutlineFoundHolds`, `StoredWholeHolds`, `StoreKeepsHolds`. `NovelInv` has one part
for each question:

* `Started`, `Routed`: a node begins when what it depends on is completed, and what
  runs or is completed was given to its main handler. That is a lemma per agent
  about the order of the tests of its `process()` (the chapters' one needs the
  answer of the outline planner, which only `Routed` remembers).
* `Sectioned`: the cache holds under a key a text written for that key, a thread
  asks for the next section of its chapter, and what it is answered was written for
  what it asked. `StoredWhole` follows from it and from `Saved`, that only completed
  chapters with all sections are stored.
* `Kept`: while MongoDB answers its client is connected once there is one
  (`Connected`), characters come before places and leave the graph client behind
  (`GraphKept`), and once the outline planner is done there is an outline of every
  number up to the one it read from the words said by then (`OutlinesKept`).
  `OutlineFound` and `StoreKeeps` rest on these.

`ServiceProofs`:

* From `CapacityAssumption`, for any number of threads, keys and any capacity:
  `LlmTypes` and `CacheAgreesHolds`. `LruInv` says that the list repeats no key,
  that its keys are those of the dictionary and that only cached entries can be
  old. The lemmas of `ListLemmas` say what `remove`, `append` and dropping the
  first do to a list without repetition and to its length.
* From `UsersAssumption`, `SizeAssumption`, `NoConnAssumption`:
  `ResourcePoolSafe`, `DbPoolSafe`, `ResourcePoolKeepsContract`,
  `DbPoolKeepsContract`, `PermitsReturnHolds` (the database pool loses no permit:
  those left and the users inside add up to `MaxSize`; of the other pool this is
  false, see section 4). `PoolInv` says that two users have two connections
  (`UsersApart`), that the list repeats none and holds none that is out
  (`ListApart`), that every user past the semaphore has a permit of its own
  (`PermitsHeld`, from which the bound of `MaxSize` follows) and that until
  `close_all` nothing in the list or in use is closed (`OpenUntilShut`).
* From `ScopesAssumption` and `WritesAssumption`: `CachedIsCurrentHolds`, with
  `CacheInv` (`CacheIsFunction` and the property). `TouchingKeeps` is the argument:
  an operation the cache is not told of marks every name it touches. From
  `RanksAssumption` too: `ContextTypes`.

`WorkflowEngineProofs`, from `StagesAssumption`, `RunnersAssumption` and
`StageRetriesAssumption`, and `InputsThereHolds` from `FlowAssumption` too:
`EngineInvariant`, `EngineTypeCorrect`, `InputsThereHolds`. `InputsThere` is not
inductive: `EngineInv` adds that for every set of stages all routes leave by one
stage s, nothing outside it was asked for or is next until s has its outputs
(`BehindStages`), that threads stay on the route (`KeepsToRoute`) with the
outputs of what they passed (`PassedHasOutputs`), and that the looks at the
retries that are not counted yet are few (`RetriesCounted`).

Three of the models that are checked put components side by side. `WorkflowPartsKept`,
`EventPartsKept` and `ServicePartsKept` prove that a behaviour of such a model is
one of each component in it, so that what is proved of the components holds of
what TLC explores; `CheckedPoolsKeepContract` says it of the two pools, of which
either may move. From them follow `WorkflowTypes`, `EventTypes` and `ServiceTypes`,
that every variable of each run keeps its type. `EventPartsKept` needs
`MCAssumption`, that the instance's events and subscriptions are among those of
its constants.

Every safety property, action property and refinement a passing run checks is
thus stated by a theorem; these stay with TLC:

* The liveness properties (`RunEnds`, `ExecutionsReturn`, `ExecutorEnds`,
  `Answered`, `BatchDrains`, `StreamDelivers`, `EntriesSettle`, `ChaptersEnd`):
  they rest on fairness and ENABLED, which the prover does not reason about.
* Induction over data: what a recursive definition computes for every input is
  out of the prover's reach. Where a proof needs something of the kind, it is said
  of numbers: a replay, which processes the events of the history one after the
  other, keeps what each of them keeps, since otherwise there were a least number
  of events that does not (`MinFacts`). The same lemma finds the place `remove`
  takes from a list and the first scope of a lookup.

## 6. Plan

Done, each with its proofs: scheduling (`CoordinatorDAG`, `TaskExecution`,
`TaskOrchestrator`, `WorkflowEngine`), events (`EventBus`, `EventStream`,
`RedisEventBus`), the novel (`LlmCalls`, `NovelPipeline`), shared services
(`PoolState` and both pools, `ContextStore`).

Left: the world state behind the agents' tools, should a plan come to require it.

## 7. Running

```
tlc -config MCCoordinatorDAG.cfg MCCoordinatorDAG
tlc -config MCTaskExecution.cfg MCTaskExecution
tlc -config MCTaskOrchestrator.cfg MCTaskOrchestrator
tlc -config MCEvents.cfg MCEvents
tlc -config MCNovel.cfg MCNovel
tlc -config MCServices.cfg MCServices
tlapm CoordinatorDAGProofs.tla
tlapm TaskExecutionProofs.tla
tlapm TaskOrchestratorProofs.tla
tlapm EventProofs.tla
tlapm NovelPipelineProofs.tla
tlapm ServiceProofs.tla
tlapm ListLemmas.tla
tlapm WorkflowEngineProofs.tla
```

The other `.cfg` files are the violation runs, each with the module its first
comment or section 3 names.

## 8. Not modelled

What follows was read and left out, with the reason; `PROJECT.json` has a line
for every component.

*Not reached by the program as it is wired.* The consumer of RocketMQ is started
nowhere and the coordinator's callbacks are switched off at the start of the
API, so redelivery and late answers have no code to run in; `PersistentEventBus`
is built by nothing; `llm/enhanced_router.py`, with its breaker and failover, is
imported by nothing and `llm/router.py` only by the health check;
`TaskManagerAgent`, `pipeline.py`, `agent_handlers.py`
and the backends of `core/memory.py` are driven by tests alone. Of what is
modelled, `execute_task` of the workflow engine is called by nothing and its
adapter by tests, `ContextManager` and the pool of `core/resource_manager.py` are also
used by tests only, and the pool of `database/` by `orm.py` and `migrations.py`.

*Reached only through the agents' tools.* The world state, causal graph and
memory services change rows in PostgreSQL inside the tools an LLM may choose to
call; no plan requires one. Seen by reading: two concurrent `set_fact` leave two open facts for one
key, and `link_causation` appends to a JSON column in place, which the ORM does
not notice.

*Parts of modelled components.* The coordinator's counters `_tasks_completed`
and `_tasks_failed` (read, incremented and written by several threads, and only
shown in replies); replay of the bus to one handler and the wait for handlers
(they change no state of the bus); the tenant check of the event stream; trimming of the Redis stream by
MAXLEN (approximate, at 100,000 entries); the nodes and relations in Neo4j;
`clear_results` and a second start of the orchestrator; a crash of the API
process under a running task (nothing looks at the rows at start-up, so the
model would be one step after which nothing happens).

*No control state.* Prompts and their assembly, parsing of answers, retrieval,
style, chaos and quality scores, configuration, logging, authentication and the
routes that read. They are the larger part of the source by lines; a model of
them would restate text processing.
