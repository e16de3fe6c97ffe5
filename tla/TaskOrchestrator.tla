-------------------------- MODULE TaskOrchestrator --------------------------
(* TaskOrchestrator: a priority queue of tasks, one dispatcher, workers that *)
(* are agents, retries and task graphs (agents/task_orchestrator.py).        *)
(*                                                                           *)
(* Everything runs in one event loop. No lock of the orchestrator or of the  *)
(* event bus is held across a suspension, so a coroutine runs on until it    *)
(* sleeps, waits for the shutdown event or awaits an agent, and an action is *)
(* such a stretch. In particular the dispatcher does not suspend while the   *)
(* queue has entries: one step empties the queue, which leaves no more to    *)
(* the priorities than the order in which the new coroutines start.          *)
EXTENDS Integers, FiniteSets

CONSTANTS
  Tasks,        \* task ids
  DagNodes,     \* the tasks submitted as one graph, by submit_dag
  Deps,         \* DAGTaskNode.dependencies as submitted
  Names,        \* agent names
  Wants,        \* QueuedTask.agent_name
  Slots,        \* WorkerSlot objects, numbered in the order of their creation
  AgentName,    \* name of a slot's agent
  MaxRetries,   \* QueuedTask.max_retries
  NoTask,       \* None in WorkerSlot.current_task
  Threaded,     \* the slots whose agent has no aprocess: it runs in a thread
  Stalling,     \* bound: the tasks whose agent may outlive the time limit
  Cancellable,  \* bound: the tasks clients may cancel
  Pausable,     \* bound: the tasks clients may pause
  Removable     \* bound: the slots that may be unregistered

ASSUME GraphAssumption ==
  /\ DagNodes \subseteq Tasks
  /\ Deps \in [DagNodes -> SUBSET DagNodes]
ASSUME WorkersAssumption ==
  /\ Slots \subseteq Nat
  /\ AgentName \in [Slots -> Names]
  /\ Wants \in [Tasks -> Names]
  /\ Threaded \subseteq Slots
ASSUME RetriesAssumption == MaxRetries \in [Tasks -> Nat]
ASSUME NoTaskAssumption == NoTask \notin Tasks

VARIABLES
  running,     \* _running
  registered,  \* the slots in _workers
  newest,      \* the last slot created, -1 if there is none
  state,       \* WorkerSlot.state
  current,     \* WorkerSlot.current_task
  known,       \* keys of _queued_tasks
  queue,       \* task ids in _queue
  retries,     \* QueuedTask.retry_count
  exec,        \* where the coroutine _execute_task of a task is
  stray,       \* the attempts that timed out and go on in their threads
  given,       \* the slots each task was given last, {} or one of them
  paused,      \* _paused_tasks
  result,      \* _results, "none" if there is no entry
  node,        \* DAGTaskNode.state
  waits        \* DAGTaskNode.dependencies, the ones still to be resolved

workerVars == <<registered, newest>>
slotVars == <<state, current>>
dagVars == <<node, waits>>
vars == <<running, workerVars, slotVars, known, queue, retries, exec, stray,
          given, paused, result, dagVars>>

Places == {"none", "created", "held", "agent"}
Results == {"none", "success", "failed", "cancelled"}
NodeStates == {"absent", "inbox", "done", "failed"}

TypeOK ==
  /\ running \in BOOLEAN
  /\ registered \in SUBSET Slots
  /\ newest \in Slots \cup {-1}
  /\ state \in [Slots -> {"idle", "busy"}]
  /\ current \in [Slots -> Tasks \cup {NoTask}]
  /\ known \in SUBSET Tasks
  /\ queue \in SUBSET Tasks
  /\ retries \in [Tasks -> Nat]
  /\ \A t \in Tasks : retries[t] <= MaxRetries[t] + 1
  /\ exec \in [Tasks -> Places]
  /\ stray \subseteq [task : Tasks, number : Nat, slot : Slots]
  /\ given \in [Tasks -> SUBSET Slots]
  /\ paused \in SUBSET Tasks
  /\ result \in [Tasks -> Results]
  /\ node \in [DagNodes -> NodeStates]
  /\ waits \in [DagNodes -> SUBSET DagNodes]

\* start() has run; workers are registered after it.
Init ==
  /\ running = TRUE
  /\ registered = {} /\ newest = -1
  /\ state = [s \in Slots |-> "idle"]
  /\ current = [s \in Slots |-> NoTask]
  /\ known = {} /\ queue = {}
  /\ retries = [t \in Tasks |-> 0]
  /\ exec = [t \in Tasks |-> "none"]
  /\ stray = {}
  /\ given = [t \in Tasks |-> {}]
  /\ paused = {}
  /\ result = [t \in Tasks |-> "none"]
  /\ node = [n \in DagNodes |-> "absent"]
  /\ waits = [n \in DagNodes |-> {}]

-----------------------------------------------------------------------------
(* Workers and requests.                                                     *)

Holder(name) == {s \in registered : AgentName[s] = name}

Register(s) ==
  /\ s > newest
  /\ Holder(AgentName[s]) = {}
  /\ registered' = registered \cup {s}
  /\ newest' = s
  /\ UNCHANGED <<running, stray, slotVars, known, queue, retries, exec, given, paused,
                 result, dagVars>>

Unregister(s) ==
  /\ s \in registered \cap Removable
  /\ registered' = registered \ {s}
  /\ UNCHANGED <<running, stray, newest, slotVars, known, queue, retries, exec, given,
                 paused, result, dagVars>>

\* A task of its own; its id is fresh.
Submit(t) ==
  /\ t \notin DagNodes \cup known
  /\ known' = known \cup {t}
  /\ queue' = queue \cup {t}
  /\ UNCHANGED <<running, stray, workerVars, slotVars, retries, exec, given, paused,
                 result, dagVars>>

\* Mutant of SubmitDag: every node is submitted at once.
SubmitDagUnsorted ==
  /\ DagNodes # {}
  /\ \A n \in DagNodes : node[n] = "absent"
  /\ node' = [n \in DagNodes |-> "inbox"]
  /\ waits' = Deps
  /\ known' = known \cup DagNodes
  /\ queue' = queue \cup DagNodes
  /\ UNCHANGED <<running, stray, workerVars, slotVars, retries, exec, given, paused, result>>

\* A graph; the nodes without dependencies are submitted at once.
SubmitDag ==
  /\ DagNodes # {}
  /\ \A n \in DagNodes : node[n] = "absent"
  /\ node' = [n \in DagNodes |-> "inbox"]
  /\ waits' = Deps
  /\ LET ready == {n \in DagNodes : Deps[n] = {}}
     IN  known' = known \cup ready /\ queue' = queue \cup ready
  /\ UNCHANGED <<running, stray, workerVars, slotVars, retries, exec, given, paused, result>>

\* Only the result is written, whatever the task is doing.
Cancel(t) ==
  /\ t \in known \cap Cancellable
  /\ result' = [result EXCEPT ![t] = "cancelled"]
  /\ UNCHANGED <<running, stray, workerVars, slotVars, known, queue, retries, exec, given,
                 paused, dagVars>>

Pause(t) ==
  /\ t \in Pausable
  /\ result[t] = "none"
  /\ paused' = paused \cup {t}
  /\ UNCHANGED <<running, stray, workerVars, slotVars, known, queue, retries, exec, given,
                 result, dagVars>>

Resume(t) ==
  /\ t \in paused
  /\ paused' = paused \ {t}
  /\ UNCHANGED <<running, stray, workerVars, slotVars, known, queue, retries, exec, given,
                 result, dagVars>>

Shutdown ==
  /\ running
  /\ running' = FALSE
  /\ UNCHANGED <<stray, workerVars, slotVars, known, queue, retries, exec, given, paused,
                 result, dagVars>>

-----------------------------------------------------------------------------
(* The dispatcher.                                                           *)

Available == {s \in registered : state[s] = "idle"}

\* The worker of the agent the task asks for, else the oldest available one.
FindWorker(t) ==
  LET preferred == Available \cap Holder(Wants[t])
  IN  IF preferred # {} THEN preferred
                        ELSE {s \in Available : \A r \in Available : s <= r}

\* Mutant of Dispatch: the worker of the wanted agent is waited for.
DispatchToPreferred ==
  /\ running
  /\ queue # {}
  /\ \A t \in queue : Available \cap Holder(Wants[t]) # {}
  /\ exec' = [t \in Tasks |-> IF t \in queue THEN "created" ELSE exec[t]]
  /\ given' = [t \in Tasks |-> IF t \in queue THEN FindWorker(t) ELSE given[t]]
  /\ queue' = {}
  /\ UNCHANGED <<running, stray, workerVars, slotVars, known, retries, paused, result, dagVars>>

\* Every entry gets a worker and a coroutine of its own. No slot turns busy
\* before these coroutines run, so one idle worker is enough for all of them;
\* without one the first entry is put back and the dispatcher sleeps.
Dispatch ==
  /\ running
  /\ queue # {}
  /\ Available # {}
  /\ exec' = [t \in Tasks |-> IF t \in queue THEN "created" ELSE exec[t]]
  /\ given' = [t \in Tasks |-> IF t \in queue THEN FindWorker(t) ELSE given[t]]
  /\ queue' = {}
  /\ UNCHANGED <<running, stray, workerVars, slotVars, known, retries, paused, result, dagVars>>

-----------------------------------------------------------------------------
(* _execute_task.                                                            *)

\* The worker is looked up by name once more.
SameName(t) == {s \in registered : \E r \in given[t] : AgentName[r] = AgentName[s]}

Assign(s, t) ==
  /\ state' = [state EXCEPT ![s] = "busy"]
  /\ current' = [current EXCEPT ![s] = t]

Release(t) ==
  /\ state' = [s \in Slots |-> IF s \in given[t] THEN "idle" ELSE state[s]]
  /\ current' = [s \in Slots |-> IF s \in given[t] THEN NoTask ELSE current[s]]

\* It was unregistered meanwhile: the coroutine returns.
LoseTask(t) ==
  /\ exec[t] = "created"
  /\ SameName(t) = {}
  /\ exec' = [exec EXCEPT ![t] = "none"]
  /\ UNCHANGED <<running, stray, workerVars, slotVars, known, queue, retries, given, paused,
                 result, dagVars>>

\* A paused task holds its worker; after a shutdown it returns and keeps it.
Begin(t) ==
  /\ exec[t] = "created"
  /\ \E s \in SameName(t) :
       /\ Assign(s, t)
       /\ given' = [given EXCEPT ![t] = {s}]
  /\ exec' = [exec EXCEPT ![t] = IF t \notin paused THEN "agent"
                                 ELSE IF running THEN "held" ELSE "none"]
  /\ UNCHANGED <<running, stray, workerVars, known, queue, retries, paused, result, dagVars>>

GoOn(t) ==
  /\ exec[t] = "held"
  /\ t \notin paused
  /\ exec' = [exec EXCEPT ![t] = "agent"]
  /\ UNCHANGED <<running, stray, workerVars, slotVars, known, queue, retries, given, paused,
                 result, dagVars>>

\* Mutant of Abandon: a paused task returns even while the dispatcher runs.
AbandonWhenPaused(t) ==
  /\ exec[t] = "held"
  /\ t \in paused
  /\ exec' = [exec EXCEPT ![t] = "none"]
  /\ UNCHANGED <<running, stray, workerVars, slotVars, known, queue, retries, given, paused,
                 result, dagVars>>

Abandon(t) ==
  /\ exec[t] = "held"
  /\ t \in paused /\ ~running
  /\ exec' = [exec EXCEPT ![t] = "none"]
  /\ UNCHANGED <<running, stray, workerVars, slotVars, known, queue, retries, given, paused,
                 result, dagVars>>

\* Mutant of Unlocked: the dependencies as submitted are looked at, not what is
\* left of them.
UnlockedBySole(t) == {n \in DagNodes : node[n] = "inbox" /\ t \in waits[n] /\ Deps[n] = {t}}

\* _trigger_downstream: what the task resolved, and what that made ready.
Unlocked(t) == {n \in DagNodes : node[n] = "inbox" /\ t \in waits[n] /\ waits[n] = {t}}

TriggerDownstream(t) ==
  /\ node' = [n \in DagNodes |-> IF n = t THEN "done" ELSE node[n]]
  /\ waits' = [n \in DagNodes |-> waits[n] \ {t}]
  /\ known' = known \cup Unlocked(t)
  /\ queue' = queue \cup Unlocked(t)

Succeed(t) ==
  /\ exec[t] = "agent"
  /\ exec' = [exec EXCEPT ![t] = "none"]
  /\ result' = [result EXCEPT ![t] = "success"]
  /\ Release(t)
  /\ TriggerDownstream(t)
  /\ UNCHANGED <<running, stray, workerVars, retries, given, paused>>

\* What is left of an attempt that raised or timed out: nothing, or, of an agent
\* in a thread, the run itself. The time limit ends only the waiting for it.
LeaveRun(t) ==
  \/ UNCHANGED stray
  \/ \E s \in given[t] \cap Threaded :
       /\ t \in Stalling
       /\ stray' = stray \cup {[task |-> t, number |-> retries[t], slot |-> s]}

\* Its answer goes nowhere.
RunEnds == \E r \in stray :
  /\ stray' = stray \ {r}
  /\ UNCHANGED <<running, workerVars, slotVars, known, queue, retries, exec, given,
                 paused, result, dagVars>>

\* Mutant of Retry: the limit is not looked at.
RetryForever(t) ==
  /\ exec[t] = "agent"
  /\ retries' = [retries EXCEPT ![t] = retries[t] + 1]
  /\ LeaveRun(t)
  /\ exec' = [exec EXCEPT ![t] = "none"]
  /\ queue' = queue \cup {t}
  /\ Release(t)
  /\ UNCHANGED <<running, workerVars, known, given, paused, result, dagVars>>

\* Mutant of Retry: the worker is not released.
RetryKeepingWorker(t) ==
  /\ exec[t] = "agent"
  /\ retries[t] < MaxRetries[t]
  /\ retries' = [retries EXCEPT ![t] = retries[t] + 1]
  /\ LeaveRun(t)
  /\ exec' = [exec EXCEPT ![t] = "none"]
  /\ queue' = queue \cup {t}
  /\ UNCHANGED <<running, workerVars, slotVars, known, given, paused, result, dagVars>>

\* Mutant of Retry: only what raised is counted, not what timed out.
RetryUncounted(t) ==
  /\ exec[t] = "agent"
  /\ retries[t] < MaxRetries[t]
  /\ LeaveRun(t)
  /\ retries' = IF stray' # stray THEN retries
                ELSE [retries EXCEPT ![t] = retries[t] + 1]
  /\ exec' = [exec EXCEPT ![t] = "none"]
  /\ queue' = queue \cup {t}
  /\ Release(t)
  /\ UNCHANGED <<running, workerVars, known, given, paused, result, dagVars>>

\* The agent raises or times out: back to the end of the queue.
Retry(t) ==
  /\ exec[t] = "agent"
  /\ retries[t] < MaxRetries[t]
  /\ retries' = [retries EXCEPT ![t] = retries[t] + 1]
  /\ LeaveRun(t)
  /\ exec' = [exec EXCEPT ![t] = "none"]
  /\ queue' = queue \cup {t}
  /\ Release(t)
  /\ UNCHANGED <<running, workerVars, known, given, paused, result, dagVars>>

\* Mutant of Downstream: only the nodes next to the failed one.
NextDownstream(t) == {n \in DagNodes : n = t \/ t \in Deps[n]}

\* _fail_downstream: everything that depends on the node, however far away.
Closed(S) == \A n \in DagNodes : Deps[n] \cap S # {} => n \in S

Downstream(t) == {n \in DagNodes : \A S \in SUBSET DagNodes : t \in S /\ Closed(S) => n \in S}

Fail(t) ==
  /\ exec[t] = "agent"
  /\ retries[t] >= MaxRetries[t]
  /\ retries' = [retries EXCEPT ![t] = retries[t] + 1]
  /\ LeaveRun(t)
  /\ exec' = [exec EXCEPT ![t] = "none"]
  /\ result' = [result EXCEPT ![t] = "failed"]
  /\ Release(t)
  /\ node' = IF t \in DagNodes
             THEN [n \in DagNodes |-> IF n \in Downstream(t) THEN "failed" ELSE node[n]]
             ELSE node
  /\ UNCHANGED <<running, workerVars, known, queue, given, paused, waits>>

Execute(t) ==
  \/ LoseTask(t) \/ Begin(t) \/ GoOn(t) \/ Abandon(t)
  \/ Succeed(t) \/ Retry(t) \/ Fail(t)

Next ==
  \/ Dispatch \/ Shutdown \/ SubmitDag \/ RunEnds
  \/ \E s \in Slots : Register(s) \/ Unregister(s)
  \/ \E t \in Tasks : Submit(t) \/ Cancel(t) \/ Pause(t) \/ Resume(t) \/ Execute(t)

Spec == Init /\ [][Next]_vars

\* The event loop runs the dispatcher and every coroutine on, and an agent
\* ends or is timed out; clients and operators owe nothing.
Fairness == WF_vars(Dispatch) /\ \A t \in Tasks : WF_vars(Execute(t))

FairSpec == Spec /\ Fairness

-----------------------------------------------------------------------------
(* Properties.                                                               *)

\* Every attempt at a task is made once and paid for by a retry: while a
\* coroutine of the task is alive it is not queued again, once it has been
\* answered it is over (only a cancelled task may still be waited for), and a run
\* that goes on in its thread after the time limit belongs to an attempt of its
\* own that was counted. So a task may well be run twice at a time, by agents
\* without aprocess, but by no more of them than it has attempts.
AttemptOnce ==
  /\ \A t \in Tasks :
       /\ t \in queue => exec[t] = "none"
       /\ result[t] \in {"success", "failed"} => exec[t] = "none" /\ t \notin queue
  /\ \A r \in stray : r.number < retries[r.task]
  /\ \A r, q \in stray : r.task = q.task /\ r.number = q.number => r = q

\* Until the shutdown no worker is lost: a slot that is busy has its current
\* task really working on it, however many tasks share the slot.
BusyWorks ==
  running => \A s \in Slots : state[s] = "busy" =>
    \E t \in Tasks : current[s] = t /\ given[t] = {s} /\ exec[t] \in {"held", "agent"}

\* A task is forgotten without an answer only when the worker it was given is
\* unregistered before the task begins (or at a shutdown).
Forgotten(t) == t \in known \ queue /\ exec[t] = "none" /\ result[t] = "none"

OnlyUnregisteringLoses ==
  running => \A t \in Tasks : Forgotten(t) => given[t] \cap registered = {}

\* A node of a graph has been submitted exactly when everything it depends on
\* is done: never early, and no trigger is lost, in whatever order the others
\* go through, are retried or fail. A cancelled task counts once it has gone
\* through all the same.
GraphOrder ==
  \A n \in DagNodes :
    node[n] # "absent" => (n \in known <=> \A d \in Deps[n] : node[d] = "done")

\* When a node has failed for good so has everything behind it, nothing of that
\* is ever submitted, and no other node fails without having been submitted.
FailureReachesAll ==
  \A n \in DagNodes :
    (\E d \in Deps[n] : node[d] = "failed") <=> node[n] = "failed" /\ n \notin known

\* The verdict on a node is final, whatever else succeeds, fails or is retried.
VerdictFinal ==
  [][\A n \in DagNodes : node[n] \in {"done", "failed"} => node'[n] = node[n]]_vars

\* Where a node stands for its workflow, wherever its task is meanwhile.
Phase ==
  [n \in DagNodes |->
     IF node[n] # "inbox" THEN node[n] ELSE IF n \in known THEN "submitted" ELSE "waiting"]

Graph == INSTANCE TaskGraph WITH Nodes <- DagNodes, phase <- Phase

\* Seen from outside, the nodes of a graph go through the phases TaskGraph
\* promises, one verdict at a time: queue, workers, retries, pauses, lost
\* workers and cancellations do not show.
GraphKept == Graph!Spec

\* Every submitted task is answered in the end, unless the orchestrator is shut
\* down, a task is paused (it holds its worker), no worker is left, or the
\* task's worker was unregistered under it.
AllAnswered == \A t \in known : result[t] # "none" \/ Forgotten(t)

Answered == []<>(AllAnswered \/ ~running \/ paused # {} \/ registered = {})

\* "Find an available worker ... no worker available, queue again": a worker
\* that is busy is given no other task before it is released.
BusyTakesNothing ==
  [][\A s \in Slots : state[s] = "busy" => current'[s] \in {current[s], NoTask}]_vars
=============================================================================
