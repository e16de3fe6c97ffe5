--------------------------- MODULE CoordinatorDAG ---------------------------
(* CoordinatorAgent running one workflow graph (agents/coordinator.py).      *)
(*                                                                           *)
(* One driver thread asks for a plan and calls execute_ready_nodes; stop and *)
(* resume requests reach process() from any thread. A call takes a snapshot  *)
(* of the ready nodes, runs them one after the other and, when it is asked   *)
(* to run chapters in parallel, hands the chapters to a pool of MaxWorkers   *)
(* threads. Each node lives in _execute_single_node: it is prepared, its     *)
(* agent is called up to 1 + RetryTimes times, and the result is handled.    *)
EXTENDS Integers, FiniteSets

CONSTANTS
  Nodes,         \* keys of DAG.nodes
  Deps,          \* DAGNode.Dependencies
  Rank,          \* position of a node in the insertion order of DAG.nodes
  Chapters,      \* nodes named content_generator_chapter_i
  NonCritical,   \* nodes with is_critical = False
  RetryTimes,    \* DAGNode.retry_times
  MaxWorkers,    \* max_workers of the chapter pool
  BatchSizes,    \* batch_size arguments callers use, 0 for "all"
  MaxRounds      \* bound: generation requests of one behaviour

ASSUME NodesAssumption ==
  /\ IsFiniteSet(Nodes)
  /\ Chapters \subseteq Nodes
  /\ NonCritical \subseteq Nodes
ASSUME DepsAssumption == Deps \in [Nodes -> SUBSET Nodes]
ASSUME RankAssumption ==
  /\ Rank \in [Nodes -> Int]
  /\ \A m, n \in Nodes : Rank[m] = Rank[n] => m = n
ASSUME NumbersAssumption ==
  /\ RetryTimes \in Nat
  /\ MaxWorkers \in Nat \ {0}
  /\ BatchSizes \subseteq Nat
  /\ MaxRounds \in Nat

VARIABLES
  wf,        \* _workflow_state
  hasDag,    \* _dag is not None
  status,    \* DAGNode.status of each node of _dag
  thread,    \* where the thread executing a node is, "off" if there is none
  attempt,   \* retry counter of the thread calling an agent, 0 if there is none
  driver,    \* where the driver thread is
  serial,    \* nodes of the current call still to be run one after the other
  pool,      \* chapters of the current call no pool thread has taken yet
  results,   \* what the current call has collected, then what it returned
  raised,    \* a node of the current call let an exception out
  rounds     \* generation requests so far

dagVars == <<wf, hasDag, status, thread, attempt, driver, serial, pool,
             results, raised, rounds>>

WorkflowStates == {"idle", "planning", "executing", "paused", "completed", "failed"}
NodeStates == {"pending", "executing", "completed", "failed"}
ThreadStates == {"off", "starting", "calling", "post"}
DriverStates == {"idle", "planning", "checked", "closing", "batch", "pool"}
Outcomes == {"completed", "failed", "skipped"}

TypeOK ==
  /\ wf \in WorkflowStates
  /\ hasDag \in BOOLEAN
  /\ status \in [Nodes -> NodeStates]
  /\ thread \in [Nodes -> ThreadStates]
  /\ attempt \in [Nodes -> 0 .. RetryTimes]
  /\ driver \in DriverStates
  /\ serial \in SUBSET Nodes
  /\ pool \in SUBSET Nodes
  /\ results \in SUBSET (Nodes \X Outcomes)
  /\ raised \in BOOLEAN
  /\ rounds \in 0 .. MaxRounds

AllPending == [n \in Nodes |-> "pending"]

Init ==
  /\ wf = "idle"
  /\ hasDag = FALSE
  /\ status = AllPending
  /\ thread = [n \in Nodes |-> "off"]
  /\ attempt = [n \in Nodes |-> 0]
  /\ driver = "idle"
  /\ serial = {}
  /\ pool = {}
  /\ results = {}
  /\ raised = FALSE
  /\ rounds = 0

-----------------------------------------------------------------------------
(* The graph.                                                                *)

\* Mutant of Ready: a dependency only has to have been started.
ReadyOnceStarted(n) ==
  status[n] = "pending" /\ \A d \in Deps[n] : status[d] # "pending"

Ready(n) == status[n] = "pending" /\ \A d \in Deps[n] : status[d] = "completed"

ReadyNodes == {n \in Nodes : Ready(n)}

AllCompleted == \A n \in Nodes : status[n] = "completed"

HasFailed == \E n \in Nodes : status[n] = "failed"

Active == {n \in Nodes : thread[n] # "off"}

\* The k first nodes of S in insertion order; k = 0 asks for all of them.
FirstOf(k, S) ==
  IF k = 0 THEN S
           ELSE {n \in S : Cardinality({m \in S : Rank[m] < Rank[n]}) < k}

\* The order of the serial part of a call: other nodes first, then chapters.
RunsBefore(m, n) ==
  \/ m \notin Chapters /\ n \in Chapters
  \/ (m \in Chapters <=> n \in Chapters) /\ Rank[m] < Rank[n]

\* The progress in percent, times the common denominator of its two weighted
\* shares: 60 for the chapters, 40 for the other nodes (rounding left out).
AtLeastOne(k) == IF k = 0 THEN 1 ELSE k

Progress ==
  LET Done(S) == Cardinality({n \in S : status[n] = "completed"})
      others == Nodes \ Chapters
  IN  60 * Done(Chapters) * AtLeastOne(Cardinality(others))
        + 40 * Done(others) * AtLeastOne(Cardinality(Chapters))

-----------------------------------------------------------------------------
(* Requests.                                                                 *)

\* A generation request enters planning, whatever state the workflow is in. That
\* no call of execute_ready_nodes is under way (driver is idle, here and in Reset)
\* is the callers' doing, not a guard of the handlers: the executor makes a
\* coordinator of its own for each task and plans once before the first call
\* (controllers.py:271), nothing but tests plans again or resets.
StartPlanning ==
  /\ driver = "idle"
  /\ rounds < MaxRounds
  /\ rounds' = rounds + 1
  /\ wf' = "planning"
  /\ driver' = "planning"
  /\ UNCHANGED <<hasDag, status, thread, attempt, serial, pool, results, raised>>

\* ... and, once the plan is there, replaces the graph and executes.
FinishPlanning ==
  /\ driver = "planning"
  /\ hasDag' = TRUE
  /\ status' = AllPending
  /\ wf' = "executing"
  /\ driver' = "idle"
  /\ UNCHANGED <<thread, attempt, serial, pool, results, raised, rounds>>

Stop ==
  /\ wf \in {"executing", "planning"}
  /\ wf' = "paused"
  /\ UNCHANGED <<hasDag, status, thread, attempt, driver, serial, pool, results,
                 raised, rounds>>

Resume ==
  /\ wf = "paused"
  /\ wf' = "executing"
  /\ UNCHANGED <<hasDag, status, thread, attempt, driver, serial, pool, results,
                 raised, rounds>>

Reset ==
  /\ driver = "idle"
  /\ wf' = "idle"
  /\ hasDag' = FALSE
  /\ status' = AllPending
  /\ UNCHANGED <<thread, attempt, driver, serial, pool, results, raised, rounds>>

-----------------------------------------------------------------------------
(* execute_ready_nodes.                                                      *)

MayExecute == driver = "idle" /\ hasDag /\ wf = "executing"

\* A call looks at the state of the workflow and then at the graph: a pause
\* that comes in between does not keep it from taking nodes.
EnterCall ==
  /\ MayExecute
  /\ driver' = "checked"
  /\ UNCHANGED <<wf, hasDag, status, thread, attempt, serial, pool, results,
                 raised, rounds>>

\* The call takes its snapshot of the ready nodes.
TakeBatch(k, parallel) ==
  /\ driver = "checked"
  /\ ReadyNodes # {}
  /\ LET batch == FirstOf(k, ReadyNodes)
     IN  /\ serial' = IF parallel THEN batch \ Chapters ELSE batch
         /\ pool' = IF parallel THEN batch \cap Chapters ELSE {}
  /\ driver' = "batch"
  /\ results' = {}
  /\ raised' = FALSE
  /\ UNCHANGED <<wf, hasDag, status, thread, attempt, rounds>>

\* Nothing is ready: the call decides how the workflow stands.
FindNothingReady ==
  /\ driver = "checked"
  /\ ReadyNodes = {}
  /\ driver' = "closing"
  /\ results' = {}
  /\ raised' = FALSE
  /\ UNCHANGED <<wf, hasDag, status, thread, attempt, serial, pool, rounds>>

\* Mutant of CloseRun: whatever has not failed is complete.
CloseRunUnlessFailed ==
  /\ driver = "closing"
  /\ driver' = "idle"
  /\ wf' = IF HasFailed THEN "failed" ELSE "completed"
  /\ UNCHANGED <<hasDag, status, thread, attempt, serial, pool, results, raised,
                 rounds>>

\* Mutant of CloseRun: a failed non-critical node is taken for no failure.
CloseRunOnCriticalOnly ==
  /\ driver = "closing"
  /\ driver' = "idle"
  /\ \/ AllCompleted /\ wf' = "completed"
     \/ /\ ~AllCompleted
        /\ wf' = IF \E n \in Nodes \ NonCritical : status[n] = "failed"
                 THEN "failed" ELSE wf
  /\ UNCHANGED <<hasDag, status, thread, attempt, serial, pool, results, raised,
                 rounds>>

CloseRun ==
  /\ driver = "closing"
  /\ driver' = "idle"
  /\ \/ AllCompleted /\ wf' = "completed"
     \/ ~AllCompleted /\ HasFailed /\ wf' = "failed"
     \/ ~AllCompleted /\ ~HasFailed /\ UNCHANGED wf
  /\ UNCHANGED <<hasDag, status, thread, attempt, serial, pool, results, raised,
                 rounds>>

\* The serial part is over: the chapters, if any, go to the pool.
SubmitPool ==
  /\ driver = "batch"
  /\ serial = {} /\ Active = {}
  /\ driver' = IF pool = {} THEN "idle" ELSE "pool"
  /\ UNCHANGED <<wf, hasDag, status, thread, attempt, serial, pool, results,
                 raised, rounds>>

\* Mutant of LeavePool: the call returns while pool threads still run.
LeavePoolWithoutWaiting ==
  /\ driver = "pool"
  /\ pool = {}
  /\ driver' = "idle"
  /\ results' = IF raised THEN {} ELSE results
  /\ UNCHANGED <<wf, hasDag, status, thread, attempt, serial, pool, raised, rounds>>

\* Leaving the pool waits for its threads; an exception loses the results.
LeavePool ==
  /\ driver = "pool"
  /\ pool = {} /\ Active = {}
  /\ driver' = "idle"
  /\ results' = IF raised THEN {} ELSE results
  /\ UNCHANGED <<wf, hasDag, status, thread, attempt, serial, pool, raised, rounds>>

-----------------------------------------------------------------------------
(* _execute_single_node.                                                     *)

Begin(n) ==
  /\ status' = [status EXCEPT ![n] = "executing"]
  /\ thread' = [thread EXCEPT ![n] = "starting"]

BeginSerial(n) ==
  /\ driver = "batch"
  /\ Active = {}
  /\ n \in serial
  /\ \A m \in serial : ~RunsBefore(m, n)
  /\ serial' = serial \ {n}
  /\ Begin(n)
  /\ UNCHANGED <<wf, hasDag, attempt, driver, pool, results, raised, rounds>>

\* The pool takes chapters in the order they were submitted.
BeginPooled(n) ==
  /\ driver = "pool"
  /\ n \in pool
  /\ \A m \in pool : Rank[n] <= Rank[m]
  /\ Cardinality(Active) < MaxWorkers
  /\ pool' = pool \ {n}
  /\ Begin(n)
  /\ UNCHANGED <<wf, hasDag, attempt, driver, serial, results, raised, rounds>>

\* Creating the agent or building its context raises: the node is left in
\* "executing"; a serial call ends there, a pooled one waits for the others.
PreparationFails(n) ==
  /\ thread[n] = "starting"
  /\ thread' = [thread EXCEPT ![n] = "off"]
  /\ raised' = TRUE
  /\ \/ /\ driver = "batch"
        /\ driver' = "idle"
        /\ serial' = {} /\ pool' = {} /\ results' = {}
     \/ /\ driver = "pool"
        /\ UNCHANGED <<driver, serial, pool, results>>
  /\ UNCHANGED <<wf, hasDag, status, attempt, rounds>>

CallAgent(n) ==
  /\ thread[n] = "starting"
  /\ thread' = [thread EXCEPT ![n] = "calling"]
  /\ UNCHANGED <<wf, hasDag, status, attempt, driver, serial, pool, results,
                 raised, rounds>>

\* agent.process returned: the node is completed before its result is handled.
AgentSucceeds(n) ==
  /\ thread[n] = "calling"
  /\ thread' = [thread EXCEPT ![n] = "post"]
  /\ status' = [status EXCEPT ![n] = "completed"]
  /\ attempt' = [attempt EXCEPT ![n] = 0]
  /\ UNCHANGED <<wf, hasDag, driver, serial, pool, results, raised, rounds>>

\* Mutant of AgentRetries: one attempt too many.
AgentRetriesOnceMore(n) ==
  /\ thread[n] = "calling"
  /\ attempt[n] <= RetryTimes
  /\ attempt' = [attempt EXCEPT ![n] = attempt[n] + 1]
  /\ UNCHANGED <<wf, hasDag, status, thread, driver, serial, pool, results,
                 raised, rounds>>

\* A transient error with attempts left.
AgentRetries(n) ==
  /\ thread[n] = "calling"
  /\ attempt[n] < RetryTimes
  /\ attempt' = [attempt EXCEPT ![n] = attempt[n] + 1]
  /\ UNCHANGED <<wf, hasDag, status, thread, driver, serial, pool, results,
                 raised, rounds>>

\* Mutant of AgentFails: the first failure fails the workflow.
AgentFailsWorkflow(n) ==
  /\ thread[n] = "calling"
  /\ thread' = [thread EXCEPT ![n] = "off"]
  /\ status' = [status EXCEPT ![n] = "failed"]
  /\ wf' = "failed"
  /\ results' = results \cup {<<n, "failed">>}
  /\ attempt' = [attempt EXCEPT ![n] = 0]
  /\ UNCHANGED <<hasDag, driver, serial, pool, raised, rounds>>

\* A permanent error, or a transient one on the last attempt.
AgentFails(n) ==
  /\ thread[n] = "calling"
  /\ thread' = [thread EXCEPT ![n] = "off"]
  /\ status' = [status EXCEPT ![n] = "failed"]
  /\ results' = results \cup {<<n, IF n \in NonCritical THEN "skipped" ELSE "failed">>}
  /\ attempt' = [attempt EXCEPT ![n] = 0]
  /\ UNCHANGED <<wf, hasDag, driver, serial, pool, raised, rounds>>

ReturnResult(n) ==
  /\ thread[n] = "post"
  /\ thread' = [thread EXCEPT ![n] = "off"]
  /\ results' = results \cup {<<n, "completed">>}
  /\ UNCHANGED <<wf, hasDag, status, attempt, driver, serial, pool, raised, rounds>>

\* Handling the result raises: the completed node turns into a failed one.
ResultHandlerFails(n) ==
  /\ thread[n] = "post"
  /\ thread' = [thread EXCEPT ![n] = "off"]
  /\ status' = [status EXCEPT ![n] = "failed"]
  /\ results' = results \cup {<<n, "failed">>}
  /\ UNCHANGED <<wf, hasDag, attempt, driver, serial, pool, raised, rounds>>

ThreadStep(n) ==
  \/ PreparationFails(n) \/ CallAgent(n) \/ AgentSucceeds(n) \/ AgentRetries(n)
  \/ AgentFails(n) \/ ReturnResult(n) \/ ResultHandlerFails(n)

CallStep ==
  \/ EnterCall \/ FindNothingReady \/ CloseRun \/ SubmitPool \/ LeavePool
  \/ \E k \in BatchSizes, parallel \in BOOLEAN : TakeBatch(k, parallel)
  \/ \E n \in Nodes : BeginSerial(n) \/ BeginPooled(n)

Next ==
  \/ StartPlanning \/ FinishPlanning \/ Stop \/ Resume \/ Reset
  \/ CallStep
  \/ \E n \in Nodes : ThreadStep(n)

Spec == Init /\ [][Next]_dagVars

\* The driver keeps calling, and a thread that is running goes on.
Fairness ==
  /\ WF_dagVars(CallStep)
  /\ WF_dagVars(FinishPlanning)
  /\ \A n \in Nodes : WF_dagVars(ThreadStep(n))

FairSpec == Spec /\ Fairness

-----------------------------------------------------------------------------
(* Properties.                                                               *)

Started(n) == status[n] # "pending" \/ n \in serial \cup pool

\* A node that has been picked for execution, is executing or has ended has
\* all its dependencies completed, with no thread left that could still turn
\* one of them into a failure (get_ready_nodes against the threads of a call).
DependenciesSettled ==
  \A n \in Nodes : Started(n) =>
    \A d \in Deps[n] : status[d] = "completed" /\ thread[d] = "off"

\* The workflow is reported completed only when every node is, and stays so
\* until a new generation request or a reset.
CompletedMeansAll == wf = "completed" => hasDag /\ AllCompleted

\* The workflow is reported failed only when a node failed and no other node
\* could still have been run: a failure does not stop independent branches.
FailedMeansExhausted ==
  wf = "failed" => HasFailed /\ ReadyNodes = {} /\ Active = {}

\* Where DagSchedule sees a node: with a thread on it the node runs, even when
\* its status already says "completed".
Phase ==
  [n \in Nodes |->
     CASE thread[n] # "off" -> "running"
       [] thread[n] = "off" /\ status[n] = "pending" -> "waiting"
       [] thread[n] = "off" /\ status[n] = "executing" -> "abandoned"
       [] thread[n] = "off" /\ status[n] = "completed" -> "done"
       [] OTHER -> "failed"]

Schedule == INSTANCE DagSchedule WITH phase <- Phase

\* The coordinator implements the abstract schedule: a node starts once per
\* round, after its dependencies, and its verdict is final.
ScheduleSpec == Schedule!Spec

Abandoned == \E n \in Nodes : status[n] = "executing" /\ thread[n] = "off"

\* A driver that keeps calling execute_ready_nodes brings an executing workflow
\* to completed or failed, unless it is paused, reset or replanned first, or a
\* node was left in "executing" by an exception: then it waits forever.
RunEnds == wf = "executing" ~> (wf # "executing" \/ Abandoned)

\* Comment on DAGNode.is_critical: a failure of a non-critical node is skipped
\* and does not block the workflow, so only a critical node can fail the run.
OnlyCriticalFailureFailsRun ==
  wf = "failed" => \E n \in Nodes \ NonCritical : status[n] = "failed"

\* Reply to a stop request: the workflow is paused until it is resumed (or
\* started again, or reset).
PauseHolds ==
  [][wf = "paused" => wf' = "paused" \/ Resume \/ StartPlanning \/ Reset]_dagVars
=============================================================================
