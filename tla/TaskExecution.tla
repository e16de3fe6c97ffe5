--------------------------- MODULE TaskExecution ---------------------------
(* A novel generation task (api/controllers.py, api/routes/task_routes.py).  *)
(*                                                                           *)
(* TaskController._execute_task runs in the event loop. It drives its own    *)
(* coordinator one node at a time through a worker thread, reads the task's  *)
(* row before every node and writes status, progress and stage to it. The    *)
(* requests of the API read and write the same row in their own              *)
(* transactions. A transaction that checks the status it read before it      *)
(* writes takes two steps, one that only writes takes one: READ COMMITTED    *)
(* lets another commit fall between the two.                                 *)
EXTENDS CoordinatorDAG

CONSTANTS
  InitialStage,   \* current_stage "initializing"
  PausedStage,    \* current_stage "paused"
  PauseAnswers    \* what TaskOrchestrator.pause may answer for the task

ASSUME PauseAnswersAssumption == PauseAnswers \subseteq BOOLEAN

VARIABLES
  row,        \* Task.status
  progress,   \* Task.progress, in the units of Progress
  stage,      \* Task.current_stage
  pc,         \* where _execute_task is
  asked,      \* requests that passed their check and have yet to write
  taken,      \* TaskOrchestrator.pause answers True, the row is left alone
  begun       \* nodes begun since the row last turned cancelled or paused

taskVars == <<row, progress, stage, pc, asked, taken, begun>>
vars == <<dagVars, taskVars>>

RowStates == {"pending", "running", "paused", "completed", "failed", "cancelled"}
Terminal == {"completed", "failed", "cancelled"}
Held == {"cancelled", "paused"}
Requests == {"cancel", "pause", "resume"}
Places == {"scheduled", "planning", "check", "progress", "call", "waiting",
           "recording", "final", "completing", "failing", "done"}

TaskTypeOK ==
  /\ TypeOK
  /\ row \in RowStates
  /\ progress \in Nat
  /\ stage \in {InitialStage, PausedStage} \cup Nodes
  /\ pc \in Places
  /\ asked \subseteq Requests
  /\ taken \in BOOLEAN
  /\ begun \in Nat

TaskInit ==
  /\ Init
  /\ row = "pending"
  /\ progress = 0
  /\ stage = InitialStage
  /\ pc = "scheduled"
  /\ asked = {}
  /\ taken \in PauseAnswers
  /\ begun = 0

SetRow(s) ==
  /\ row' = s
  /\ begun' = IF row \in Held /\ s \in Held THEN begun ELSE 0

Goto(place) ==
  /\ pc' = place
  /\ UNCHANGED <<dagVars, row, progress, stage, asked, taken, begun>>

-----------------------------------------------------------------------------
(* TaskController._execute_task.                                             *)

Start ==
  /\ pc = "scheduled"
  /\ SetRow("running")
  /\ pc' = "planning"
  /\ UNCHANGED <<dagVars, progress, stage, asked, taken>>

\* A coordinator of its own, set to executing before it plans.
Plan ==
  /\ pc = "planning"
  /\ wf' = "executing"
  /\ hasDag' = TRUE
  /\ status' = AllPending
  /\ pc' = "check"
  /\ UNCHANGED <<thread, attempt, driver, serial, pool, results, raised, rounds,
                 row, progress, stage, asked, taken, begun>>

LeaveLoop ==
  /\ pc = "check"
  /\ AllCompleted \/ row = "cancelled"
  /\ Goto("final")

WaitWhilePaused ==
  /\ pc = "check"
  /\ ~AllCompleted
  /\ row = "paused"
  /\ stage' = PausedStage
  /\ UNCHANGED <<dagVars, row, progress, pc, asked, taken, begun>>

\* Mutant of PassCheck: a cancellation is not looked for.
PassCheckUnlessPaused ==
  /\ pc = "check"
  /\ ~AllCompleted
  /\ row # "paused"
  /\ Goto("progress")

PassCheck ==
  /\ pc = "check"
  /\ ~AllCompleted
  /\ row \notin Held
  /\ Goto("progress")

\* Mutant of SaveProgress: the loop goes on until every node is completed.
SaveProgressUntilCompleted ==
  /\ pc = "progress"
  /\ progress' = Progress
  /\ pc' = IF ReadyNodes = {} THEN "check" ELSE "call"
  /\ UNCHANGED <<dagVars, row, stage, asked, taken, begun>>

\* Without a next node the loop ends, whatever has failed.
SaveProgress ==
  /\ pc = "progress"
  /\ progress' = Progress
  /\ pc' = IF ReadyNodes = {} THEN "final" ELSE "call"
  /\ UNCHANGED <<dagVars, row, stage, asked, taken, begun>>

CallCoordinator ==
  /\ pc = "call"
  /\ EnterCall
  /\ pc' = "waiting"
  /\ UNCHANGED <<row, progress, stage, asked, taken, begun>>

\* The worker thread; after a timeout it goes on with the node it is at.
WorkerBegins ==
  /\ \E n \in Nodes : BeginSerial(n)
  /\ begun' = IF row \in Held THEN begun + 1 ELSE 0
  /\ UNCHANGED <<row, progress, stage, pc, asked, taken>>

\* Mutant of WorkerStep: the worker reports progress as it goes.
WorkerStepReporting ==
  /\ TakeBatch(1, FALSE) \/ SubmitPool \/ \E n \in Nodes : ThreadStep(n)
  /\ progress' = Progress
  /\ UNCHANGED <<row, stage, pc, asked, taken, begun>>

WorkerStep ==
  /\ TakeBatch(1, FALSE) \/ SubmitPool \/ \E n \in Nodes : ThreadStep(n)
  /\ UNCHANGED taskVars

WorkerReturns ==
  /\ pc = "waiting"
  /\ driver = "idle"
  /\ Goto(IF raised THEN "failing" ELSE "recording")

\* Mutant of TimeOut: the loop is left as if it had come to its end.
TimeOutEndsLoop ==
  /\ pc = "waiting"
  /\ driver # "idle"
  /\ Goto("final")

TimeOut ==
  /\ pc = "waiting"
  /\ driver # "idle"
  /\ Goto("failing")

RecordResult ==
  /\ pc = "recording"
  /\ \E result \in results : stage' = result[1]
  /\ pc' = "check"
  /\ UNCHANGED <<dagVars, row, progress, asked, taken, begun>>

FinalRead ==
  /\ pc = "final"
  /\ Goto(IF row = "cancelled" THEN "done" ELSE "completing")

Complete ==
  /\ pc = "completing"
  /\ SetRow("completed")
  /\ pc' = "done"
  /\ UNCHANGED <<dagVars, progress, stage, asked, taken>>

\* Configuration, planning or a transaction raises inside the try block.
Raise ==
  /\ pc \in {"planning", "check", "progress", "recording", "final", "completing"}
  /\ Goto("failing")

MarkFailed ==
  /\ pc = "failing"
  /\ SetRow("failed")
  /\ pc' = "done"
  /\ UNCHANGED <<dagVars, progress, stage, asked, taken>>

\* The first transaction is outside the try block, the last one in its
\* except clause: when one of them raises, nobody is left to write the row.
Vanish ==
  /\ pc \in {"scheduled", "failing"}
  /\ Goto("done")

ExecutorStep ==
  \/ Start \/ Plan \/ LeaveLoop \/ WaitWhilePaused \/ PassCheck \/ SaveProgress
  \/ CallCoordinator \/ WorkerReturns \/ RecordResult \/ FinalRead \/ Complete
  \/ MarkFailed

-----------------------------------------------------------------------------
(* task_action and cancel_task.                                              *)

Allowed(request) ==
  CASE request = "cancel" -> row \notin Terminal
    [] request = "pause" -> row \in {"pending", "running"}
    [] request = "resume" -> row = "paused"

Effect == [cancel |-> "cancelled", pause |-> "paused", resume |-> "running"]

\* A request reads the row and finds that it may act. A pause comes this far
\* only when the TaskOrchestrator has answered False.
Ask(request) ==
  /\ request \notin asked
  /\ request = "pause" => ~taken
  /\ Allowed(request)
  /\ asked' = asked \cup {request}
  /\ UNCHANGED <<dagVars, row, progress, stage, pc, taken, begun>>

\* ... and writes. The caller is told it succeeded when this commits.
Write(request) ==
  /\ request \in asked
  /\ asked' = asked \ {request}
  /\ SetRow(Effect[request])
  /\ UNCHANGED <<dagVars, progress, stage, pc, taken>>

\* The write raises: it is rolled back.
WriteFails(request) ==
  /\ request \in asked
  /\ asked' = asked \ {request}
  /\ UNCHANGED <<dagVars, row, progress, stage, pc, taken, begun>>

-----------------------------------------------------------------------------

TaskNext ==
  \/ ExecutorStep
  \/ TimeOut \/ Raise \/ Vanish
  \/ WorkerBegins \/ WorkerStep
  \/ \E request \in Requests : Ask(request) \/ Write(request) \/ WriteFails(request)

TaskSpec == TaskInit /\ [][TaskNext]_vars

\* The event loop runs the executor on and the worker thread makes progress;
\* clients, timeouts and failures of the database are not owed to anybody.
TaskFairness ==
  /\ WF_vars(ExecutorStep)
  /\ WF_vars(WorkerBegins)
  /\ WF_vars(TakeBatch(1, FALSE) /\ UNCHANGED taskVars)
  /\ WF_vars(SubmitPool /\ UNCHANGED taskVars)
  /\ \A n \in Nodes : WF_vars(ThreadStep(n) /\ UNCHANGED taskVars)

TaskFairSpec == TaskSpec /\ TaskFairness

-----------------------------------------------------------------------------
(* Properties.                                                               *)

\* However the row came to be cancelled or paused, at most one node begins
\* while it stays so: the one that was let through just before (the check at
\* the head of the loop against the requests committed after it).
HeldStops == begun <= 1

\* A task reported completed has no node running and none left to run, unless
\* a pause or resume request could overwrite the cancellation that ended it.
CompletedMeansExhausted ==
  row = "completed" /\ taken => Active = {} /\ ReadyNodes = {}

\* The progress shown to the user never goes back, although a node that was
\* completed may still turn into a failed one.
ProgressGrows == [][progress' >= progress]_vars

\* The executor comes to an end whatever the agents, the clients and the
\* database do, unless the task is paused.
ExecutorEnds == pc = "scheduled" ~> (pc = "done" \/ row = "paused")

\* Replies to a cancel request ("Task ... has been cancelled"): a cancelled
\* task stays cancelled.
CancelHolds == [][row = "cancelled" => row' = "cancelled"]_vars
=============================================================================
