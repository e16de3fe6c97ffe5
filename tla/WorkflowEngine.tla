--------------------------- MODULE WorkflowEngine ---------------------------
(* WorkflowOrchestrator (agents/workflow_orchestrator.py), which takes one   *)
(* task through the stages of a workflow, and the graph that                 *)
(* TaskOrchestrator.execute_workflow makes of the same workflow. The engine  *)
(* has no lock and no loop of its own: execute_task runs in the thread of    *)
(* whoever calls it, resume_task executes too, and pause_task and            *)
(* cancel_task can only come from another thread. A stage that is under way  *)
(* ends without looking at the state they left.                              *)
EXTENDS Integers, Sequences, FiniteSets

CONSTANTS
  StageList,     \* WorkflowDefinition.stages, by the names of their agents
  Followers,     \* next_stages of each stage
  Condition,     \* what the condition of a stage compares, as the parts of its
                 \* path, <<>> without a condition
  Reads,         \* outputs in input_mapping
  Writes,        \* outputs in output_mapping
  NoStage,       \* no stage
  Runners,       \* threads that may be inside execute_task
  StageRetries   \* WorkflowTask.max_retries

StageNames == {StageList[i] : i \in DOMAIN StageList}

ASSUME StagesAssumption ==
  /\ StageList \in Seq(StageNames) /\ StageList # <<>>
  /\ Followers \in [StageNames -> Seq(StageNames)]
  /\ NoStage \notin StageNames
ASSUME RunnersAssumption == IsFiniteSet(Runners)
ASSUME StageRetriesAssumption == StageRetries \in Nat

VARIABLES
  taskState,   \* WorkflowTask.state
  nextStage,   \* input_data["current_stage"]
  tries,       \* WorkflowTask.retry_count
  runner,      \* [Runners -> where in execute_task, and the stage it took]
  asked,       \* stages an agent was asked for
  succeeded    \* stages whose outputs are in output_data

engineVars == <<taskState, nextStage, tries, runner, asked, succeeded>>

FirstStage == StageList[1]

EngineTypeOK ==
  /\ taskState \in {"inbox", "in_progress", "paused", "done", "failed", "cancelled"}
  /\ nextStage \in StageNames
  /\ tries \in 0 .. StageRetries + Cardinality(Runners)
  /\ runner \in [Runners -> [at : {"out", "called", "started", "asking", "passed",
                                  "refused", "retrying", "pausing",
                                  "resuming", "cancelling"},
                             stage : StageNames \cup {NoStage}]]
  /\ asked \subseteq StageNames
  /\ succeeded \subseteq asked

EngineInit ==
  /\ taskState = "inbox"
  /\ nextStage = FirstStage
  /\ tries = 0
  /\ runner = [r \in Runners |-> [at |-> "out", stage |-> NoStage]]
  /\ asked = {} /\ succeeded = {}

-----------------------------------------------------------------------------
(* The workflow.                                                             *)

\* Mutant of FindsValue: every condition finds what it compares.
AlwaysFinds(s) == Condition[s] # <<>>

\* A condition's value is looked for under "output" and "input" only.
FindsValue(s) == Condition[s] # <<>> /\ Condition[s][1] \in {"output", "input"}

SecondFollower(s) == IF Len(Followers[s]) > 1 THEN Followers[s][2] ELSE NoStage

\* The stages that may come after s: the first follower, unless there is none
\* or the condition finds a value that is too low. Without a value the
\* condition counts as met; the handoff type is not looked at.
NextStages(s) ==
  IF Followers[s] = <<>> THEN {NoStage}
  ELSE {Followers[s][1]} \cup IF FindsValue(s) THEN {SecondFollower(s)} ELSE {}

\* The first stage that writes the output; no name of an output begins with
\* another one.
SourceStage(o) ==
  LET writers == {i \in DOMAIN StageList : o \in Writes[StageList[i]]}
  IN  IF writers = {} THEN NoStage
      ELSE StageList[CHOOSE i \in writers : \A j \in writers : i <= j]

Inferred(s) == {SourceStage(o) : o \in Reads[s]} \ {NoStage}

Before(s) == {StageList[i - 1] : i \in {j \in 2 .. Len(StageList) : StageList[j] = s}}

\* The dependencies execute_workflow gives the node of s: the stages whose
\* outputs it reads, or the order of the list when no stage after the first
\* reads one.
Sources(s) ==
  IF \A i \in 2 .. Len(StageList) : Inferred(StageList[i]) = {}
  THEN Before(s) ELSE Inferred(s)

\* Stages the engine can come to.
OnRoute == {FirstStage} \cup UNION {NextStages(s) : s \in StageNames}

\* The sources of s the engine can have run.
Inputs(s) == Sources(s) \cap OnRoute

\* A set of stages that holds the first, and the followers of all but s.
ClosedBut(s, S) ==
  FirstStage \in S /\ \A q \in S \ {s} : NextStages(q) \subseteq S \cup {NoStage}

\* Every route from the first stage to f passes s.
Precedes(s, f) == \E S \in SUBSET StageNames : ClosedBut(s, S) /\ f \notin S

\* A stage reads what stages that precede it have written.
ASSUME FlowAssumption ==
  \A f \in OnRoute \ {NoStage} : \A s \in Inputs(f) : Precedes(s, f)

-----------------------------------------------------------------------------
(* execute_task.                                                             *)

MoveTo(r, place) == runner' = [runner EXCEPT ![r].at = place]

\* Whatever the state of the task, a call begins.
CallExecute(r) ==
  /\ runner[r].at = "out"
  /\ MoveTo(r, "called")
  /\ UNCHANGED <<taskState, nextStage, tries, asked, succeeded>>

StartTask(r) ==
  /\ runner[r].at = "called"
  /\ MoveTo(r, "started")
  /\ taskState' = "in_progress"
  /\ UNCHANGED <<nextStage, tries, asked, succeeded>>

\* The stage is looked up and its agent asked.
AskAgent(r) ==
  /\ runner[r].at = "started"
  /\ runner' = [runner EXCEPT ![r] = [at |-> "asking", stage |-> nextStage]]
  /\ asked' = asked \cup {nextStage}
  /\ UNCHANGED <<taskState, nextStage, tries, succeeded>>

\* The agent answers and its outputs are stored.
StagePasses(r) ==
  /\ runner[r].at = "asking"
  /\ MoveTo(r, "passed")
  /\ succeeded' = succeeded \cup {runner[r].stage}
  /\ UNCHANGED <<taskState, nextStage, tries, asked>>

\* Mutant of StageFails: a stage without an answer is passed over.
StageFailsUnseen(r) ==
  /\ runner[r].at = "asking"
  /\ MoveTo(r, "passed")
  /\ UNCHANGED <<taskState, nextStage, tries, asked, succeeded>>

\* The agent raises, has no answer, or is not registered.
StageFails(r) ==
  /\ runner[r].at = "asking"
  /\ MoveTo(r, "refused")
  /\ UNCHANGED <<taskState, nextStage, tries, asked, succeeded>>

Advance(r) ==
  /\ runner[r].at = "passed"
  /\ \E f \in NextStages(runner[r].stage) \ {NoStage} : nextStage' = f
  /\ taskState' = "inbox"
  /\ MoveTo(r, "called")
  /\ UNCHANGED <<tries, asked, succeeded>>

Leave(r, verdict) ==
  /\ taskState' = verdict
  /\ runner' = [runner EXCEPT ![r] = [at |-> "out", stage |-> NoStage]]
  /\ UNCHANGED <<nextStage, tries, asked, succeeded>>

CompleteTask(r) ==
  /\ runner[r].at = "passed"
  /\ NoStage \in NextStages(runner[r].stage)
  /\ Leave(r, "done")

GiveUp(r) ==
  /\ runner[r].at = "refused" /\ tries >= StageRetries
  /\ Leave(r, "failed")

\* The retries of all stages are counted together, and counted after the look.
MayRetry(r) ==
  /\ runner[r].at = "refused" /\ tries < StageRetries
  /\ MoveTo(r, "retrying")
  /\ UNCHANGED <<taskState, nextStage, tries, asked, succeeded>>

RetryStage(r) ==
  /\ runner[r].at = "retrying"
  /\ tries' = tries + 1
  /\ taskState' = "in_progress"
  /\ MoveTo(r, "called")
  /\ UNCHANGED <<nextStage, asked, succeeded>>

-----------------------------------------------------------------------------
(* The requests, which come from threads that execute nothing. Each looks at *)
(* the state and then sets it, whatever it is by then.                       *)

WantPause(r) ==
  /\ runner[r].at = "out" /\ taskState = "in_progress"
  /\ MoveTo(r, "pausing")
  /\ UNCHANGED <<taskState, nextStage, tries, asked, succeeded>>

WantResume(r) ==
  /\ runner[r].at = "out" /\ taskState = "paused"
  /\ MoveTo(r, "resuming")
  /\ UNCHANGED <<taskState, nextStage, tries, asked, succeeded>>

WantCancel(r) ==
  /\ runner[r].at = "out" /\ taskState \notin {"done", "failed", "cancelled"}
  /\ MoveTo(r, "cancelling")
  /\ UNCHANGED <<taskState, nextStage, tries, asked, succeeded>>

PauseTask(r) == runner[r].at = "pausing" /\ Leave(r, "paused")

CancelTask(r) == runner[r].at = "cancelling" /\ Leave(r, "cancelled")

\* resume_task executes the task in its own thread, whoever still does.
ResumeTask(r) ==
  /\ runner[r].at = "resuming"
  /\ taskState' = "in_progress"
  /\ MoveTo(r, "called")
  /\ UNCHANGED <<nextStage, tries, asked, succeeded>>

Request(r) == CallExecute(r) \/ WantPause(r) \/ WantResume(r) \/ WantCancel(r)

RunnerStep(r) ==
  \/ StartTask(r) \/ AskAgent(r) \/ StagePasses(r) \/ StageFails(r)
  \/ Advance(r) \/ CompleteTask(r) \/ GiveUp(r) \/ MayRetry(r) \/ RetryStage(r)
  \/ PauseTask(r) \/ CancelTask(r) \/ ResumeTask(r)

EngineNext == \E r \in Runners : Request(r) \/ RunnerStep(r)

EngineSpec == EngineInit /\ [][EngineNext]_engineVars

\* Threads run, and agents answer or fail in the end.
EngineFairness == \A r \in Runners : WF_engineVars(RunnerStep(r))

-----------------------------------------------------------------------------
(* Properties.                                                               *)

\* However pauses, resumes, cancellations and retries let two threads execute
\* one task and overwrite its current stage, an agent is asked for a stage only
\* when the outputs it reads are there, of all stages the engine ever runs:
\* the order of the engine keeps to the graph of the adapter as far as it goes.
InputsThere == \A s \in asked : Inputs(s) \subseteq succeeded

\* Every call returns: the threads cannot throw each other back for
\* ever, and the loop from the quality check back to the content is never taken.
ExecutionsReturn ==
  \A r \in Runners : runner[r].at # "out" ~> runner[r].at = "out"
=============================================================================
