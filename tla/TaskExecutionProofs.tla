------------------------- MODULE TaskExecutionProofs -------------------------
(* The safety properties of TaskExecution, for every graph and number of     *)
(* retries, and whatever TaskOrchestrator.pause answers. The executor drives *)
(* the coordinator through steps the coordinator has by itself, but for Plan *)
(* (PlanKeeps), so that IInv of CoordinatorDAGProofs holds here as well.     *)
EXTENDS TaskExecution, CoordinatorDAGProofs, FiniteSetTheorems

\* A worker runs nodes only while the executor waits for it, or has given up.
WorkerWhileCalled ==
  pc \notin {"waiting", "failing", "done"} => driver = "idle"

OneNodeAtATime == \A m, n \in serial : m = n

\* A node can begin while the row is cancelled or paused only if it was let
\* through before: then the executor has no other node in hand.
HeldCounted ==
  /\ begun \in {0, 1}
  /\ row \notin Held => begun = 0
  /\ begun = 1 => pc \notin {"progress", "call"} /\ serial = {} /\ driver # "checked"

\* When TaskOrchestrator.pause takes the pauses, the row is never paused.
TakenIsNeverPaused ==
  taken => asked \subseteq {"cancel"} /\ row # "paused"

\* Without pauses in the row, the loop ends for want of a node, or for good.
LoopEndsExhausted ==
  /\ taken /\ pc = "final" => row = "cancelled" \/ ReadyNodes = {}
  /\ taken /\ pc = "completing" => ReadyNodes = {}
  /\ row = "completed" => pc = "done" /\ driver = "idle"
  /\ row = "completed" /\ taken => ReadyNodes = {}

TaskInv ==
  /\ TaskTypeOK
  /\ IInv
  /\ WorkerWhileCalled
  /\ OneNodeAtATime
  /\ HeldCounted
  /\ TakenIsNeverPaused
  /\ LoopEndsExhausted

-----------------------------------------------------------------------------
(* Nodes, counts and progress.                                               *)

\* The first of a set of nodes is one node.
LEMMA FirstIsOne ==
  ASSUME NEW S \in SUBSET Nodes
  PROVE  \A m, n \in FirstOf(1, S) : m = n
<1> SUFFICES ASSUME NEW m \in FirstOf(1, S), NEW n \in FirstOf(1, S)
             PROVE  m = n
  OBVIOUS
<1>1. \A k \in FirstOf(1, S) : \A l \in S : ~(Rank[l] < Rank[k])
  <2> SUFFICES ASSUME NEW k \in FirstOf(1, S)
               PROVE  {l \in S : Rank[l] < Rank[k]} = {}
    OBVIOUS
  <2> DEFINE Before == {l \in S : Rank[l] < Rank[k]}
  <2>1. IsFiniteSet(Before)
    BY NodesAssumption, FS_Subset
  <2>2. Cardinality(Before) < 1
    BY DEF FirstOf
  <2>3. Cardinality(Before) = 0
    BY <2>1, <2>2, FS_CardinalityType
  <2> QED BY <2>1, <2>3, FS_EmptySet
<1>2. m \in S /\ n \in S
  BY DEF FirstOf
<1>3. Rank[m] \in Int /\ Rank[n] \in Int
  BY <1>2, RankAssumption
<1> QED BY <1>1, <1>2, <1>3, RankAssumption

LEMMA CountsAreNat ==
  ASSUME NEW S \in SUBSET Nodes
  PROVE  IsFiniteSet(S) /\ Cardinality(S) \in Nat
BY NodesAssumption, FS_Subset, FS_CardinalityType

LEMMA ProgressIsNat == Progress \in Nat
<1> DEFINE Done(S) == Cardinality({n \in S : status[n] = "completed"})
           a == AtLeastOne(Cardinality(Nodes \ Chapters))
           b == AtLeastOne(Cardinality(Chapters))
<1>1. Done(Chapters) \in Nat /\ Done(Nodes \ Chapters) \in Nat
  <2>1. /\ {n \in Chapters : status[n] = "completed"} \in SUBSET Nodes
        /\ {n \in Nodes \ Chapters : status[n] = "completed"} \in SUBSET Nodes
    BY NodesAssumption
  <2> QED BY <2>1, CountsAreNat
<1>2. a \in Nat /\ b \in Nat
  BY CountsAreNat, NodesAssumption DEF AtLeastOne
<1>3. Progress = 60 * Done(Chapters) * a + 40 * Done(Nodes \ Chapters) * b
  BY DEF Progress
<1> HIDE DEF Done, a, b
<1> QED BY <1>1, <1>2, <1>3

-----------------------------------------------------------------------------
(* The inductive invariant.                                                  *)

\* What TaskInv says beyond the coordinator's own invariant.
TaskRest ==
  /\ TaskTypeOK
  /\ WorkerWhileCalled
  /\ OneNodeAtATime
  /\ HeldCounted
  /\ TakenIsNeverPaused
  /\ LoopEndsExhausted

LEMMA TaskInitHolds == TaskInit => TaskInv
<1> SUFFICES ASSUME TaskInit PROVE TaskInv
  OBVIOUS
<1>1. IInv
  BY InvInit DEF TaskInit
<1>2. TaskTypeOK
  BY <1>1, PauseAnswersAssumption
     DEF TaskInit, TaskTypeOK, RowStates, Requests, Places, IInv
<1>3. /\ WorkerWhileCalled /\ OneNodeAtATime /\ HeldCounted
      /\ TakenIsNeverPaused /\ LoopEndsExhausted
  BY DEF TaskInit, Init, Held, WorkerWhileCalled, OneNodeAtATime, HeldCounted,
         TakenIsNeverPaused, LoopEndsExhausted
<1> QED BY <1>1, <1>2, <1>3 DEF TaskInv

\* Nothing moves in the coordinator.
LEMMA CoordinatorRests ==
  ASSUME TaskInv, UNCHANGED dagVars
  PROVE  /\ IInv'
         /\ UNCHANGED <<status, thread, driver, serial>>
         /\ ReadyNodes' = ReadyNodes /\ AllCompleted' = AllCompleted
<1>1. IInv'
  BY InvStep DEF TaskInv
<1> QED BY <1>1 DEF dagVars, ReadyNodes, Ready, AllCompleted

\* With every node completed, none is ready.
LEMMA CompletedIsExhausted ==
  ASSUME AllCompleted
  PROVE  ReadyNodes = {}
BY DEF AllCompleted, ReadyNodes, Ready

\* The executor's steps between two calls of the coordinator.
LEMMA ExecutorKeeps ==
  ASSUME TaskInv,
         \/ Start \/ LeaveLoop \/ WaitWhilePaused \/ PassCheck \/ SaveProgress
         \/ WorkerReturns \/ TimeOut \/ RecordResult \/ FinalRead \/ Complete
         \/ Raise \/ MarkFailed \/ Vanish
  PROVE  TaskRest' /\ UNCHANGED dagVars
<1> USE DEF Goto, SetRow, TaskInv, TaskRest, TaskTypeOK, RowStates, Places, Held,
            WorkerWhileCalled, OneNodeAtATime, HeldCounted, TakenIsNeverPaused,
            LoopEndsExhausted
<1>1. UNCHANGED dagVars
  BY DEF Start, LeaveLoop, WaitWhilePaused, PassCheck, SaveProgress, WorkerReturns,
         TimeOut, RecordResult, FinalRead, Complete, Raise, MarkFailed, Vanish
<1>2. /\ TypeOK'
      /\ UNCHANGED <<status, thread, driver, serial>>
      /\ ReadyNodes' = ReadyNodes
  BY <1>1, CoordinatorRests DEF IInv
<1>3. CASE Start BY <1>2, <1>3 DEF Start
<1>4. CASE LeaveLoop BY <1>2, <1>4, CompletedIsExhausted DEF LeaveLoop
<1>5. CASE WaitWhilePaused BY <1>2, <1>5 DEF WaitWhilePaused
<1>6. CASE PassCheck BY <1>2, <1>6 DEF PassCheck
<1>7. CASE SaveProgress BY <1>2, <1>7, ProgressIsNat DEF SaveProgress
<1>8. CASE WorkerReturns BY <1>2, <1>8 DEF WorkerReturns
<1>9. CASE TimeOut BY <1>2, <1>9 DEF TimeOut
<1>10. CASE RecordResult
  <2>1. stage' \in {InitialStage, PausedStage} \cup Nodes
    BY <1>10 DEF RecordResult, TypeOK
  <2> QED BY <1>2, <1>10, <2>1 DEF RecordResult
<1>11. CASE FinalRead BY <1>2, <1>11 DEF FinalRead
<1>12. CASE Complete BY <1>2, <1>12 DEF Complete
<1>13. CASE Raise BY <1>2, <1>13 DEF Raise
<1>14. CASE MarkFailed BY <1>2, <1>14 DEF MarkFailed
<1>15. CASE Vanish BY <1>2, <1>15 DEF Vanish
<1> QED BY <1>1, <1>3, <1>4, <1>5, <1>6, <1>7, <1>8, <1>9, <1>10, <1>11, <1>12,
           <1>13, <1>14, <1>15

\* The requests.
LEMMA RequestKeeps ==
  ASSUME TaskInv, NEW request \in Requests,
         Ask(request) \/ Write(request) \/ WriteFails(request)
  PROVE  TaskRest' /\ UNCHANGED dagVars
<1> USE DEF SetRow, TaskInv, TaskRest, TaskTypeOK, RowStates, Places, Held, Requests,
            WorkerWhileCalled, OneNodeAtATime, HeldCounted, TakenIsNeverPaused,
            LoopEndsExhausted
<1>1. UNCHANGED dagVars
  BY DEF Ask, Write, WriteFails
<1>2. /\ TypeOK'
      /\ UNCHANGED <<status, thread, driver, serial>>
      /\ ReadyNodes' = ReadyNodes
  BY <1>1, CoordinatorRests DEF IInv
<1>3. CASE Ask(request)
  <2>1. request = "resume" => row = "paused"
    BY <1>3 DEF Ask, Allowed
  <2>2. taken => request = "cancel"
    BY <1>3, <2>1 DEF Ask
  <2> QED BY <1>2, <1>3, <2>2 DEF Ask
<1>4. CASE Write(request)
  <2>1. /\ Effect[request] \in {"cancelled", "paused", "running"}
        /\ taken => Effect[request] = "cancelled"
    BY <1>4 DEF Write, Effect
  <2> QED BY <1>2, <1>4, <2>1 DEF Write
<1>5. CASE WriteFails(request) BY <1>2, <1>5 DEF WriteFails
<1> QED BY <1>1, <1>3, <1>4, <1>5

\* Plan is the coordinator's FinishPlanning while no call runs.
LEMMA PlanKeeps ==
  ASSUME TaskInv, Plan
  PROVE  TaskInv' /\ Schedule!Restart
<1>1. /\ driver = "idle" /\ driver' = "idle"
      /\ \A n \in Nodes : thread[n] = "off" /\ n \notin serial /\ n \notin pool
  BY DEF Plan, TaskInv, WorkerWhileCalled, IInv, CallsOwnThreads
<1>2. /\ hasDag' = TRUE /\ wf' = "executing"
      /\ status' = [n \in Nodes |-> "pending"]
      /\ UNCHANGED <<thread, attempt, driver, serial, pool, results, raised, rounds>>
  BY DEF Plan, AllPending
<1>3. TypeOK'
  BY <1>2 DEF TaskInv, IInv, TypeOK, WorkflowStates, NodeStates
<1>4. Rest'
  BY <1>1, <1>2, <1>3
     DEF TaskInv, IInv, Rest, TypeOK, ThreadsOnTheirNodes, CallsOwnThreads,
         PickedArePending, SerialOneByOne, VerdictsBetweenCalls, DependenciesSettled,
         Started, CompletedMeansAll, FailedMeansExhausted
<1>5. TaskRest'
  BY <1>1, <1>2, <1>3
     DEF Plan, TaskInv, TaskRest, TaskTypeOK, RowStates, Places, Held,
         WorkerWhileCalled, OneNodeAtATime, HeldCounted, TakenIsNeverPaused,
         LoopEndsExhausted
<1>6. Schedule!Restart
  <2>1. \A n \in Nodes : Phase[n] # "running"
    BY <1>1, NothingRunsBetweenCalls DEF TaskInv
  <2>2. Phase' = Schedule!AllWaiting
    BY <1>1, <1>2 DEF Phase, Schedule!AllWaiting
  <2> QED BY <2>1, <2>2 DEF Schedule!Restart
<1> QED BY <1>3, <1>4, <1>5, <1>6 DEF TaskInv, TaskRest, IInv, Rest

\* The executor has a node ready and calls the coordinator.
LEMMA CallCoordinatorKeeps ==
  ASSUME TaskInv, CallCoordinator
  PROVE  TaskInv' /\ UNCHANGED <<status, thread>>
<1>1. /\ EnterCall /\ pc' = "waiting" /\ pc = "call"
      /\ UNCHANGED <<row, progress, stage, asked, taken, begun>>
  BY DEF CallCoordinator
<1>2. IInv'
  BY <1>1, InvStep DEF TaskInv, Next, CallStep
<1>3. driver' = "checked" /\ UNCHANGED <<status, thread, serial>>
  BY <1>1 DEF EnterCall
<1>4. ReadyNodes' = ReadyNodes
  BY <1>3 DEF ReadyNodes, Ready
<1>5. begun = 0
  BY <1>1 DEF TaskInv, HeldCounted
<1>6. TaskRest'
  BY <1>1, <1>2, <1>3, <1>4, <1>5
     DEF IInv, TaskInv, TaskRest, TaskTypeOK, Places, WorkerWhileCalled,
         OneNodeAtATime, HeldCounted, TakenIsNeverPaused, LoopEndsExhausted
<1> QED BY <1>2, <1>3, <1>6 DEF TaskInv, TaskRest

\* The worker takes the first of the ready nodes, whatever the batch sizes of
\* the coordinator's other callers.
LEMMA TakeOneKeeps ==
  ASSUME TaskInv, TakeBatch(1, FALSE), UNCHANGED taskVars
  PROVE  TaskInv' /\ UNCHANGED <<status, thread>>
<1>1. /\ driver = "checked" /\ driver' = "batch"
      /\ serial' = FirstOf(1, ReadyNodes) /\ pool' = {}
      /\ results' = {} /\ raised' = FALSE
      /\ UNCHANGED <<wf, hasDag, status, thread, attempt, rounds>>
  BY DEF TakeBatch
<1>2. ReadyNodes \in SUBSET Nodes
  BY DEF ReadyNodes
<1>3. serial' \subseteq Nodes /\ \A m, n \in serial' : m = n
  BY <1>1, <1>2, FirstOfSubset, FirstIsOne
<1>4. TypeOK'
  BY <1>1, <1>3 DEF TaskInv, IInv, TypeOK, DriverStates
<1>5. Rest'
  BY SnapshotStep DEF TaskInv
<1>6. ReadyNodes' = ReadyNodes
  BY <1>1 DEF ReadyNodes, Ready
<1>7. pc \in {"waiting", "failing", "done"} /\ begun = 0 /\ row # "completed"
  BY <1>1 DEF TaskInv, WorkerWhileCalled, HeldCounted, LoopEndsExhausted
<1>8. TaskRest'
  BY <1>1, <1>3, <1>4, <1>6, <1>7
     DEF taskVars, TaskInv, TaskRest, TaskTypeOK, WorkerWhileCalled,
         OneNodeAtATime, HeldCounted, TakenIsNeverPaused, LoopEndsExhausted
<1> QED BY <1>1, <1>4, <1>5, <1>8 DEF TaskInv, TaskRest, IInv, Rest

\* The worker begins the node it was given.
LEMMA WorkerBeginsKeeps ==
  ASSUME TaskInv, WorkerBegins
  PROVE  TaskInv'
<1>1. PICK n \in Nodes : BeginSerial(n)
  BY DEF WorkerBegins
<1>2. IInv'
  BY <1>1, InvStep DEF TaskInv, Next, CallStep
<1>3. /\ driver = "batch" /\ driver' = driver
      /\ n \in serial /\ serial' = serial \ {n}
  BY <1>1 DEF BeginSerial
<1>4. serial' = {}
  BY <1>3 DEF TaskInv, OneNodeAtATime
<1>5. /\ begun' = IF row \in Held THEN begun + 1 ELSE 0
      /\ UNCHANGED <<row, progress, stage, pc, asked, taken>>
  BY DEF WorkerBegins
<1>6. pc \in {"waiting", "failing", "done"} /\ row # "completed" /\ begun = 0
  BY <1>3 DEF TaskInv, WorkerWhileCalled, LoopEndsExhausted, HeldCounted
<1>7. TaskRest'
  BY <1>2, <1>3, <1>4, <1>5, <1>6
     DEF IInv, TaskInv, TaskRest, TaskTypeOK, WorkerWhileCalled, OneNodeAtATime,
         HeldCounted, TakenIsNeverPaused, LoopEndsExhausted
<1> QED BY <1>2, <1>7 DEF TaskInv, TaskRest

\* The worker goes on with its node, or ends the call.
LEMMA WorkerStepKeeps ==
  ASSUME TaskInv, WorkerStep
  PROVE  TaskInv'
<1>0. CASE TakeBatch(1, FALSE)
  BY <1>0, TakeOneKeeps DEF WorkerStep
<1> SUFFICES ASSUME SubmitPool \/ \E n \in Nodes : ThreadStep(n)
             PROVE  TaskInv'
  BY <1>0 DEF WorkerStep
<1>2. IInv'
  BY InvStep DEF TaskInv, Next, CallStep
<1>3. driver \in {"batch", "pool"}
  <2>1. CASE SubmitPool BY <2>1 DEF SubmitPool
  <2>2. ASSUME NEW n \in Nodes, ThreadStep(n) PROVE driver \in {"batch", "pool"}
    <3>1. thread[n] # "off"
      BY <2>2 DEF ThreadStep, PreparationFails, CallAgent, AgentSucceeds,
                  AgentRetries, AgentFails, ReturnResult, ResultHandlerFails
    <3> QED BY <3>1 DEF TaskInv, IInv, CallsOwnThreads, TypeOK, DriverStates
  <2> QED BY <2>1, <2>2
<1>4. serial' \subseteq serial
  BY DEF SubmitPool, ThreadStep, PreparationFails, CallAgent, AgentSucceeds,
         AgentRetries, AgentFails, ReturnResult, ResultHandlerFails
<1>1. driver' # "checked"
  BY <1>3 DEF SubmitPool, ThreadStep, PreparationFails, CallAgent, AgentSucceeds,
         AgentRetries, AgentFails, ReturnResult, ResultHandlerFails
<1>5. UNCHANGED <<row, progress, stage, pc, asked, taken, begun>>
  BY DEF WorkerStep, taskVars
<1>6. pc \in {"waiting", "failing", "done"} /\ row # "completed"
  BY <1>3 DEF TaskInv, WorkerWhileCalled, LoopEndsExhausted
<1>7. TaskRest'
  BY <1>1, <1>2, <1>4, <1>5, <1>6
     DEF IInv, TaskInv, TaskRest, TaskTypeOK, WorkerWhileCalled, OneNodeAtATime,
         HeldCounted, TakenIsNeverPaused, LoopEndsExhausted
<1> QED BY <1>2, <1>7 DEF TaskInv, TaskRest

LEMMA TaskStutterKeeps ==
  ASSUME TaskInv, UNCHANGED vars
  PROVE  TaskInv'
<1>1. IInv' /\ UNCHANGED <<status, thread, driver, serial>> /\ ReadyNodes' = ReadyNodes
  BY CoordinatorRests DEF vars
<1>2. TaskRest'
  BY <1>1
     DEF vars, taskVars, IInv, TaskInv, TaskRest, TaskTypeOK, WorkerWhileCalled,
         OneNodeAtATime, HeldCounted, TakenIsNeverPaused, LoopEndsExhausted
<1> QED BY <1>1, <1>2 DEF TaskInv, TaskRest

\* The steps of a task, by what they do to the coordinator.
LEMMA TaskSteps ==
  ASSUME [TaskNext]_vars
  PROVE  \/ \/ Start \/ LeaveLoop \/ WaitWhilePaused \/ PassCheck \/ SaveProgress
            \/ WorkerReturns \/ TimeOut \/ RecordResult \/ FinalRead \/ Complete
            \/ Raise \/ MarkFailed \/ Vanish
         \/ \E request \in Requests : Ask(request) \/ Write(request) \/ WriteFails(request)
         \/ Plan \/ CallCoordinator \/ WorkerBegins \/ WorkerStep \/ UNCHANGED vars
BY DEF TaskNext, ExecutorStep

LEMMA TaskInvStep == TaskInv /\ [TaskNext]_vars => TaskInv'
<1> SUFFICES ASSUME TaskInv, [TaskNext]_vars PROVE TaskInv'
  OBVIOUS
<1>1. CASE \/ Start \/ LeaveLoop \/ WaitWhilePaused \/ PassCheck \/ SaveProgress
           \/ WorkerReturns \/ TimeOut \/ RecordResult \/ FinalRead \/ Complete
           \/ Raise \/ MarkFailed \/ Vanish
  BY <1>1, ExecutorKeeps, CoordinatorRests DEF TaskInv, TaskRest
<1>2. ASSUME NEW request \in Requests,
             Ask(request) \/ Write(request) \/ WriteFails(request)
      PROVE  TaskInv'
  BY <1>2, RequestKeeps, CoordinatorRests DEF TaskInv, TaskRest
<1>3. CASE Plan \/ CallCoordinator
  BY <1>3, PlanKeeps, CallCoordinatorKeeps
<1>4. CASE WorkerBegins \/ WorkerStep \/ UNCHANGED vars
  BY <1>4, WorkerBeginsKeeps, WorkerStepKeeps, TaskStutterKeeps
<1> QED BY <1>1, <1>2, <1>3, <1>4, TaskSteps

\* The executor, the requests and the coordinator stay in step.
THEOREM TaskInvariant == TaskSpec => []TaskInv
BY TaskInitHolds, TaskInvStep, PTL DEF TaskSpec

-----------------------------------------------------------------------------
(* The properties.                                                           *)

\* Every variable of the task stays within its type, for every graph.
THEOREM TaskTypeCorrect == TaskSpec => []TaskTypeOK
<1>1. TaskInv => TaskTypeOK BY DEF TaskInv
<1> QED BY <1>1, TaskInvariant, PTL

\* At most one node begins while the row stays cancelled or paused.
THEOREM HeldStopsHolds == TaskSpec => []HeldStops
<1>1. TaskInv => HeldStops BY DEF TaskInv, HeldCounted, HeldStops
<1> QED BY <1>1, TaskInvariant, PTL

\* While TaskOrchestrator.pause takes the pauses, a task is reported completed
\* only when nothing runs and nothing is left to run.
THEOREM CompletedMeansExhaustedHolds == TaskSpec => []CompletedMeansExhausted
<1>1. TaskInv => CompletedMeansExhausted
  <2> SUFFICES ASSUME TaskInv, row = "completed", taken
               PROVE  Active = {} /\ ReadyNodes = {}
    BY DEF CompletedMeansExhausted
  <2>1. driver = "idle" /\ ReadyNodes = {}
    BY DEF TaskInv, LoopEndsExhausted
  <2>2. Active = {}
    BY <2>1 DEF TaskInv, IInv, CallsOwnThreads, Active
  <2> QED BY <2>1, <2>2
<1> QED BY <1>1, TaskInvariant, PTL

\* A task takes the coordinator through the abstract schedule: planning is its
\* only new round.
THEOREM TaskKeepsSchedule == TaskSpec => ScheduleSpec
<1>1. TaskInit => Schedule!Init
  BY DEF TaskInit, Init, AllPending, Phase, Schedule!Init, Schedule!AllWaiting
<1>2. TaskInv /\ [TaskNext]_vars => [Schedule!Next]_Phase
  <2> SUFFICES ASSUME TaskInv, [TaskNext]_vars PROVE [Schedule!Next]_Phase
    OBVIOUS
  <2>1. CASE Plan
    BY <2>1, PlanKeeps DEF Schedule!Next
  <2>2. CASE WorkerBegins
    BY <2>2, BeginIsStart DEF WorkerBegins, Schedule!Next, TaskInv
  <2>3. CASE WorkerStep
    <3>0. CASE TakeBatch(1, FALSE) BY <3>0, PhaseUnchanged DEF TakeBatch
    <3>1. CASE SubmitPool BY <3>1, PhaseUnchanged DEF SubmitPool
    <3>2. ASSUME NEW n \in Nodes, ThreadStep(n) PROVE [Schedule!Next]_Phase
      BY <3>2, ThreadStepIsEnd DEF Schedule!Next, TaskInv
    <3> QED BY <2>3, <3>0, <3>1, <3>2 DEF WorkerStep
  <2>4. CASE CallCoordinator
    BY <2>4, CallCoordinatorKeeps, PhaseUnchanged
  <2>5. CASE UNCHANGED dagVars
    BY <2>5, PhaseUnchanged DEF dagVars
  <2>6. CASE \/ Start \/ LeaveLoop \/ WaitWhilePaused \/ PassCheck \/ SaveProgress
             \/ WorkerReturns \/ TimeOut \/ RecordResult \/ FinalRead \/ Complete
             \/ Raise \/ MarkFailed \/ Vanish
    BY <2>5, <2>6, ExecutorKeeps
  <2>7. ASSUME NEW request \in Requests,
               Ask(request) \/ Write(request) \/ WriteFails(request)
        PROVE  [Schedule!Next]_Phase
    BY <2>5, <2>7, RequestKeeps
  <2>8. CASE UNCHANGED vars
    BY <2>5, <2>8 DEF vars
  <2> QED BY <2>1, <2>2, <2>3, <2>4, <2>6, <2>7, <2>8, TaskSteps
<1> QED BY <1>1, <1>2, TaskInvariant, PTL DEF TaskSpec, ScheduleSpec, Schedule!Spec

-----------------------------------------------------------------------------
(* Progress.                                                                 *)

\* The nodes that are completed with no thread left to turn them into failed.
DoneForGood(S) == {n \in S : status[n] = "completed" /\ thread[n] = "off"}

SettledProgress ==
  60 * Cardinality(DoneForGood(Chapters)) * AtLeastOne(Cardinality(Nodes \ Chapters))
    + 40 * Cardinality(DoneForGood(Nodes \ Chapters)) * AtLeastOne(Cardinality(Chapters))

\* What is shown to the user counts settled nodes only; before the plan there
\* is nothing to show.
ShownIsSettled ==
  /\ progress <= SettledProgress
  /\ pc \in {"scheduled", "planning"} => progress = 0

\* The counts in SettledProgress.
LEMMA SettledCounts ==
  ASSUME NEW S \in SUBSET Nodes
  PROVE  /\ Cardinality(DoneForGood(S)) \in Nat /\ Cardinality(DoneForGood(S)') \in Nat
         /\ DoneForGood(S) \subseteq DoneForGood(S)' =>
              Cardinality(DoneForGood(S)) <= Cardinality(DoneForGood(S)')
<1>1. DoneForGood(S) \in SUBSET Nodes /\ DoneForGood(S)' \in SUBSET Nodes
  BY DEF DoneForGood
<1>2. /\ IsFiniteSet(DoneForGood(S)) /\ IsFiniteSet(DoneForGood(S)')
      /\ Cardinality(DoneForGood(S)) \in Nat /\ Cardinality(DoneForGood(S)') \in Nat
  BY <1>1, CountsAreNat
<1> QED BY <1>2, FS_Subset

\* Weighing more nodes gives no less.
LEMMA WeighingGrows ==
  ASSUME NEW x \in Nat, NEW y \in Nat, NEW a \in Nat, NEW k \in Nat, x <= y
  PROVE  k * x * a <= k * y * a /\ k * x * a \in Nat /\ k * y * a \in Nat
<1>1. PICK d \in Nat : y = x + d
  <2>1. y - x \in Nat /\ y = x + (y - x) OBVIOUS
  <2> QED BY <2>1
<1>2. k * y * a = k * x * a + k * d * a
  BY <1>1
<1>3. k * x * a \in Nat /\ k * d * a \in Nat
  OBVIOUS
<1> QED BY <1>2, <1>3

\* While no settled node is unsettled, the settled progress does not fall.
LEMMA SettledGrows ==
  /\ SettledProgress \in Nat /\ SettledProgress' \in Nat
  /\ /\ DoneForGood(Chapters) \subseteq DoneForGood(Chapters)'
     /\ DoneForGood(Nodes \ Chapters) \subseteq DoneForGood(Nodes \ Chapters)'
     => SettledProgress <= SettledProgress'
<1> DEFINE x == Cardinality(DoneForGood(Chapters))
           y == Cardinality(DoneForGood(Nodes \ Chapters))
           v == Cardinality(DoneForGood(Chapters)')
           w == Cardinality(DoneForGood(Nodes \ Chapters)')
           a == AtLeastOne(Cardinality(Nodes \ Chapters))
           b == AtLeastOne(Cardinality(Chapters))
<1>1. Chapters \in SUBSET Nodes /\ Nodes \ Chapters \in SUBSET Nodes
  BY NodesAssumption
<1>2. x \in Nat /\ y \in Nat /\ v \in Nat /\ w \in Nat
  BY <1>1, SettledCounts
<1>3. a \in Nat /\ b \in Nat
  BY <1>1, CountsAreNat DEF AtLeastOne
<1>4. SettledProgress = 60 * x * a + 40 * y * b
  BY DEF SettledProgress
<1>5. SettledProgress' = 60 * v * a + 40 * w * b
  BY DEF SettledProgress
<1>6. /\ DoneForGood(Chapters) \subseteq DoneForGood(Chapters)' => x <= v
      /\ DoneForGood(Nodes \ Chapters) \subseteq DoneForGood(Nodes \ Chapters)' => y <= w
  BY <1>1, SettledCounts
<1> HIDE DEF x, y, v, w, a, b
<1>7. /\ 60 * x * a \in Nat /\ 40 * y * b \in Nat
      /\ 60 * v * a \in Nat /\ 40 * w * b \in Nat
  BY <1>2, <1>3
<1>8. x <= v => 60 * x * a <= 60 * v * a
  BY <1>2, <1>3, WeighingGrows
<1>9. y <= w => 40 * y * b <= 40 * w * b
  BY <1>2, <1>3, WeighingGrows
<1> DEFINE xa == 60 * x * a  yb == 40 * y * b  va == 60 * v * a  wb == 40 * w * b
<1>10. /\ xa \in Nat /\ yb \in Nat /\ va \in Nat /\ wb \in Nat
       /\ x <= v => xa <= va
       /\ y <= w => yb <= wb
       /\ SettledProgress = xa + yb /\ SettledProgress' = va + wb
  BY <1>4, <1>5, <1>7, <1>8, <1>9
<1> HIDE DEF xa, yb, va, wb
<1> QED BY <1>6, <1>10

\* Outside a call, all that is completed is settled.
LEMMA ShownWhenIdle ==
  ASSUME TaskInv, driver = "idle"
  PROVE  Progress = SettledProgress
<1>1. \A n \in Nodes : thread[n] = "off"
  BY DEF TaskInv, IInv, CallsOwnThreads
<1>2. /\ DoneForGood(Chapters) = {n \in Chapters : status[n] = "completed"}
      /\ DoneForGood(Nodes \ Chapters) = {n \in Nodes \ Chapters : status[n] = "completed"}
  BY <1>1, NodesAssumption DEF DoneForGood
<1> QED BY <1>2 DEF Progress, SettledProgress

\* Only Plan takes settled nodes back.
LEMMA SettledStays ==
  ASSUME TaskInv, [TaskNext]_vars, ~Plan, NEW S \in SUBSET Nodes
  PROVE  DoneForGood(S) \subseteq DoneForGood(S)'
<1>1. CASE UNCHANGED <<status, thread>>
  BY <1>1 DEF DoneForGood
<1>2. CASE WorkerBegins
  <2>1. PICK n \in Nodes : BeginSerial(n) BY <1>2 DEF WorkerBegins
  <2>2. /\ status[n] = "pending"
        /\ \A m \in Nodes \ {n} : status'[m] = status[m] /\ thread'[m] = thread[m]
    BY <2>1 DEF BeginSerial, Begin, TaskInv, IInv, TypeOK, PickedArePending
  <2> QED BY <2>2 DEF DoneForGood
<1>3. CASE WorkerStep
  <2>0. CASE TakeBatch(1, FALSE) BY <1>1, <2>0 DEF TakeBatch
  <2>1. CASE SubmitPool BY <1>1, <2>1 DEF SubmitPool
  <2>2. ASSUME NEW n \in Nodes, ThreadStep(n)
        PROVE  DoneForGood(S) \subseteq DoneForGood(S)'
    <3>1. /\ thread[n] # "off"
          /\ \A m \in Nodes \ {n} : status'[m] = status[m] /\ thread'[m] = thread[m]
      BY <2>2
         DEF TaskInv, IInv, TypeOK, ThreadStep, PreparationFails, CallAgent,
             AgentSucceeds, AgentRetries, AgentFails, ReturnResult, ResultHandlerFails
    <3> QED BY <3>1 DEF DoneForGood
  <2> QED BY <1>3, <2>0, <2>1, <2>2 DEF WorkerStep
<1>4. CASE CallCoordinator
  BY <1>1, <1>4, CallCoordinatorKeeps
<1>5. CASE UNCHANGED dagVars
  BY <1>1, <1>5 DEF dagVars
<1>6. CASE \/ Start \/ LeaveLoop \/ WaitWhilePaused \/ PassCheck \/ SaveProgress
           \/ WorkerReturns \/ TimeOut \/ RecordResult \/ FinalRead \/ Complete
           \/ Raise \/ MarkFailed \/ Vanish
  BY <1>5, <1>6, ExecutorKeeps
<1>7. ASSUME NEW request \in Requests,
             Ask(request) \/ Write(request) \/ WriteFails(request)
      PROVE  DoneForGood(S) \subseteq DoneForGood(S)'
  BY <1>5, <1>7, RequestKeeps
<1>8. CASE UNCHANGED vars
  BY <1>5, <1>8 DEF vars
<1> QED BY <1>2, <1>3, <1>4, <1>6, <1>7, <1>8, TaskSteps

\* Every step shows settled nodes only, and never less than before.
LEMMA ShownStep ==
  ASSUME TaskInv, ShownIsSettled, [TaskNext]_vars
  PROVE  ShownIsSettled' /\ progress' >= progress
<1>0. progress \in Nat /\ SettledProgress \in Nat /\ SettledProgress' \in Nat
  BY SettledGrows DEF TaskInv, TaskTypeOK
<1>1. CASE Plan
  BY <1>0, <1>1 DEF Plan, ShownIsSettled
<1>2. CASE ~Plan
  <2>1. SettledProgress <= SettledProgress'
    BY <1>2, SettledStays, SettledGrows, NodesAssumption
  <2>2. CASE SaveProgress
    <3>1. progress' = SettledProgress
      BY <2>2, ShownWhenIdle DEF SaveProgress, TaskInv, WorkerWhileCalled
    <3>2. pc' \notin {"scheduled", "planning"}
      BY <2>2 DEF SaveProgress
    <3> QED BY <1>0, <2>1, <3>1, <3>2 DEF ShownIsSettled
  <2>3. CASE ~SaveProgress
    <3>1. /\ progress' = progress
          /\ pc' \in {"scheduled", "planning"} => pc \in {"scheduled", "planning"}
      BY <1>2, <2>3
         DEF TaskNext, ExecutorStep, Start, LeaveLoop, WaitWhilePaused, PassCheck,
             CallCoordinator, WorkerReturns, TimeOut, RecordResult, FinalRead,
             Complete, Raise, MarkFailed, Vanish, WorkerBegins, WorkerStep, Ask, Write,
             WriteFails, Goto, vars, taskVars
    <3> QED BY <1>0, <2>1, <3>1 DEF ShownIsSettled
  <2> QED BY <2>2, <2>3
<1> QED BY <1>1, <1>2

\* The progress shown to the user never goes back, although a node that was
\* completed may still turn into a failed one.
THEOREM ProgressGrowsHolds == TaskSpec => ProgressGrows
<1>1. TaskInit => ShownIsSettled
  BY SettledGrows DEF TaskInit, ShownIsSettled
<1>2. TaskInv /\ ShownIsSettled /\ [TaskNext]_vars => ShownIsSettled'
  BY ShownStep
<1>3. TaskInv /\ ShownIsSettled /\ [TaskNext]_vars => [progress' >= progress]_vars
  BY ShownStep
<1> QED BY <1>1, <1>2, <1>3, TaskInvariant, PTL DEF TaskSpec, ProgressGrows
=============================================================================
