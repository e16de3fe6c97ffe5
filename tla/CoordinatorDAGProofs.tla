------------------------ MODULE CoordinatorDAGProofs ------------------------
(* The safety properties of CoordinatorDAG, for every graph, every number of *)
(* retries and workers and every batch size. They rest on one inductive      *)
(* invariant, IInv, that adds to the properties how the driver thread, the   *)
(* node threads and the node statuses hang together.                         *)
EXTENDS CoordinatorDAG, TLAPS

\* A thread that prepares a node or calls its agent finds it executing, one
\* that handles the result finds it completed.
ThreadsOnTheirNodes ==
  \A n \in Nodes :
    /\ thread[n] \in {"starting", "calling"} => status[n] = "executing"
    /\ thread[n] = "post" => status[n] = "completed"

\* Nothing runs and nothing is picked outside a call.
CallsOwnThreads ==
  driver \in {"idle", "planning", "checked", "closing"} =>
    \A n \in Nodes : thread[n] = "off" /\ n \notin serial /\ n \notin pool

\* What a call has picked has not been started, and is picked once.
PickedArePending ==
  /\ \A n \in serial \cup pool : status[n] = "pending"
  /\ serial \cap pool = {}

\* The serial part of a call runs one node at a time and ends before the pool.
SerialOneByOne ==
  /\ driver = "pool" => serial = {}
  /\ driver = "batch" =>
       \A m, n \in Nodes : thread[m] # "off" /\ thread[n] # "off" => m = n

\* A verdict on the workflow is given between calls, about a graph that is
\* there, and one is being prepared only when nothing is ready.
VerdictsBetweenCalls ==
  /\ driver \in {"checked", "closing", "batch", "pool"} => hasDag
  /\ driver = "closing" => ReadyNodes = {}
  /\ wf \in {"completed", "failed"} => driver = "idle"

IInv ==
  /\ TypeOK
  /\ ThreadsOnTheirNodes
  /\ CallsOwnThreads
  /\ PickedArePending
  /\ SerialOneByOne
  /\ VerdictsBetweenCalls
  /\ DependenciesSettled
  /\ CompletedMeansAll
  /\ FailedMeansExhausted
-----------------------------------------------------------------------------
(* Type correctness.                                                         *)

\* FirstOf picks among the nodes it is given.
LEMMA FirstOfSubset ==
  ASSUME NEW k, NEW S
  PROVE  FirstOf(k, S) \subseteq S
BY DEF FirstOf

LEMMA TypeInit == Init => TypeOK
<1> SUFFICES ASSUME Init PROVE TypeOK
  OBVIOUS
<1> USE DEF Init, WorkflowStates, NodeStates, ThreadStates, DriverStates
<1>1. status \in [Nodes -> NodeStates] /\ thread \in [Nodes -> ThreadStates]
  BY DEF AllPending
<1>2. attempt \in [Nodes -> 0 .. RetryTimes] /\ rounds \in 0 .. MaxRounds
  BY NumbersAssumption
<1>3. serial \in SUBSET Nodes /\ pool \in SUBSET Nodes
      /\ results \in SUBSET (Nodes \X Outcomes)
  OBVIOUS
<1> QED BY <1>1, <1>2, <1>3 DEF TypeOK

LEMMA TypeStep == TypeOK /\ [Next]_dagVars => TypeOK'
<1> SUFFICES ASSUME TypeOK, [Next]_dagVars PROVE TypeOK'
  OBVIOUS
<1> USE NumbersAssumption
    DEF TypeOK, WorkflowStates, NodeStates, ThreadStates, DriverStates, Outcomes
<1>1. CASE StartPlanning BY <1>1 DEF StartPlanning
<1>2. CASE FinishPlanning BY <1>2 DEF FinishPlanning, AllPending
<1>3. CASE Stop BY <1>3 DEF Stop
<1>4. CASE Resume BY <1>4 DEF Resume
<1>5. CASE Reset BY <1>5 DEF Reset, AllPending
<1>6. ASSUME NEW k \in BatchSizes, NEW parallel \in BOOLEAN,
             TakeBatch(k, parallel)
      PROVE  TypeOK'
  <2>1. FirstOf(k, ReadyNodes) \subseteq Nodes
    BY FirstOfSubset DEF ReadyNodes
  <2>2. serial' \subseteq Nodes /\ pool' \subseteq Nodes
    BY <1>6, <2>1 DEF TakeBatch
  <2> QED BY <1>6, <2>2 DEF TakeBatch
<1>7. CASE FindNothingReady BY <1>7 DEF FindNothingReady
<1>8. CASE CloseRun BY <1>8 DEF CloseRun
<1>9. CASE SubmitPool BY <1>9 DEF SubmitPool
<1>10. CASE LeavePool BY <1>10 DEF LeavePool
<1>11. ASSUME NEW n \in Nodes, BeginSerial(n) PROVE TypeOK'
  BY <1>11 DEF BeginSerial, Begin
<1>12. ASSUME NEW n \in Nodes, BeginPooled(n) PROVE TypeOK'
  BY <1>12 DEF BeginPooled, Begin
<1>13. ASSUME NEW n \in Nodes, PreparationFails(n) PROVE TypeOK'
  BY <1>13 DEF PreparationFails
<1>14. ASSUME NEW n \in Nodes, CallAgent(n) PROVE TypeOK'
  BY <1>14 DEF CallAgent
<1>15. ASSUME NEW n \in Nodes, AgentSucceeds(n) PROVE TypeOK'
  BY <1>15 DEF AgentSucceeds
<1>16. ASSUME NEW n \in Nodes, AgentRetries(n) PROVE TypeOK'
  BY <1>16 DEF AgentRetries
<1>17. ASSUME NEW n \in Nodes, AgentFails(n) PROVE TypeOK'
  BY <1>17 DEF AgentFails
<1>18. ASSUME NEW n \in Nodes, ReturnResult(n) PROVE TypeOK'
  BY <1>18 DEF ReturnResult
<1>19. ASSUME NEW n \in Nodes, ResultHandlerFails(n) PROVE TypeOK'
  BY <1>19 DEF ResultHandlerFails
<1>20. CASE UNCHANGED dagVars BY <1>20 DEF dagVars
<1>21. CASE EnterCall BY <1>21 DEF EnterCall
<1> QED
  BY <1>1, <1>2, <1>3, <1>4, <1>5, <1>6, <1>7, <1>8, <1>9, <1>10, <1>11, <1>12,
     <1>13, <1>14, <1>15, <1>16, <1>17, <1>18, <1>19, <1>20, <1>21
     DEF Next, CallStep, ThreadStep

\* Every variable stays within its type, for every graph and every bound.
THEOREM TypeCorrect == Spec => []TypeOK
BY TypeInit, TypeStep, PTL DEF Spec

-----------------------------------------------------------------------------
(* The inductive invariant.                                                  *)

\* The part of IInv that TypeStep leaves to be shown.
Rest ==
  /\ ThreadsOnTheirNodes
  /\ CallsOwnThreads
  /\ PickedArePending
  /\ SerialOneByOne
  /\ VerdictsBetweenCalls
  /\ DependenciesSettled
  /\ CompletedMeansAll
  /\ FailedMeansExhausted

LEMMA InvInit == Init => IInv
<1> SUFFICES ASSUME Init PROVE IInv
  OBVIOUS
<1>1. TypeOK BY TypeInit
<1>2. Rest
  BY DEF Init, AllPending, Rest, ThreadsOnTheirNodes, CallsOwnThreads,
         PickedArePending, SerialOneByOne, VerdictsBetweenCalls,
         DependenciesSettled, Started, CompletedMeansAll, FailedMeansExhausted
<1> QED BY <1>1, <1>2 DEF IInv, Rest

\* Requests and the bookkeeping of a call: no node changes hands.
LEMMA RequestStep ==
  ASSUME IInv,
         StartPlanning \/ FinishPlanning \/ Stop \/ Resume \/ Reset
  PROVE  Rest'
<1> USE DEF IInv, Rest, TypeOK, ThreadsOnTheirNodes, CallsOwnThreads,
            PickedArePending, SerialOneByOne, VerdictsBetweenCalls,
            DependenciesSettled, Started, CompletedMeansAll,
            FailedMeansExhausted, AllCompleted, HasFailed, ReadyNodes, Ready,
            Active, AllPending
<1>1. CASE StartPlanning BY <1>1 DEF StartPlanning
<1>2. CASE FinishPlanning BY <1>2 DEF FinishPlanning
<1>3. CASE Stop BY <1>3 DEF Stop
<1>4. CASE Resume BY <1>4 DEF Resume
<1>5. CASE Reset BY <1>5 DEF Reset
<1> QED BY <1>1, <1>2, <1>3, <1>4, <1>5

\* A snapshot holds ready nodes only, and none of them twice.
LEMMA SnapshotStep ==
  ASSUME IInv, NEW k, NEW parallel, TakeBatch(k, parallel)
  PROVE  Rest'
<1>1. FirstOf(k, ReadyNodes) \subseteq ReadyNodes
  BY FirstOfSubset
<1>2. /\ serial' \cup pool' \subseteq ReadyNodes
      /\ serial' \cap pool' = {}
  BY <1>1 DEF TakeBatch
<1>3. /\ driver = "checked" /\ hasDag /\ wf \notin {"completed", "failed"}
      /\ driver' = "batch"
      /\ UNCHANGED <<wf, hasDag, status, thread>>
  BY DEF TakeBatch, IInv, VerdictsBetweenCalls
<1>4. \A n \in Nodes : thread[n] = "off"
  BY <1>3 DEF IInv, CallsOwnThreads
<1>5. ThreadsOnTheirNodes' /\ CallsOwnThreads' /\ SerialOneByOne'
  BY <1>3, <1>4 DEF ThreadsOnTheirNodes, CallsOwnThreads, SerialOneByOne
<1>6. PickedArePending'
  BY <1>2, <1>3 DEF PickedArePending, ReadyNodes, Ready
<1>7. DependenciesSettled'
  <2> SUFFICES ASSUME NEW n \in Nodes, Started(n)', NEW d \in Deps[n]
               PROVE  status'[d] = "completed" /\ thread'[d] = "off"
    BY DEF DependenciesSettled
  <2>1. d \in Nodes
    BY DepsAssumption
  <2>2. CASE n \in serial' \cup pool'
    BY <1>2, <1>3, <1>4, <2>1, <2>2 DEF ReadyNodes, Ready
  <2>3. CASE status'[n] # "pending"
    BY <1>3, <2>3 DEF IInv, DependenciesSettled, Started
  <2> QED BY <2>2, <2>3 DEF Started
<1>8. VerdictsBetweenCalls' /\ CompletedMeansAll' /\ FailedMeansExhausted'
  BY <1>3 DEF VerdictsBetweenCalls, CompletedMeansAll, FailedMeansExhausted
<1> QED BY <1>5, <1>6, <1>7, <1>8 DEF Rest

\* The other steps of a call: the verdict is the one the graph calls for.
LEMMA CallStepKeeps ==
  ASSUME IInv,
         EnterCall \/ FindNothingReady \/ CloseRun \/ SubmitPool \/ LeavePool
  PROVE  Rest'
<1> USE DEF IInv, Rest, TypeOK, ThreadsOnTheirNodes, CallsOwnThreads,
            PickedArePending, SerialOneByOne, VerdictsBetweenCalls,
            DependenciesSettled, Started, CompletedMeansAll,
            FailedMeansExhausted, AllCompleted, HasFailed, ReadyNodes, Ready,
            Active
<1>5. CASE EnterCall BY <1>5 DEF EnterCall, MayExecute
<1>1. CASE FindNothingReady BY <1>1 DEF FindNothingReady
<1>2. CASE CloseRun BY <1>2 DEF CloseRun
<1>3. CASE SubmitPool BY <1>3 DEF SubmitPool
<1>4. CASE LeavePool BY <1>4 DEF LeavePool
<1> QED BY <1>1, <1>2, <1>3, <1>4, <1>5

\* A node begins: it was pending and picked once, so nothing waits on it yet.
LEMMA BeginStep ==
  ASSUME IInv, NEW n \in Nodes, BeginSerial(n) \/ BeginPooled(n)
  PROVE  Rest'
<1>1. /\ n \in serial \cup pool
      /\ serial' \cup pool' = (serial \cup pool) \ {n}
      /\ serial' \cap pool' = {}
  BY DEF IInv, PickedArePending, BeginSerial, BeginPooled
<1>2. /\ status' = [status EXCEPT ![n] = "executing"]
      /\ thread' = [thread EXCEPT ![n] = "starting"]
      /\ UNCHANGED <<wf, hasDag, driver>>
      /\ driver \in {"batch", "pool"}
  BY DEF BeginSerial, BeginPooled, Begin
<1>3. status[n] = "pending"
  BY <1>1 DEF IInv, PickedArePending
<1>4. status \in [Nodes -> NodeStates] /\ thread \in [Nodes -> ThreadStates]
  BY DEF IInv, TypeOK
<1>5. ThreadsOnTheirNodes' /\ CallsOwnThreads'
  BY <1>2, <1>4 DEF IInv, ThreadsOnTheirNodes, CallsOwnThreads
<1>6. PickedArePending'
  BY <1>1, <1>2, <1>4 DEF IInv, TypeOK, PickedArePending
<1>7. SerialOneByOne'
  BY <1>2, <1>4 DEF IInv, SerialOneByOne, BeginSerial, BeginPooled, Active
<1>8. DependenciesSettled'
  <2> SUFFICES ASSUME NEW m \in Nodes, Started(m)', NEW d \in Deps[m]
               PROVE  status'[d] = "completed" /\ thread'[d] = "off"
    BY DEF DependenciesSettled
  <2>1. d \in Nodes
    BY DepsAssumption
  <2>2. Started(m)
    BY <1>1, <1>2, <1>4 DEF Started
  <2>3. status[d] = "completed" /\ thread[d] = "off"
    BY <2>2 DEF IInv, DependenciesSettled
  <2>4. d # n
    BY <1>3, <2>3
  <2> QED BY <1>2, <1>4, <2>1, <2>3, <2>4
<1>9. VerdictsBetweenCalls' /\ CompletedMeansAll' /\ FailedMeansExhausted'
  BY <1>2 DEF IInv, VerdictsBetweenCalls, CompletedMeansAll,
              FailedMeansExhausted
<1> QED BY <1>5, <1>6, <1>7, <1>8, <1>9 DEF Rest

\* A thread goes on with its node: only a running node changes its status, so
\* no picked node and no settled dependency is touched.
LEMMA ThreadStepKeeps ==
  ASSUME IInv, NEW n \in Nodes, ThreadStep(n)
  PROVE  Rest'
<1>1. /\ \A m \in Nodes \ {n} : status'[m] = status[m] /\ thread'[m] = thread[m]
      /\ thread[n] # "off"
      /\ UNCHANGED <<wf, hasDag>>
  BY DEF IInv, TypeOK, ThreadStep, PreparationFails, CallAgent, AgentSucceeds,
         AgentRetries, AgentFails, ReturnResult, ResultHandlerFails
<1>2. /\ thread'[n] \in {"starting", "calling"} => status'[n] = "executing"
      /\ thread'[n] = "post" => status'[n] = "completed"
      /\ status'[n] # "pending"
  BY DEF IInv, TypeOK, ThreadStates, ThreadsOnTheirNodes, ThreadStep,
         PreparationFails, CallAgent, AgentSucceeds, AgentRetries, AgentFails,
         ReturnResult, ResultHandlerFails
<1>3. driver \in {"batch", "pool"} /\ status[n] # "pending"
  BY <1>1 DEF IInv, TypeOK, DriverStates, ThreadStates, CallsOwnThreads,
              ThreadsOnTheirNodes
<1>4. \/ /\ driver = "batch" /\ driver' = "idle"
         /\ serial' = {} /\ pool' = {} /\ thread'[n] = "off"
      \/ UNCHANGED <<driver, serial, pool>>
  BY DEF IInv, TypeOK, ThreadStep, PreparationFails, CallAgent, AgentSucceeds,
         AgentRetries, AgentFails, ReturnResult, ResultHandlerFails
<1>5. ThreadsOnTheirNodes'
  BY <1>1, <1>2 DEF IInv, ThreadsOnTheirNodes
<1>6. CallsOwnThreads'
  <2>1. CASE driver' = "idle"
    BY <1>1, <1>3, <1>4, <2>1 DEF IInv, SerialOneByOne, CallsOwnThreads
  <2>2. CASE driver' # "idle"
    BY <1>3, <1>4, <2>2 DEF CallsOwnThreads
  <2> QED BY <2>1, <2>2
<1>7. PickedArePending'
  BY <1>1, <1>3, <1>4 DEF IInv, TypeOK, PickedArePending
<1>8. SerialOneByOne'
  BY <1>1, <1>3, <1>4 DEF IInv, SerialOneByOne
<1>9. DependenciesSettled'
  <2> SUFFICES ASSUME NEW m \in Nodes, Started(m)', NEW d \in Deps[m]
               PROVE  status'[d] = "completed" /\ thread'[d] = "off"
    BY DEF DependenciesSettled
  <2>1. d \in Nodes
    BY DepsAssumption
  <2>2. Started(m)
    BY <1>1, <1>3, <1>4 DEF Started
  <2>3. status[d] = "completed" /\ thread[d] = "off"
    BY <2>2 DEF IInv, DependenciesSettled
  <2> QED BY <1>1, <2>1, <2>3
<1>10. VerdictsBetweenCalls' /\ CompletedMeansAll' /\ FailedMeansExhausted'
  BY <1>1, <1>3, <1>4 DEF IInv, VerdictsBetweenCalls, CompletedMeansAll,
                          FailedMeansExhausted
<1> QED BY <1>5, <1>6, <1>7, <1>8, <1>9, <1>10 DEF Rest

LEMMA InvStep == IInv /\ [Next]_dagVars => IInv'
<1> SUFFICES ASSUME IInv, [Next]_dagVars PROVE IInv'
  OBVIOUS
<1>1. TypeOK' BY TypeStep DEF IInv
<1>2. Rest'
  <2>1. CASE StartPlanning \/ FinishPlanning \/ Stop \/ Resume \/ Reset
    BY <2>1, RequestStep
  <2>2. CASE EnterCall \/ FindNothingReady \/ CloseRun \/ SubmitPool \/ LeavePool
    BY <2>2, CallStepKeeps
  <2>3. ASSUME NEW k \in BatchSizes, NEW parallel \in BOOLEAN,
               TakeBatch(k, parallel)
        PROVE  Rest'
    BY <2>3, SnapshotStep
  <2>4. ASSUME NEW n \in Nodes, BeginSerial(n) \/ BeginPooled(n)
        PROVE  Rest'
    BY <2>4, BeginStep
  <2>5. ASSUME NEW n \in Nodes, ThreadStep(n) PROVE Rest'
    BY <2>5, ThreadStepKeeps
  <2>6. CASE UNCHANGED dagVars
    BY <2>6 DEF dagVars, IInv, Rest, ThreadsOnTheirNodes, CallsOwnThreads,
                PickedArePending, SerialOneByOne, VerdictsBetweenCalls,
                DependenciesSettled, Started, CompletedMeansAll,
                FailedMeansExhausted, AllCompleted, HasFailed, ReadyNodes,
                Ready, Active
  <2> QED BY <2>1, <2>2, <2>3, <2>4, <2>5, <2>6 DEF Next, CallStep
<1> QED BY <1>1, <1>2 DEF IInv, Rest

THEOREM Invariant == Spec => []IInv
BY InvInit, InvStep, PTL DEF Spec

-----------------------------------------------------------------------------
(* The properties.                                                           *)

\* A node starts only when its dependencies are done for good, whatever graph,
\* batch sizes, pool and retries.
THEOREM DependenciesSettledHolds == Spec => []DependenciesSettled
<1>1. IInv => DependenciesSettled BY DEF IInv
<1> QED BY <1>1, Invariant, PTL

\* The verdict "completed" is given to completed graphs only.
THEOREM CompletedMeansAllHolds == Spec => []CompletedMeansAll
<1>1. IInv => CompletedMeansAll BY DEF IInv
<1> QED BY <1>1, Invariant, PTL

\* The verdict "failed" is given only when nothing is left that could run.
THEOREM FailedMeansExhaustedHolds == Spec => []FailedMeansExhausted
<1>1. IInv => FailedMeansExhausted BY DEF IInv
<1> QED BY <1>1, Invariant, PTL

-----------------------------------------------------------------------------
(* The coordinator implements DagSchedule.                                   *)

\* Phase is decided by the status and the thread of each node alone.
LEMMA PhaseUnchanged ==
  ASSUME UNCHANGED <<status, thread>>
  PROVE  Phase' = Phase
BY DEF Phase

\* Between calls no node is in phase "running".
LEMMA NothingRunsBetweenCalls ==
  ASSUME IInv, driver \in {"idle", "planning", "checked", "closing"}, NEW n \in Nodes
  PROVE  thread[n] = "off" /\ Phase[n] # "running"
BY DEF IInv, CallsOwnThreads, TypeOK, NodeStates, Phase

\* A new plan and a reset send every node back to the start.
LEMMA RestartStep ==
  ASSUME IInv, FinishPlanning \/ Reset
  PROVE  Schedule!Restart
<1>1. status' = AllPending /\ thread' = thread
      /\ driver \in {"idle", "planning", "checked", "closing"}
  BY DEF FinishPlanning, Reset
<1>2. \A n \in Nodes : thread[n] = "off" /\ Phase[n] # "running"
  BY <1>1, NothingRunsBetweenCalls
<1>3. Phase' = Schedule!AllWaiting
  BY <1>1, <1>2 DEF Phase, AllPending, Schedule!AllWaiting
<1> QED BY <1>2, <1>3 DEF Schedule!Restart

\* The driver or a pool thread begins a node: an abstract Start.
LEMMA BeginIsStart ==
  ASSUME IInv, NEW n \in Nodes, BeginSerial(n) \/ BeginPooled(n)
  PROVE  Schedule!Start(n)
<1>1. /\ n \in serial \cup pool
      /\ status' = [status EXCEPT ![n] = "executing"]
      /\ thread' = [thread EXCEPT ![n] = "starting"]
  BY DEF BeginSerial, BeginPooled, Begin
<1>2. status[n] = "pending" /\ thread[n] = "off"
  BY <1>1 DEF IInv, TypeOK, ThreadStates, PickedArePending, ThreadsOnTheirNodes
<1>3. Phase[n] = "waiting"
  BY <1>2 DEF Phase
<1>4. \A d \in Deps[n] : Phase[d] = "done"
  BY <1>1, DepsAssumption DEF IInv, DependenciesSettled, Started, Phase
<1>5. Phase' = [Phase EXCEPT ![n] = "running"]
  BY <1>1 DEF IInv, TypeOK, Phase
<1> QED BY <1>3, <1>4, <1>5 DEF Schedule!Start

\* A thread leaves its node with a verdict or goes on: an abstract End or a
\* stuttering step.
LEMMA ThreadStepIsEnd ==
  ASSUME IInv, NEW n \in Nodes, ThreadStep(n)
  PROVE  Schedule!End(n) \/ Phase' = Phase
<1> USE DEF IInv, TypeOK, ThreadsOnTheirNodes
<1>1. thread[n] # "off" /\ Phase[n] = "running"
  BY DEF ThreadStep, PreparationFails, CallAgent, AgentSucceeds, AgentRetries,
         AgentFails, ReturnResult, ResultHandlerFails, Phase
<1>2. CASE CallAgent(n) \/ AgentSucceeds(n) \/ AgentRetries(n)
  BY <1>2 DEF CallAgent, AgentSucceeds, AgentRetries, Phase
<1>3. CASE PreparationFails(n)
  <2>1. Phase' = [Phase EXCEPT ![n] = "abandoned"]
    BY <1>3 DEF PreparationFails, Phase
  <2> QED BY <1>1, <2>1 DEF Schedule!End
<1>4. CASE AgentFails(n) \/ ResultHandlerFails(n)
  <2>1. Phase' = [Phase EXCEPT ![n] = "failed"]
    BY <1>4 DEF AgentFails, ResultHandlerFails, Phase
  <2> QED BY <1>1, <2>1 DEF Schedule!End
<1>5. CASE ReturnResult(n)
  <2>1. Phase' = [Phase EXCEPT ![n] = "done"]
    BY <1>5 DEF ReturnResult, Phase
  <2> QED BY <1>1, <2>1 DEF Schedule!End
<1> QED BY <1>2, <1>3, <1>4, <1>5 DEF ThreadStep

\* Every behaviour of the coordinator is one of the abstract schedule: a node
\* starts once a round, after its dependencies, and its verdict is final.
THEOREM Refinement == Spec => ScheduleSpec
<1>1. Init => Schedule!Init
  BY DEF Init, AllPending, Phase, Schedule!Init, Schedule!AllWaiting
<1>2. IInv /\ [Next]_dagVars => [Schedule!Next]_Phase
  <2> SUFFICES ASSUME IInv, [Next]_dagVars PROVE [Schedule!Next]_Phase
    OBVIOUS
  <2>1. CASE FinishPlanning \/ Reset
    BY <2>1, RestartStep DEF Schedule!Next
  <2>2. ASSUME NEW n \in Nodes, BeginSerial(n) \/ BeginPooled(n)
        PROVE  Schedule!Next
    BY <2>2, BeginIsStart DEF Schedule!Next
  <2>3. ASSUME NEW n \in Nodes, ThreadStep(n)
        PROVE  Schedule!Next \/ Phase' = Phase
    BY <2>3, ThreadStepIsEnd DEF Schedule!Next
  <2>4. ASSUME NEW k \in BatchSizes, NEW parallel \in BOOLEAN,
               TakeBatch(k, parallel)
        PROVE  Phase' = Phase
    BY <2>4, PhaseUnchanged DEF TakeBatch
  <2>5. CASE \/ StartPlanning \/ Stop \/ Resume \/ EnterCall \/ FindNothingReady \/ CloseRun
             \/ SubmitPool \/ LeavePool \/ UNCHANGED dagVars
    BY <2>5, PhaseUnchanged
       DEF StartPlanning, Stop, Resume, EnterCall, FindNothingReady, CloseRun, SubmitPool,
           LeavePool, dagVars
  <2> QED BY <2>1, <2>2, <2>3, <2>4, <2>5 DEF Next, CallStep
<1> QED
  BY <1>1, <1>2, Invariant, PTL DEF Spec, ScheduleSpec, Schedule!Spec
=============================================================================
