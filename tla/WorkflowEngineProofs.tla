------------------------ MODULE WorkflowEngineProofs ------------------------
(* What the engine keeps to for every workflow, however many threads execute *)
(* it and whatever the retries.                                              *)
EXTENDS MCCoordinatorDAG, CoordinatorDAGProofs, FiniteSetTheorems

\* Threads that have looked at the retries and not counted theirs.
Retrying == {r \in Runners : runner[r].at = "retrying"}

\* Each of them still has a retry to count: the looks of several threads may
\* all come before the last count.
RetriesCounted ==
  tries \in Nat /\ tries + Cardinality(Retrying) <= StageRetries + Cardinality(Runners)

\* Where the task is to go on, and where a thread is in a stage, the stage is
\* on the route.
KeepsToRoute ==
  /\ nextStage \in OnRoute /\ asked \subseteq OnRoute
  /\ \A r \in Runners : runner[r].at \in {"asking", "passed"} =>
       runner[r].stage \in asked

\* A stage that passed has its outputs.
PassedHasOutputs ==
  \A r \in Runners : runner[r].at = "passed" => runner[r].stage \in succeeded

\* Until s has its outputs nobody has left a set that all routes leave by s.
BehindStages ==
  \A s \in OnRoute, S \in SUBSET StageNames :
    ClosedBut(s, S) /\ s \notin succeeded => {nextStage} \cup asked \subseteq S

EngineTypes ==
  /\ taskState \in {"inbox", "in_progress", "paused", "done", "failed", "cancelled"}
  /\ nextStage \in StageNames
  /\ runner \in [Runners -> [at : {"out", "called", "started", "asking", "passed",
                                  "refused", "retrying", "pausing",
                                  "resuming", "cancelling"},
                             stage : StageNames \cup {NoStage}]]
  /\ asked \subseteq StageNames
  /\ succeeded \subseteq asked

EngineInv ==
  EngineTypes /\ RetriesCounted /\ KeepsToRoute /\ PassedHasOutputs /\ BehindStages

-----------------------------------------------------------------------------
(* The workflow.                                                             *)

\* The first stage is a stage, and so is what comes after one, if anything.
LEMMA FollowersAreStages ==
  /\ FirstStage \in StageNames
  /\ \A s \in StageNames : NextStages(s) \subseteq StageNames \cup {NoStage}
<1>1. FirstStage \in StageNames
  BY StagesAssumption DEF FirstStage, StageNames
<1>2. ASSUME NEW s \in StageNames
      PROVE  NextStages(s) \subseteq StageNames \cup {NoStage}
  <2>1. Followers[s] \in Seq(StageNames)
    BY StagesAssumption
  <2>2. Followers[s] # <<>> => Followers[s][1] \in StageNames
    BY <2>1
  <2>3. Len(Followers[s]) > 1 => Followers[s][2] \in StageNames
    BY <2>1
  <2> QED BY <2>2, <2>3 DEF NextStages, SecondFollower
<1> QED BY <1>1, <1>2

\* The first stage is on the route, and so is what comes after a stage.
LEMMA RouteGoesOn ==
  /\ FirstStage \in OnRoute
  /\ \A s \in StageNames : NextStages(s) \subseteq OnRoute
BY DEF OnRoute

-----------------------------------------------------------------------------
(* The steps.                                                                *)

\* Types.
LEMMA TypesKept ==
  ASSUME EngineTypes, PassedHasOutputs, KeepsToRoute, [EngineNext]_engineVars
  PROVE  EngineTypes'
<1> USE DEF EngineTypes
<1>1. ASSUME NEW r \in Runners, Request(r) PROVE EngineTypes'
  BY <1>1 DEF Request, CallExecute, WantPause, WantResume, WantCancel, MoveTo
<1>2. ASSUME NEW r \in Runners, RunnerStep(r) PROVE EngineTypes'
  <2>1. CASE StartTask(r) \/ StageFails(r) \/ MayRetry(r) \/ RetryStage(r) \/ ResumeTask(r)
    BY <2>1 DEF StartTask, StageFails, MayRetry, RetryStage, ResumeTask, MoveTo
  <2>2. CASE AskAgent(r)
    BY <2>2 DEF AskAgent
  <2>3. CASE StagePasses(r)
    BY <2>3 DEF StagePasses, MoveTo, KeepsToRoute
  <2>4. CASE Advance(r)
    <3>1. runner[r].stage \in StageNames
      BY <2>4 DEF Advance, KeepsToRoute
    <3> QED BY <2>4, <3>1, FollowersAreStages DEF Advance, MoveTo
  <2>5. CASE CompleteTask(r) \/ GiveUp(r) \/ PauseTask(r) \/ CancelTask(r)
    BY <2>5 DEF CompleteTask, GiveUp, PauseTask, CancelTask, Leave
  <2> QED BY <1>2, <2>1, <2>2, <2>3, <2>4, <2>5 DEF RunnerStep
<1>3. CASE UNCHANGED engineVars
  BY <1>3 DEF engineVars
<1> QED BY <1>1, <1>2, <1>3 DEF EngineNext

\* The route.
LEMMA RouteKept ==
  ASSUME EngineTypes, KeepsToRoute, PassedHasOutputs, [EngineNext]_engineVars
  PROVE  KeepsToRoute' /\ PassedHasOutputs'
<1> USE DEF EngineTypes, KeepsToRoute, PassedHasOutputs
<1>1. ASSUME NEW r \in Runners, Request(r) PROVE KeepsToRoute' /\ PassedHasOutputs'
  BY <1>1 DEF Request, CallExecute, WantPause, WantResume, WantCancel, MoveTo
<1>2. ASSUME NEW r \in Runners, RunnerStep(r) PROVE KeepsToRoute' /\ PassedHasOutputs'
  <2>1. CASE StartTask(r) \/ StageFails(r) \/ MayRetry(r) \/ RetryStage(r) \/ ResumeTask(r)
    BY <2>1 DEF StartTask, StageFails, MayRetry, RetryStage, ResumeTask, MoveTo
  <2>2. CASE AskAgent(r)
    BY <2>2 DEF AskAgent
  <2>3. CASE StagePasses(r)
    BY <2>3 DEF StagePasses, MoveTo
  <2>4. CASE Advance(r)
    <3>1. nextStage' \in OnRoute
      BY <2>4, RouteGoesOn DEF Advance
    <3> QED BY <2>4, <3>1 DEF Advance, MoveTo
  <2>5. CASE CompleteTask(r) \/ GiveUp(r) \/ PauseTask(r) \/ CancelTask(r)
    BY <2>5 DEF CompleteTask, GiveUp, PauseTask, CancelTask, Leave
  <2> QED BY <1>2, <2>1, <2>2, <2>3, <2>4, <2>5 DEF RunnerStep
<1>3. CASE UNCHANGED engineVars
  BY <1>3 DEF engineVars
<1> QED BY <1>1, <1>2, <1>3 DEF EngineNext

\* A thread that advances has passed its stage: either that is the stage the
\* set is left by, or its followers are in the set as well.
LEMMA BehindKept ==
  ASSUME EngineTypes, KeepsToRoute, PassedHasOutputs, BehindStages,
         [EngineNext]_engineVars
  PROVE  BehindStages'
<1> SUFFICES ASSUME NEW s \in OnRoute, NEW S \in SUBSET StageNames,
                    ClosedBut(s, S), s \notin succeeded'
             PROVE  {nextStage'} \cup asked' \subseteq S
  BY DEF BehindStages
<1>1. succeeded \subseteq succeeded'
  BY DEF EngineNext, Request, CallExecute, WantPause, WantResume, WantCancel,
         RunnerStep, StartTask, AskAgent, StagePasses, StageFails, Advance,
         CompleteTask, GiveUp, MayRetry, RetryStage, PauseTask, CancelTask,
         ResumeTask, Leave, engineVars
<1>2. {nextStage} \cup asked \subseteq S
  BY <1>1 DEF BehindStages
<1>3. ASSUME NEW r \in Runners, AskAgent(r) PROVE {nextStage'} \cup asked' \subseteq S
  BY <1>2, <1>3 DEF AskAgent
<1>4. ASSUME NEW r \in Runners, Advance(r) PROVE {nextStage'} \cup asked' \subseteq S
  <2> DEFINE q == runner[r].stage
  <2>1. q \in asked /\ q \in succeeded /\ succeeded' = succeeded
    BY <1>4 DEF Advance, KeepsToRoute, PassedHasOutputs
  <2>2. q \in S \ {s}
    BY <1>2, <2>1
  <2>3. NextStages(q) \subseteq S \cup {NoStage}
    BY <2>2 DEF ClosedBut
  <2>4. nextStage' \in NextStages(q) \ {NoStage} /\ asked' = asked
    BY <1>4 DEF Advance
  <2> QED BY <1>2, <2>3, <2>4
<1>5. ASSUME NEW r \in Runners, ~AskAgent(r), ~Advance(r), Request(r) \/ RunnerStep(r)
      PROVE  UNCHANGED <<nextStage, asked>>
  BY <1>5 DEF Request, CallExecute, WantPause, WantResume, WantCancel,
         RunnerStep, StartTask, StagePasses, StageFails,
         CompleteTask, GiveUp, MayRetry, RetryStage, PauseTask, CancelTask,
         ResumeTask, Leave
<1> QED BY <1>2, <1>3, <1>4, <1>5 DEF EngineNext, engineVars

\* The retries.
LEMMA RetriesKept ==
  ASSUME EngineTypes, RetriesCounted, [EngineNext]_engineVars
  PROVE  RetriesCounted'
<1> USE DEF EngineTypes
<1>1. IsFiniteSet(Retrying) /\ IsFiniteSet(Retrying')
      /\ Cardinality(Retrying) \in Nat /\ Cardinality(Retrying') \in Nat
      /\ Cardinality(Runners) \in Nat /\ Cardinality(Retrying') <= Cardinality(Runners)
  <2>1. Retrying \subseteq Runners /\ Retrying' \subseteq Runners
    BY DEF Retrying
  <2> QED BY <2>1, RunnersAssumption, FS_Subset, FS_CardinalityType
<1>2. ASSUME NEW r \in Runners, MayRetry(r) PROVE RetriesCounted'
  BY <1>1, <1>2, StageRetriesAssumption DEF MayRetry, RetriesCounted
<1>3. ASSUME NEW r \in Runners, RetryStage(r) PROVE RetriesCounted'
  <2>1. r \in Retrying /\ Retrying' = Retrying \ {r}
    BY <1>3 DEF RetryStage, MoveTo, Retrying
  <2>2. Cardinality(Retrying') = Cardinality(Retrying) - 1
    BY <1>1, <2>1, FS_RemoveElement
  <2> QED BY <1>1, <1>3, <2>2 DEF RetryStage, RetriesCounted
<1>4. ASSUME NEW r \in Runners, ~MayRetry(r), ~RetryStage(r), Request(r) \/ RunnerStep(r)
      PROVE  RetriesCounted'
  <2>1. Retrying' \subseteq Retrying
    BY <1>4 DEF Retrying, Request, CallExecute, WantPause, WantResume, WantCancel,
         RunnerStep, StartTask, AskAgent, StagePasses, StageFails, Advance,
         CompleteTask, GiveUp, PauseTask, CancelTask, ResumeTask, MoveTo, Leave
  <2>2. tries' = tries
    BY <1>4 DEF Request, CallExecute, WantPause, WantResume, WantCancel,
         RunnerStep, StartTask, AskAgent, StagePasses, StageFails, Advance,
         CompleteTask, GiveUp, PauseTask, CancelTask, ResumeTask, Leave
  <2>3. Cardinality(Retrying') <= Cardinality(Retrying)
    BY <1>1, <2>1, FS_Subset
  <2> QED BY <1>1, <2>2, <2>3, StageRetriesAssumption DEF RetriesCounted
<1>5. CASE UNCHANGED engineVars
  BY <1>5 DEF engineVars, RetriesCounted, Retrying
<1> QED BY <1>2, <1>3, <1>4, <1>5 DEF EngineNext

-----------------------------------------------------------------------------
(* The theorems.                                                             *)

\* The inductive invariant, for every workflow.
THEOREM EngineInvariant == EngineSpec => []EngineInv
<1>1. EngineInit => EngineInv
  <2> SUFFICES ASSUME EngineInit PROVE EngineInv
    OBVIOUS
  <2>1. EngineTypes /\ KeepsToRoute /\ PassedHasOutputs
    BY FollowersAreStages, RouteGoesOn
       DEF EngineInit, EngineTypes, KeepsToRoute, PassedHasOutputs
  <2>2. RetriesCounted
    <3>1. Retrying = {}
      BY DEF EngineInit, Retrying
    <3> QED BY <3>1, RunnersAssumption, StageRetriesAssumption, FS_EmptySet,
               FS_CardinalityType DEF EngineInit, RetriesCounted
  <2>3. BehindStages
    BY DEF EngineInit, BehindStages, ClosedBut
  <2> QED BY <2>1, <2>2, <2>3 DEF EngineInv
<1>2. EngineInv /\ [EngineNext]_engineVars => EngineInv'
  BY TypesKept, RouteKept, BehindKept, RetriesKept DEF EngineInv
<1> QED BY <1>1, <1>2, PTL DEF EngineSpec

\* Types; above all, the retries of all threads exceed their limit by no more
\* than the threads (MayRetry looks before RetryStage counts).
THEOREM EngineTypeCorrect == EngineSpec => []EngineTypeOK
<1>1. EngineInv => EngineTypeOK
  <2> SUFFICES ASSUME EngineInv PROVE EngineTypeOK
    OBVIOUS
  <2>1. tries \in 0 .. StageRetries + Cardinality(Runners)
    <3>1. Retrying \subseteq Runners
      BY DEF Retrying
    <3>2. Cardinality(Retrying) \in Nat /\ Cardinality(Runners) \in Nat
      BY <3>1, RunnersAssumption, FS_Subset, FS_CardinalityType
    <3> QED BY <3>2, StageRetriesAssumption DEF EngineInv, RetriesCounted
  <2> QED BY <2>1 DEF EngineInv, EngineTypes, EngineTypeOK
<1> QED BY <1>1, EngineInvariant, PTL

\* With FlowAssumption, an agent is asked only when its inputs are there,
\* however many threads execute the task while others pause, resume and cancel
\* it (execute_task, resume_task).
THEOREM InputsThereHolds == EngineSpec => []InputsThere
<1>1. EngineInv => InputsThere
  <2> SUFFICES ASSUME EngineInv, NEW f \in asked, NEW s \in Inputs(f)
               PROVE  s \in succeeded
    BY DEF InputsThere
  <2>1. f \in OnRoute \ {NoStage}
    BY StagesAssumption DEF EngineInv, EngineTypes, KeepsToRoute
  <2>2. PICK S \in SUBSET StageNames : ClosedBut(s, S) /\ f \notin S
    BY <2>1, FlowAssumption DEF Precedes
  <2>3. s \in OnRoute
    BY DEF Inputs
  <2> QED BY <2>2, <2>3 DEF EngineInv, BehindStages
<1> QED BY <1>1, EngineInvariant, PTL
-----------------------------------------------------------------------------
(* The model that is checked, where one of the programs moves.               *)

\* What MCCoordinatorDAG explores are behaviours of the coordinator and of the
\* engine, fairness included.
THEOREM WorkflowPartsKept == MCSpec => FairSpec /\ EngineSpec
<1>1. MCInit => Init /\ EngineInit
  BY DEF MCInit
<1>2. [MCNext]_mcVars => [Next]_dagVars /\ [EngineNext]_engineVars
  BY DEF MCNext, mcVars
<1> QED BY <1>1, <1>2, PTL DEF MCSpec, FairSpec, Spec, EngineSpec

\* Every variable of the model keeps its type.
THEOREM WorkflowTypes == MCSpec => []WorkflowTypeOK
BY WorkflowPartsKept, TypeCorrect, EngineTypeCorrect, PTL DEF FairSpec, WorkflowTypeOK
=============================================================================
