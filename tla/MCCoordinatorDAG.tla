-------------------------- MODULE MCCoordinatorDAG --------------------------
(* The two programs that take a novel through its agents: the coordinator on *)
(* the graph the planner builds for ChapterCount chapters, and the workflow  *)
(* engine on the default workflow. One of them moves in a behaviour, so that *)
(* their states add up.                                                      *)
EXTENDS WorkflowPlan, CoordinatorDAG, WorkflowEngine, NovelWorkflow

VARIABLE part
mcVars == <<dagVars, engineVars, part>>

MCInit == Init /\ EngineInit /\ part \in {"coordinator", "engine"}

MCNext ==
  /\ UNCHANGED part
  /\ \/ part = "coordinator" /\ Next /\ UNCHANGED engineVars
     \/ part = "engine" /\ EngineNext /\ UNCHANGED dagVars

\* The part that stays in its first state owes nothing there.
MCSpec == MCInit /\ [][MCNext]_mcVars /\ Fairness /\ EngineFairness

WorkflowTypeOK == TypeOK /\ EngineTypeOK
=============================================================================
