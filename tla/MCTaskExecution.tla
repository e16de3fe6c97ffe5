-------------------------- MODULE MCTaskExecution --------------------------
(* TaskExecution on the graph the planner builds for ChapterCount chapters.  *)
EXTENDS WorkflowPlan, TaskExecution
=============================================================================
