---------------------------- MODULE WorkflowPlan ----------------------------
(* The workflow graph CoordinatorAgent plans for a novel of ChapterCount     *)
(* chapters: _plan_workflow lays the agents out in stages, _build_dag turns  *)
(* the stages into nodes. A node is <<agent, i>>: i is the chapter of a      *)
(* content_generator_chapter_i node and 0 for every other agent.             *)
EXTENDS Integers, Sequences, FiniteSets, SequencesExt

CONSTANT ChapterCount     \* the "chapters" parameter of the request

ASSUME ChapterCountAssumption == ChapterCount \in Nat

Agent(name) == <<name, 0>>

ChapterNode(i) == <<"content_generator", i>>

GenerationAgents == [i \in 1 .. ChapterCount |-> ChapterNode(i)]

\* The agents of each stage, in the order the plan lists them.
Stages ==
  << << Agent("config_enhancer") >>,
     << Agent("outline_planner"), Agent("character_generator"),
        Agent("world_builder") >>,
     << Agent("chapter_summary"), Agent("hook_generator"),
        Agent("conflict_generator") >>,
     GenerationAgents,
     << Agent("quality_checker") >>,
     << Agent("humanizer") >> >>

\* The insertion order of DAG.nodes, the order get_ready_nodes scans.
BuildOrder == FlattenSeq(Stages)

PlanNodes == ToSet(BuildOrder)

PlanChapters == ToSet(GenerationAgents)

PlanRank == [n \in PlanNodes |-> CHOOSE k \in DOMAIN BuildOrder : BuildOrder[k] = n]

\* What the plan makes each agent wait for.
Dependencies(name) ==
  CASE name \in {"character_generator", "world_builder"} -> {Agent("config_enhancer")}
    [] name = "outline_planner" ->
         {Agent("character_generator"), Agent("world_builder")}
    [] name \in {"chapter_summary", "hook_generator"} -> {Agent("outline_planner")}
    [] name = "conflict_generator" -> {Agent("chapter_summary")}
    [] name = "content_generator" ->
         {Agent("chapter_summary"), Agent("hook_generator"), Agent("conflict_generator")}
    [] name = "quality_checker" -> PlanChapters
    [] name = "humanizer" -> {Agent("quality_checker")}
    [] OTHER -> {}

PlanDeps == [n \in PlanNodes |-> Dependencies(n[1])]

PlanNonCritical == {Agent("quality_checker"), Agent("humanizer")}
=============================================================================
