---------------------------- MODULE NovelWorkflow ----------------------------
(* The workflow novel_generation that WorkflowOrchestrator registers. A      *)
(* stage is named after its agent.                                           *)

NovelStages ==
  <<"config_enhancer", "outline_planner", "character_generator",
    "world_builder", "content_generator", "quality_checker", "humanizer">>

NovelFollowers ==
  [config_enhancer |-> <<"outline_planner">>,
   outline_planner |-> <<"character_generator", "world_builder">>,
   character_generator |-> <<"content_generator">>,
   world_builder |-> <<"content_generator">>,
   content_generator |-> <<"quality_checker">>,
   quality_checker |-> <<"humanizer", "content_generator">>,
   humanizer |-> <<>>]

NovelCondition ==
  [s \in DOMAIN NovelFollowers |->
     IF s = "quality_checker" THEN <<"quality_score">> ELSE <<>>]

NovelReads ==
  [config_enhancer |-> {},
   outline_planner |-> {"generation_config"},
   character_generator |-> {"outline", "generation_config"},
   world_builder |-> {"outline", "generation_config"},
   content_generator |-> {"outline", "character_profiles", "world_setting",
                          "generation_config"},
   quality_checker |-> {"generated_chapters"},
   humanizer |-> {"generated_chapters"}]

NovelWrites ==
  [config_enhancer |-> {"generation_config"},
   outline_planner |-> {"outline", "chapter_list"},
   character_generator |-> {"character_profiles"},
   world_builder |-> {"world_setting"},
   content_generator |-> {"generated_chapters"},
   quality_checker |-> {"quality_report"},
   humanizer |-> {"final_content"}]
=============================================================================
