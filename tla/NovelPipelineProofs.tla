------------------------ MODULE NovelPipelineProofs ------------------------
(* For every number of chapters and threads and whatever is said: every agent *)
(* of the plan does its own work, a stored chapter is whole, and what is     *)
(* made while MongoDB answers is kept.                                       *)
EXTENDS NovelPipeline, ListLemmas

-----------------------------------------------------------------------------
(* The plan, laid out.                                                       *)

AgentNames ==
  {"config_enhancer", "outline_planner", "character_generator", "world_builder",
   "chapter_summary", "hook_generator", "conflict_generator", "quality_checker",
   "humanizer"}

\* Six lists one after the other.
LEMMA FlattenSix ==
  ASSUME NEW s, DOMAIN s = 1 .. 6, Len(s) = 6
  PROVE  FlattenSeq(s) = ((((s[1] \o s[2]) \o s[3]) \o s[4]) \o s[5]) \o s[6]
<1> DEFINE g1 == s[1]
           g2 == g1 \o s[2]
           g3 == g2 \o s[3]
           g4 == g3 \o s[4]
           g5 == g4 \o s[5]
           g6 == g5 \o s[6]
           Is(h) == h = [i \in 1 .. 6 |-> IF i = 1 THEN s[i] ELSE h[i - 1] \o s[i]]
           f == [i \in 1 .. 6 |-> IF i = 1 THEN g1 ELSE IF i = 2 THEN g2
                                  ELSE IF i = 3 THEN g3 ELSE IF i = 4 THEN g4
                                  ELSE IF i = 5 THEN g5 ELSE g6]
<1>1. Is(f)
  <2> SUFFICES ASSUME NEW i \in 1 .. 6
               PROVE  f[i] = IF i = 1 THEN s[i] ELSE f[i - 1] \o s[i]
    OBVIOUS
  <2>1. CASE i = 1 BY <2>1
  <2>2. CASE i = 2 BY <2>2
  <2>3. CASE i = 3 BY <2>3
  <2>4. CASE i = 4 BY <2>4
  <2>5. CASE i = 5 BY <2>5
  <2>6. CASE i = 6 BY <2>6
  <2> QED BY <2>1, <2>2, <2>3, <2>4, <2>5, <2>6
<1> DEFINE c == CHOOSE h : Is(h)
<1>2. Is(c)
  <2> HIDE DEF Is, f
  <2> QED BY <1>1
<1>3. FlattenSeq(s) = c[6]
  BY DEF FlattenSeq
<1> HIDE DEF c
<1>4. ASSUME NEW i \in 1 .. 6
      PROVE  c[i] = IF i = 1 THEN s[i] ELSE c[i - 1] \o s[i]
  BY <1>2
<1>5. c[1] = s[1]
  BY <1>4
<1>6. c[2] = c[1] \o s[2]
  BY <1>4, 2 \in 1 .. 6, 2 - 1 = 1
<1>7. c[3] = c[2] \o s[3]
  BY <1>4, 3 \in 1 .. 6, 3 - 1 = 2
<1>8. c[4] = c[3] \o s[4]
  BY <1>4, 4 \in 1 .. 6, 4 - 1 = 3
<1>9. c[5] = c[4] \o s[5]
  BY <1>4, 5 \in 1 .. 6, 5 - 1 = 4
<1>10. c[6] = c[5] \o s[6]
  BY <1>4, 6 \in 1 .. 6, 6 - 1 = 5
<1> QED BY <1>3, <1>5, <1>6, <1>7, <1>8, <1>9, <1>10

\* The places of the characters and of the world in a list.
PlacesAre(s) ==
  \A k : /\ (k \in DOMAIN s /\ s[k] = Agent("character_generator")) <=> k = 3
         /\ (k \in DOMAIN s /\ s[k] = Agent("world_builder")) <=> k = 4

LEMMA PlacesStay ==
  ASSUME NEW T, NEW a \in Seq(T), NEW b \in Seq(T), PlacesAre(a),
         Agent("character_generator") \notin ToSet(b),
         Agent("world_builder") \notin ToSet(b)
  PROVE  PlacesAre(a \o b)
<1>1. PICK c : c = a \o b
  OBVIOUS
<1>2. /\ \A k \in DOMAIN a : k \in DOMAIN c /\ c[k] = a[k]
      /\ \A k \in DOMAIN c \ DOMAIN a : c[k] \in ToSet(b)
  BY <1>1, ConcatIs
<1>3. PlacesAre(c)
  BY <1>2 DEF PlacesAre
<1> QED BY <1>1, <1>3

\* The nodes of the plan, nine agents and the chapters; the characters come
\* before the world.
LEMMA BuildOrderIs ==
  /\ PlanNodes = {Agent(name) : name \in AgentNames} \cup {ChapterNode(i) : i \in Chapters}
  /\ PlacesAre(BuildOrder)
<1> DEFINE A == Agent("config_enhancer")
           B == Agent("outline_planner")
           C == Agent("character_generator")
           D == Agent("world_builder")
           E == Agent("chapter_summary")
           F == Agent("hook_generator")
           G == Agent("conflict_generator")
           P == GenerationAgents
           Q == Agent("quality_checker")
           H == Agent("humanizer")
           Written == {ChapterNode(i) : i \in Chapters}
           T == {A, B, C, D, E, F, G, Q, H} \cup Written
<1>1. DOMAIN Stages = 1 .. 6 /\ Len(Stages) = 6
  BY DEF Stages
<1>2. /\ Stages[1] = <<A>> /\ Stages[2] = <<B, C, D>> /\ Stages[3] = <<E, F, G>>
      /\ Stages[4] = P /\ Stages[5] = <<Q>> /\ Stages[6] = <<H>>
  BY DEF Stages
<1>3. BuildOrder = ((((<<A>> \o <<B, C, D>>) \o <<E, F, G>>) \o P) \o <<Q>>) \o <<H>>
  BY <1>1, <1>2, FlattenSix DEF BuildOrder
<1>4. P \in Seq(T) /\ ToSet(P) = Written
  BY ChapterCountAssumption DEF GenerationAgents, Chapters, ToSet
<1>5. /\ C \notin {A, B, D, E, F, G, Q, H} \cup Written
      /\ D \notin {A, B, C, E, F, G, Q, H} \cup Written
  BY DEF Agent, ChapterNode
<1>6. {Agent(name) : name \in AgentNames} = {A, B, C, D, E, F, G, Q, H}
  BY DEF AgentNames
<1>7. PlacesAre(BuildOrder) <=>
        \A k : /\ (k \in DOMAIN BuildOrder /\ BuildOrder[k] = C) <=> k = 3
               /\ (k \in DOMAIN BuildOrder /\ BuildOrder[k] = D) <=> k = 4
  BY DEF PlacesAre
<1>8. {A, B, C, D, E, F, G, Q, H} \subseteq T
  OBVIOUS
<1> HIDE DEF Written, T
<1> DEFINE g2 == <<A>> \o <<B, C, D>>
           s3 == <<E, F, G>>
           s5 == <<Q>>
           s6 == <<H>>
<1>9. /\ g2 \in Seq(T) /\ ToSet(g2) = {A, B, C, D} /\ PlacesAre(g2)
  <2>1. g2 \in Seq(T) /\ Len(g2) = 4
        /\ g2[1] = A /\ g2[2] = B /\ g2[3] = C /\ g2[4] = D
    <3> HIDE DEF A, B, C, D
    <3> QED BY <1>8
  <2> HIDE DEF g2
  <2>2. DOMAIN g2 = {1, 2, 3, 4}
    BY <2>1
  <2>3. ToSet(g2) = {A, B, C, D}
    BY <2>1, <2>2 DEF ToSet
  <2>4. PlacesAre(g2)
    BY <1>5, <2>1, <2>2 DEF PlacesAre
  <2> QED BY <2>1, <2>3, <2>4
<1>10. /\ s3 \in Seq(T) /\ ToSet(s3) = {E, F, G}
       /\ s5 \in Seq(T) /\ ToSet(s5) = {Q}
       /\ s6 \in Seq(T) /\ ToSet(s6) = {H}
  <2> HIDE DEF E, F, G, Q, H
  <2>1. s3 \in Seq(T) /\ s5 \in Seq(T) /\ s6 \in Seq(T)
    BY <1>8
  <2>2. DOMAIN s3 = {1, 2, 3} /\ DOMAIN s5 = {1} /\ DOMAIN s6 = {1}
    OBVIOUS
  <2>3. s3[1] = E /\ s3[2] = F /\ s3[3] = G /\ s5[1] = Q /\ s6[1] = H
    OBVIOUS
  <2> HIDE DEF s3, s5, s6
  <2>4. ToSet(s3) = {E, F, G}
    BY <2>2, <2>3 DEF ToSet
  <2>5. ToSet(s5) = {Q} /\ ToSet(s6) = {H}
    BY <2>2, <2>3 DEF ToSet
  <2> QED BY <2>1, <2>4, <2>5
<1> DEFINE g3 == g2 \o s3
           g4 == g3 \o P
           g5 == g4 \o s5
           g6 == g5 \o s6
<1>11. BuildOrder = g6
  BY <1>3
<1> HIDE DEF g2, s3, s5, s6
<1>12. g3 \in Seq(T) /\ ToSet(g3) = {A, B, C, D, E, F, G} /\ PlacesAre(g3)
  <2>1. g3 \in Seq(T) /\ ToSet(g3) = ToSet(g2) \cup ToSet(s3)
    <3>1. g2 \in Seq(T) /\ s3 \in Seq(T)
      BY <1>9, <1>10
    <3> QED BY <3>1, ConcatIs
  <2>2. PlacesAre(g3)
    BY <1>5, <1>9, <1>10, PlacesStay
  <2> QED BY <1>9, <1>10, <2>1, <2>2
<1> HIDE DEF g3
<1>13. g4 \in Seq(T) /\ ToSet(g4) = ToSet(g3) \cup Written /\ PlacesAre(g4)
  <2>1. g4 \in Seq(T) /\ ToSet(g4) = ToSet(g3) \cup ToSet(P)
    BY <1>4, <1>12, ConcatIs
  <2>2. PlacesAre(g4)
    BY <1>4, <1>5, <1>12, PlacesStay
  <2> QED BY <1>4, <2>1, <2>2
<1> HIDE DEF g4
<1>14. g5 \in Seq(T) /\ ToSet(g5) = ToSet(g4) \cup {Q} /\ PlacesAre(g5)
  <2>1. g5 \in Seq(T) /\ ToSet(g5) = ToSet(g4) \cup ToSet(s5)
    BY <1>10, <1>13, ConcatIs
  <2>2. PlacesAre(g5)
    BY <1>5, <1>10, <1>13, PlacesStay
  <2> QED BY <1>10, <2>1, <2>2
<1> HIDE DEF g5
<1>15. ToSet(g6) = ToSet(g5) \cup {H} /\ PlacesAre(g6)
  <2>1. ToSet(g6) = ToSet(g5) \cup ToSet(s6)
    BY <1>10, <1>14, ConcatIs
  <2>2. PlacesAre(g6)
    BY <1>5, <1>10, <1>14, PlacesStay
  <2> QED BY <1>10, <2>1, <2>2
<1>16. PlanNodes = {A, B, C, D, E, F, G, Q, H} \cup Written
  <2>1. PlanNodes = ToSet(g6)
    BY <1>11 DEF PlanNodes
  <2> HIDE DEF g6, A, B, C, D, E, F, G, Q, H
  <2> QED BY <1>12, <1>13, <1>14, <1>15, <2>1
<1> QED BY <1>6, <1>11, <1>15, <1>16 DEF Written

LEMMA ChaptersAre == PlanChapters = {ChapterNode(i) : i \in Chapters}
BY DEF PlanChapters, ToSet, GenerationAgents, Chapters

LEMMA CharactersFirst ==
  PlanRank[Agent("character_generator")] = 3 /\ PlanRank[Agent("world_builder")] = 4
<1>1. /\ Agent("character_generator") \in PlanNodes
      /\ Agent("world_builder") \in PlanNodes
  BY BuildOrderIs DEF AgentNames
<1>2. \A k : /\ (k \in DOMAIN BuildOrder /\ BuildOrder[k] = Agent("character_generator"))
                <=> k = 3
             /\ (k \in DOMAIN BuildOrder /\ BuildOrder[k] = Agent("world_builder"))
                <=> k = 4
  BY BuildOrderIs DEF PlacesAre
<1>3. /\ (CHOOSE k \in DOMAIN BuildOrder :
             BuildOrder[k] = Agent("character_generator")) = 3
      /\ (CHOOSE k \in DOMAIN BuildOrder : BuildOrder[k] = Agent("world_builder")) = 4
  BY <1>2
<1> QED BY <1>1, <1>3 DEF PlanRank

-----------------------------------------------------------------------------
(* The invariant, in four parts.                                             *)

\* Work starts when what it waits for is done, and only the thread of a running
\* chapter calls the model.
Started ==
  /\ node \in [PlanNodes -> {"pending", "executing", "completed", "failed"}]
  /\ \A n \in PlanNodes : node[n] # "pending" =>
       \A d \in PlanDeps[n] : node[d] = "completed"
  /\ \A i \in Chapters : call[i].at # "idle" => i \in Writing

\* What runs or is completed was given to the main handler.
Routed ==
  /\ DOMAIN route = PlanNodes
  /\ MainHandlers
  /\ \A n \in PlanNodes :
       node[n] \in {"executing", "completed"} => route[n] = MainHandler(n[1])

\* What the shared cache keeps in every operation, as in LlmCalls.
CacheFits ==
  /\ held \in [Prompts -> Texts \cup {Nothing}] /\ lru \in Seq(Prompts)
  /\ old \in SUBSET Prompts
  /\ Distinct(lru) /\ ToSet(lru) = Cached
  /\ Cardinality(Cached) <= Capacity /\ old \subseteq Cached

CallType == [at : {"idle", "missed", "answered"},
             key : Prompts \cup {Nothing}, answer : Texts \cup {Nothing}]

\* The cache holds under a key what the model wrote for it; a call asks for the
\* next section of its chapter, and is answered what was written for its key.
Sectioned ==
  /\ CacheFits
  /\ \A k \in Cached : held[k][1] = k
  /\ call \in [Chapters -> CallType]
  /\ written \in [Prompts -> 0 .. MaxTexts]
  /\ \A i \in Chapters : call[i].at # "idle" =>
       /\ Len(texts[i]) < SectionCount
       /\ call[i].key = Prompt(i, Len(texts[i]) + 1)
       /\ call[i].answer # Nothing => call[i].answer[1] = call[i].key
  /\ texts \in [Chapters -> Seq(Texts)]
  /\ \A i \in Chapters :
       /\ Len(texts[i]) <= SectionCount
       /\ \A s \in 1 .. Len(texts[i]) :
            texts[i][s][1] = Prompt(i, s) /\ texts[i][s][2] > 0

\* What is saved is a completed chapter, with all its sections.
Saved ==
  /\ UNION {stored, files, reviewed} \subseteq Chapters
  /\ \A i \in stored \cup files :
       node[ChapterNode(i)] = "completed" /\ Len(texts[i]) = SectionCount

CharacterNode == Agent("character_generator")
WorldNode == Agent("world_builder")
OutlineNode == Agent("outline_planner")

StoreTypes ==
  /\ server \in {"up", "down"} /\ handle \in {"absent", "unconnected", "connected"}
  /\ graph \in {"absent", "kept"}
  /\ {lengthNamed, characters, places, wasDown} \subseteq BOOLEAN
  /\ outlines \subseteq Nat

\* While MongoDB answers, its client is connected once there is one.
Connected == ~wasDown => server = "up" /\ handle \in {"absent", "connected"}

\* The characters come before the world and leave the graph client behind.
GraphKept ==
  /\ node[CharacterNode] = "completed" => graph = "kept"
  /\ node[WorldNode] = "completed" => node[CharacterNode] # "pending"

\* All the outlines of the plan are there, one for each chapter of the request
\* unless the planner was told otherwise.
Counts == {LongOutline, ShortOutline, DefaultOutline, ChapterCount} \cup OwnOutlines

OutlinesKept ==
  ~wasDown /\ node[OutlineNode] = "completed" =>
    /\ \E count \in Counts : outlines = 1 .. count
    /\ ~lengthNamed => outlines = 1 .. ChapterCount

OutlinesUsed ==
  /\ ownOutline \subseteq Chapters \cap outlines
  /\ \A i \in ownOutline : node[ChapterNode(i)] # "pending"
  /\ OutlineFound

MadeKept ==
  ~wasDown =>
    /\ \A i \in Chapters : node[ChapterNode(i)] = "completed" => i \in stored
    /\ node[CharacterNode] = "completed" /\ node[WorldNode] = "completed" => places

Kept ==
  StoreTypes /\ Connected /\ GraphKept /\ OutlinesKept /\ OutlinesUsed /\ MadeKept

NovelInv == Started /\ Routed /\ Sectioned /\ Saved /\ Kept

-----------------------------------------------------------------------------
(* The nodes, and who answers them.                                          *)

LEMMA NodeFacts ==
  /\ \A name \in AgentNames : Agent(name) \in PlanNodes
  /\ \A i \in Chapters : ChapterNode(i) \in PlanNodes
  /\ \A i, j \in Chapters : ChapterNode(i) = ChapterNode(j) => i = j
  /\ \A name \in AgentNames, i \in Chapters : Agent(name) # ChapterNode(i)
  /\ \A n \in PlanNodes : n \notin PlanChapters => \E name \in AgentNames : n = Agent(name)
  /\ \A n \in PlanNodes : PlanDeps[n] = Dependencies(n[1])
<1>1. \A name \in AgentNames, i \in Chapters : Agent(name) # ChapterNode(i)
  BY DEF Agent, ChapterNode, AgentNames
<1>2. \A i, j \in Chapters : ChapterNode(i) = ChapterNode(j) => i = j
  BY DEF ChapterNode
<1>3. \A n \in PlanNodes : PlanDeps[n] = Dependencies(n[1])
  BY DEF PlanDeps
<1> QED BY <1>1, <1>2, <1>3, BuildOrderIs, ChaptersAre

LEMMA DepsFacts == \A n \in PlanNodes : PlanDeps[n] \subseteq PlanNodes
<1> SUFFICES ASSUME NEW n \in PlanNodes PROVE Dependencies(n[1]) \subseteq PlanNodes
  BY NodeFacts
<1>1. PlanChapters \subseteq PlanNodes
  BY ChaptersAre, NodeFacts
<1> QED BY <1>1, NodeFacts DEF Dependencies, AgentNames

\* The first row that matches answers.
LEMMA FirstRow ==
  ASSUME NEW n, NEW said, DOMAIN Dispatch(n[1]) \subseteq Nat \ {0},
         1 \in DOMAIN Dispatch(n[1]), Selects(Dispatch(n[1])[1], said)
  PROVE  Route(n, said) = MainHandler(n[1])
<1> DEFINE rows == Dispatch(n[1])
           fit == {k \in DOMAIN rows : Selects(rows[k], said)}
<1>1. 1 \in fit /\ \A j \in fit : j \in Nat \ {0}
  OBVIOUS
<1>2. Route(n, said) = IF fit = {} THEN "general"
                       ELSE rows[CHOOSE k \in fit : \A j \in fit : k <= j][2]
  BY DEF Route
<1>3. (CHOOSE k \in fit : \A j \in fit : k <= j) = 1
  <2> HIDE DEF fit
  <2>1. \A j \in fit : 1 <= j
    BY <1>1
  <2>2. \A k \in fit : (\A j \in fit : k <= j) => k = 1
    BY <1>1
  <2> QED BY <1>1, <2>1, <2>2
<1> QED BY <1>1, <1>2, <1>3 DEF MainHandler

\* Whatever the request and the answers say, the words of a message select the
\* main handler. The message of a chapter is sure to say "generate" because
\* hook_generator, which the chapter waits for, answered so.
LEMMA RouteMain ==
  ASSUME Started, Routed, NEW n \in PlanNodes, Ready(n), NEW usable, NEW free
  PROVE  Route(n, MessageWords(n, usable, free)) = MainHandler(n[1])
<1> DEFINE said == MessageWords(n, usable, free)
<1>1. BaseWords(n[1]) \subseteq said /\ TaskWords \subseteq said
  BY DEF MessageWords
<1>2. CASE n \in PlanChapters
  <2>1. n[1] = "content_generator"
    BY <1>2, ChaptersAre DEF ChapterNode
  <2>2. Agent("hook_generator") \in PlanDeps[n]
    BY <2>1, NodeFacts DEF Dependencies
  <2>3. node[Agent("hook_generator")] = "completed"
    BY <2>2 DEF Ready
  <2>4. route[Agent("hook_generator")] = "generate_hook"
    <3>1. Agent("hook_generator") \in PlanNodes
      BY NodeFacts DEF AgentNames
    <3>2. MainHandler(Agent("hook_generator")[1]) = "generate_hook"
      BY DEF MainHandler, Dispatch, HookGeneratorRows, ModelOnly, Agent
    <3> QED BY <2>3, <3>1, <3>2 DEF Routed
  <2>5. "generate" \in ResultWords(Agent("hook_generator"))
    BY <2>4 DEF ResultWords
  <2>6. "generate" \in said
    BY <2>2, <2>3, <2>5 DEF MessageWords, Earlier
  <2>7. "content" \in said
    BY <1>1, <2>1 DEF BaseWords
  <2>8. /\ Dispatch(n[1]) = ContentGeneratorRows
        /\ DOMAIN ContentGeneratorRows = 1 .. 5
        /\ ContentGeneratorRows[1][1] = {{"generate"}, {"content", "chapter"}}
    BY <2>1 DEF Dispatch, ContentGeneratorRows, ModelOnly
  <2>9. Selects(Dispatch(n[1])[1], said)
    <3> HIDE DEF said
    <3> QED BY <2>6, <2>7, <2>8 DEF Selects
  <2> HIDE DEF said
  <2> QED BY <2>8, <2>9, FirstRow DEF said
<1>3. CASE n \notin PlanChapters
  <2>1. PICK name \in AgentNames : n[1] = name
    BY <1>3, NodeFacts DEF Agent
  <2>2. /\ DOMAIN Dispatch(name) \subseteq Nat \ {0} /\ 1 \in DOMAIN Dispatch(name)
    BY DEF AgentNames, Dispatch, ModelOnly, OutlinePlannerRows,
           CharacterGeneratorRows, WorldBuilderRows, HookGeneratorRows,
           QualityCheckerRows, HumanizerRows
  <2>3. Selects(Dispatch(name)[1], BaseWords(name) \cup TaskWords)
    BY DEF AgentNames, Dispatch, ModelOnly, OutlinePlannerRows,
           CharacterGeneratorRows, WorldBuilderRows, HookGeneratorRows,
           QualityCheckerRows, HumanizerRows, Selects, BaseWords, TaskWords
  <2>4. Selects(Dispatch(name)[1], said)
    BY <1>1, <2>1, <2>3 DEF Selects
  <2> HIDE DEF said
  <2> QED BY <2>1, <2>2, <2>4, FirstRow DEF said
<1> QED BY <1>2, <1>3

-----------------------------------------------------------------------------
(* Work starts when what it waits for is done.                               *)

LEMMA SectionFacts ==
  /\ SectionCount \in Nat \ {0}
  /\ \A i \in Chapters, s \in 1 .. SectionCount : Prompt(i, s) \in Prompts
<1>1. SectionCount \in Nat \ {0}
  <2>1. WordsPerChapter \div 600 \in Int
    BY NovelAssumption
  <2> QED BY <2>1 DEF SectionCount, AtLeast, AtMost
<1>2. DOMAIN SectionTargets = 1 .. SectionCount
  BY DEF SectionTargets
<1> QED BY <1>1, <1>2 DEF Prompt, Prompts, ToSet

Statuses == {"pending", "executing", "completed", "failed"}

StartedNodes ==
  /\ node \in [PlanNodes -> Statuses]
  /\ \A n \in PlanNodes : node[n] # "pending" =>
       \A d \in PlanDeps[n] : node[d] = "completed"

\* A node that is ready or running moves on: what was completed stays so.
LEMMA OneNodeMoves ==
  ASSUME Started, NEW n \in PlanNodes, NEW v \in Statuses,
         node' = [node EXCEPT ![n] = v],
         Ready(n) \/ node[n] = "executing", v # "pending"
  PROVE  /\ StartedNodes'
         /\ node'[n] = v /\ \A m \in PlanNodes : m # n => node'[m] = node[m]
<1>1. node \in [PlanNodes -> Statuses]
  BY DEF Started, Statuses
<1>2. /\ node' \in [PlanNodes -> Statuses]
      /\ node'[n] = v /\ \A m \in PlanNodes : m # n => node'[m] = node[m]
  BY <1>1
<1>3. \A m \in PlanNodes : node[m] = "completed" => node'[m] = "completed"
  BY <1>2 DEF Ready
<1>4. \A d \in PlanDeps[n] : node[d] = "completed"
  BY DEF Started, Ready
<1>5. \A m \in PlanNodes : node'[m] # "pending" =>
        \A d \in PlanDeps[m] : node'[d] = "completed"
  BY <1>2, <1>3, <1>4, DepsFacts DEF Started
<1> QED BY <1>2, <1>5 DEF StartedNodes

LEMMA StartedParts ==
  ASSUME StartedNodes', \A i \in Chapters : call'[i].at # "idle" => i \in Writing'
  PROVE  Started'
BY DEF Started, StartedNodes, Statuses

\* Nobody calls the model while an agent runs that is no chapter.
LEMMA AgentAlone ==
  ASSUME Started, NEW n \in PlanNodes, RunAgent(n) \/ AgentRaises(n)
  PROVE  /\ n \notin PlanChapters /\ Ready(n) /\ Writing = {}
         /\ UNCHANGED <<ownOutline, texts, server, stored, files, wasDown, callVars>>
         /\ \A i \in Chapters : call[i].at = "idle"
BY DEF RunAgent, AgentRaises, IsNext, Started

\* What a step of a chapter does to its call.
LEMMA CallMoves ==
  ASSUME call \in [Chapters -> CallType], NEW i \in Chapters,
         AskSection(i) \/ ModelReturns(i) \/ TakeSection(i)
  PROVE  /\ DOMAIN call' = Chapters
         /\ \A j \in Chapters : j # i => call'[j] = call[j]
BY DEF AskSection, Ask, Answered, ModelReturns, ClientReturns, ClientWrites,
       ClientAnswersBlank, ClientFails, TakeSection

LEMMA StartedStep ==
  ASSUME Started, Sectioned, [NovelNext]_novelVars
  PROVE  Started'
<1> USE StartedParts
<1>0. call \in [Chapters -> CallType]
  BY DEF Sectioned
<1>1. ASSUME UNCHANGED node, UNCHANGED call PROVE Started'
  BY <1>1 DEF Started, Writing
<1>2. ASSUME NEW n \in PlanNodes, RunAgent(n) PROVE Started'
  <2>1. Ready(n) /\ node' = [node EXCEPT ![n] = "completed"] /\ call' = call
    BY <1>2 DEF RunAgent, IsNext, callVars
  <2>2. StartedNodes'
    BY <2>1, OneNodeMoves DEF Statuses
  <2>3. \A i \in Chapters : call'[i].at = "idle"
    BY <1>2, <2>1, AgentAlone
  <2> QED BY <2>2, <2>3
<1>3. ASSUME NEW n \in PlanNodes, AgentRaises(n) PROVE Started'
  <2>1. Ready(n) /\ node' = [node EXCEPT ![n] = "failed"] /\ call' = call
    BY <1>3 DEF AgentRaises, IsNext, callVars
  <2>2. StartedNodes'
    BY <2>1, OneNodeMoves DEF Statuses
  <2>3. \A i \in Chapters : call'[i].at = "idle"
    BY <1>3, <2>1, AgentAlone
  <2> QED BY <2>2, <2>3
<1>4. ASSUME NEW i \in Chapters, BeginChapter(i) PROVE Started'
  <2> DEFINE n == ChapterNode(i)
  <2>1. n \in PlanNodes
    BY NodeFacts
  <2>2. PICK v \in {"executing", "completed"} : node' = [node EXCEPT ![n] = v]
    BY <1>4 DEF BeginChapter
  <2>3. Ready(n) /\ call' = call
    BY <1>4 DEF BeginChapter, callVars
  <2>4. StartedNodes' /\ \A m \in PlanNodes : m # n => node'[m] = node[m]
    BY <2>1, <2>2, <2>3, OneNodeMoves DEF Statuses
  <2>5. ASSUME NEW j \in Chapters, call'[j].at # "idle" PROVE j \in Writing'
    <3>1. j \in Writing
      BY <2>3, <2>5 DEF Started
    <3>2. j # i
      BY <2>3, <3>1 DEF Ready, Writing
    <3> QED BY <2>4, <3>1, <3>2, NodeFacts DEF Writing
  <2> QED BY <2>4, <2>5
<1>5. ASSUME NEW i \in Chapters, AskSection(i) \/ ModelReturns(i) PROVE Started'
  <2>1. node' = node /\ i \in Writing
    BY <1>5 DEF AskSection, ModelReturns, nodeVars, ClientReturns, ClientWrites,
                ClientAnswersBlank, ClientFails, Started
  <2>2. \A j \in Chapters : j # i => call'[j] = call[j]
    BY <1>0, <1>5, CallMoves
  <2> QED BY <2>1, <2>2 DEF Started, Writing
<1>6. ASSUME NEW i \in Chapters, TakeSection(i) PROVE Started'
  <2>1. i \in Writing
    BY <1>6 DEF TakeSection, Started
  <2>2. node[ChapterNode(i)] = "executing" /\ ChapterNode(i) \in PlanNodes
    BY <2>1, NodeFacts DEF Writing
  <2>3. \/ node' = node
        \/ node' = [node EXCEPT ![ChapterNode(i)] = "failed"]
    BY <1>6 DEF TakeSection
  <2>4. /\ StartedNodes'
        /\ \A m \in PlanNodes : m # ChapterNode(i) => node'[m] = node[m]
    BY <2>2, <2>3, OneNodeMoves DEF Statuses, StartedNodes, Started
  <2>5. call'[i].at = "idle" /\ \A j \in Chapters : j # i => call'[j] = call[j]
    BY <1>0, <1>6, CallMoves DEF TakeSection, Idle
  <2>6. ASSUME NEW j \in Chapters, call'[j].at # "idle" PROVE j \in Writing'
    BY <2>4, <2>5, <2>6, NodeFacts DEF Writing, Started
  <2> QED BY <2>4, <2>6
<1>7. ASSUME NEW i \in Chapters, FinishChapter(i) PROVE Started'
  <2>1. /\ node[ChapterNode(i)] = "executing" /\ ChapterNode(i) \in PlanNodes
        /\ node' = [node EXCEPT ![ChapterNode(i)] = "completed"]
        /\ Len(texts[i]) = SectionCount /\ call' = call
    BY <1>7, NodeFacts DEF FinishChapter, Writing, callVars
  <2>2. /\ StartedNodes'
        /\ \A m \in PlanNodes : m # ChapterNode(i) => node'[m] = node[m]
    BY <2>1, OneNodeMoves DEF Statuses
  <2>3. call[i].at = "idle"
    BY <2>1, SectionFacts DEF Sectioned
  <2>4. ASSUME NEW j \in Chapters, call'[j].at # "idle" PROVE j \in Writing'
    BY <2>1, <2>2, <2>3, <2>4, NodeFacts DEF Writing, Started
  <2> QED BY <2>2, <2>4
<1>8. CASE ServerChanges \/ EntriesAge \/ UNCHANGED novelVars
  BY <1>1, <1>8 DEF ServerChanges, EntriesAge, Age, novelVars, nodeVars, callVars
<1> QED BY <1>2, <1>3, <1>4, <1>5, <1>6, <1>7, <1>8 DEF NovelNext, ChapterSteps

-----------------------------------------------------------------------------
(* Every agent does its own work.                                            *)

LEMMA RoutedStep ==
  ASSUME Started, Routed, [NovelNext]_novelVars
  PROVE  Routed'
<1>1. /\ DOMAIN route = PlanNodes /\ DOMAIN node = PlanNodes
      /\ \A n \in PlanNodes : route[n] \in {"none", MainHandler(n[1])}
      /\ \A n \in PlanNodes :
           node[n] \in {"executing", "completed"} => route[n] = MainHandler(n[1])
  BY DEF Routed, MainHandlers, Started
\* A step that takes nothing new into work leaves the routes alone.
<1>2. ASSUME UNCHANGED route,
             \A n \in PlanNodes :
               node'[n] \in {"executing", "completed"} =>
                 node[n] \in {"executing", "completed"}
      PROVE  Routed'
  BY <1>1, <1>2 DEF Routed, MainHandlers
<1>3. ASSUME NEW n \in PlanNodes, NEW v, NEW free, Ready(n),
             route' = [route EXCEPT ![n] = Route(n, MessageWords(n, Usable, free))],
             node' = [node EXCEPT ![n] = v]
      PROVE  Routed'
  <2>1. Route(n, MessageWords(n, Usable, free)) = MainHandler(n[1])
    BY <1>3, RouteMain
  <2>2. /\ DOMAIN route' = PlanNodes /\ route'[n] = MainHandler(n[1])
        /\ \A m \in PlanNodes : m # n => route'[m] = route[m] /\ node'[m] = node[m]
    BY <1>1, <1>3, <2>1
  <2> QED BY <1>1, <1>3, <2>2 DEF Routed, MainHandlers
<1>4. ASSUME NEW n \in PlanNodes, RunAgent(n) PROVE Routed'
  <2>1. Ready(n) /\ node' = [node EXCEPT ![n] = "completed"]
    BY <1>4 DEF RunAgent, IsNext
  <2>2. PICK free \in SUBSET Said :
          route' = [route EXCEPT ![n] = Route(n, MessageWords(n, Usable, free))]
    BY <1>4 DEF RunAgent
  <2> QED BY <1>3, <2>1, <2>2
<1>5. ASSUME NEW i \in Chapters, BeginChapter(i) PROVE Routed'
  <2> DEFINE n == ChapterNode(i)
  <2>1. n \in PlanNodes /\ Ready(n)
    BY <1>5, NodeFacts DEF BeginChapter
  <2>2. PICK free \in SUBSET Said, v \in Statuses :
          /\ route' = [route EXCEPT ![n] = Route(n, MessageWords(n, Usable, free))]
          /\ node' = [node EXCEPT ![n] = v]
    BY <1>5 DEF BeginChapter, Statuses
  <2> QED BY <1>3, <2>1, <2>2
<1>6. ASSUME NEW n \in PlanNodes, AgentRaises(n) PROVE Routed'
  <2>1. node' = [node EXCEPT ![n] = "failed"] /\ UNCHANGED route
    BY <1>6 DEF AgentRaises
  <2> QED BY <1>1, <1>2, <2>1
<1>7. ASSUME NEW i \in Chapters, AskSection(i) \/ ModelReturns(i) PROVE Routed'
  <2>1. UNCHANGED <<node, route>>
    BY <1>7 DEF AskSection, ModelReturns, nodeVars
  <2> QED BY <1>1, <1>2, <2>1
<1>8. ASSUME NEW i \in Chapters, TakeSection(i) PROVE Routed'
  <2>1. /\ node' = node \/ node' = [node EXCEPT ![ChapterNode(i)] = "failed"]
        /\ UNCHANGED route
    BY <1>8 DEF TakeSection
  <2> QED BY <1>1, <1>2, <2>1
<1>9. ASSUME NEW i \in Chapters, FinishChapter(i) PROVE Routed'
  <2>1. /\ node' = [node EXCEPT ![ChapterNode(i)] = "completed"]
        /\ node[ChapterNode(i)] = "executing" /\ UNCHANGED route
    BY <1>9 DEF FinishChapter, Writing
  <2> QED BY <1>1, <1>2, <2>1
<1>10. CASE ServerChanges \/ EntriesAge \/ UNCHANGED novelVars
  <2>1. UNCHANGED <<node, route>>
    BY <1>10 DEF ServerChanges, EntriesAge, novelVars, nodeVars
  <2> QED BY <1>1, <1>2, <2>1
<1> QED BY <1>4, <1>5, <1>6, <1>7, <1>8, <1>9, <1>10 DEF NovelNext, ChapterSteps

-----------------------------------------------------------------------------
(* The sections of a chapter. What the shared cache keeps is what ServiceProofs *)
(* shows of it for any keys; here the keys are prompts.                      *)

LEMMA TouchFits ==
  ASSUME CacheFits, NEW k \in Cached, Touch(k)
  PROVE  CacheFits'
<1>1. lru' \in Seq(Prompts) /\ Distinct(lru') /\ ToSet(lru') = ToSet(lru)
  BY TouchedList DEF CacheFits, Touch, Without
<1>2. held' = held /\ old' = old /\ Cached' = Cached
  BY DEF Touch, Cached
<1> QED BY <1>1, <1>2 DEF CacheFits

LEMMA ExpireFits ==
  ASSUME CacheFits, NEW k \in Prompts, Expire(k)
  PROVE  CacheFits'
<1>1. lru' \in Seq(Prompts) /\ Distinct(lru') /\ ToSet(lru') = ToSet(lru) \ {k}
  BY RemoveDistinct DEF CacheFits, Without, Expire
<1>2. Cached' = Cached \ {k} /\ held' \in [Prompts -> Texts \cup {Nothing}]
  BY DEF CacheFits, Expire, Cached
<1>3. IsFiniteSet(Cached)
  BY DistinctLength DEF CacheFits
<1>4. /\ Cardinality(Cached') <= Cardinality(Cached)
      /\ Cardinality(Cached') \in Nat /\ Cardinality(Cached) \in Nat
  <2>1. /\ Cardinality(Cached \ {k}) \in {Cardinality(Cached), Cardinality(Cached) - 1}
        /\ IsFiniteSet(Cached \ {k})
    BY <1>3, FS_RemoveElement
  <2>2. Cardinality(Cached \ {k}) \in Nat /\ Cardinality(Cached) \in Nat
    BY <1>3, <2>1, FS_CardinalityType
  <2>3. Cardinality(Cached \ {k}) <= Cardinality(Cached)
    BY <2>1, <2>2
  <2> QED BY <1>2, <2>2, <2>3
<1>5. old' = old \ {k}
  BY DEF Expire
<1> QED BY <1>1, <1>2, <1>4, <1>5, NovelAssumption DEF CacheFits

\* put drops a key only when the list has one, and then the dictionary has
\* room for one more.
LEMMA PutFits ==
  ASSUME CacheFits, NEW k \in Prompts, NEW text \in Texts, Put(k, text)
  PROVE  CacheFits'
<1> DEFINE out == Dropped(k, Without(k))
<1>1. /\ held' = [x \in Prompts |-> IF x = k THEN text
                                 ELSE IF x \in out THEN Nothing ELSE held[x]]
      /\ lru' = Append(IF out = {} THEN Without(k) ELSE Tail(Without(k)), k)
      /\ old' = old \ (out \cup {k})
  BY DEF Put
<1>2. /\ lru \in Seq(Prompts) /\ Distinct(lru) /\ ToSet(lru) = Cached
      /\ Cardinality(ToSet(lru)) <= Capacity
  BY DEF CacheFits
<1>3. LET rest == RemoveFirst(lru, k)
          gone == IF Cardinality(ToSet(lru) \ {k}) >= Capacity
                  THEN {Head(rest)} ELSE {}
          t == Append(IF gone = {} THEN rest ELSE Tail(rest), k)
      IN  /\ t \in Seq(Prompts) /\ Distinct(t)
          /\ ToSet(t) = ((ToSet(lru) \ {k}) \ gone) \cup {k}
          /\ Cardinality(ToSet(t)) <= Capacity
  BY <1>2, PushedList, NovelAssumption
<1>4. /\ lru' \in Seq(Prompts) /\ Distinct(lru')
      /\ ToSet(lru') = ((Cached \ {k}) \ out) \cup {k}
      /\ Cardinality(ToSet(lru')) <= Capacity
  BY <1>1, <1>2, <1>3 DEF Dropped, Without
<1>5. text # Nothing
  BY DEF Texts, Nothing
<1>6. Cached' = ((Cached \ {k}) \ out) \cup {k}
  BY <1>1, <1>5 DEF Cached, CacheFits
<1>7. held' \in [Prompts -> Texts \cup {Nothing}]
  BY <1>1 DEF CacheFits
<1> QED BY <1>1, <1>4, <1>6, <1>7 DEF CacheFits

\* An entry names the prompt it answers.
Tagged == \A k \in Cached : held[k][1] = k

LEMMA PutTags ==
  ASSUME Tagged, held \in [Prompts -> Texts \cup {Nothing}],
         NEW k \in Prompts, NEW text, text[1] = k, Put(k, text)
  PROVE  Tagged'
<1>1. PICK out :
        held' = [x \in Prompts |-> IF x = k THEN text
                                  ELSE IF x \in out THEN Nothing ELSE held[x]]
  BY DEF Put
<1> QED BY <1>1 DEF Tagged, Cached

\* The part of the invariant about calls, for one call that changes.
CallRight(i) ==
  call[i].at # "idle" =>
    /\ Len(texts[i]) < SectionCount
    /\ call[i].key = Prompt(i, Len(texts[i]) + 1)
    /\ call[i].answer # Nothing => call[i].answer[1] = call[i].key

TextsRight ==
  /\ texts \in [Chapters -> Seq(Texts)]
  /\ \A i \in Chapters :
       /\ Len(texts[i]) <= SectionCount
       /\ \A s \in 1 .. Len(texts[i]) :
            texts[i][s][1] = Prompt(i, s) /\ texts[i][s][2] > 0

LEMMA SectionedIs ==
  Sectioned <=> /\ CacheFits /\ Tagged /\ call \in [Chapters -> CallType]
                /\ written \in [Prompts -> 0 .. MaxTexts]
                /\ TextsRight /\ \A i \in Chapters : CallRight(i)
BY DEF Sectioned, Tagged, TextsRight, CallRight

LEMMA CallChanges ==
  ASSUME Sectioned, CacheFits', Tagged', written' \in [Prompts -> 0 .. MaxTexts],
         UNCHANGED texts, NEW i \in Chapters, NEW c \in CallType,
         call' = [call EXCEPT ![i] = c], CallRight(i)'
  PROVE  Sectioned'
<1>1. /\ call \in [Chapters -> CallType] /\ TextsRight
      /\ \A j \in Chapters : CallRight(j)
  BY SectionedIs
<1>2. /\ call' \in [Chapters -> CallType]
      /\ \A j \in Chapters : j # i => call'[j] = call[j]
  BY <1>1
<1>3. \A j \in Chapters : CallRight(j)'
  BY <1>1, <1>2 DEF CallRight
<1>4. TextsRight'
  BY <1>1 DEF TextsRight
<1> QED BY <1>2, <1>3, <1>4 DEF Sectioned, Tagged, TextsRight, CallRight

LEMMA AskKeeps ==
  ASSUME Sectioned, NEW i \in Chapters, AskSection(i)
  PROVE  Sectioned'
<1> DEFINE k == Prompt(i, Len(texts[i]) + 1)
<1>1. /\ CacheFits /\ Tagged /\ TextsRight /\ call \in [Chapters -> CallType]
      /\ written \in [Prompts -> 0 .. MaxTexts]
  BY SectionedIs
<1>2. /\ Len(texts[i]) < SectionCount /\ Ask(i, k) /\ UNCHANGED texts
  BY DEF AskSection, nodeVars
<1>3. k \in Prompts
  <2>1. Len(texts[i]) \in Nat
    BY <1>1 DEF TextsRight
  <2>2. Len(texts[i]) + 1 \in 1 .. SectionCount
    BY <1>2, <2>1, SectionFacts
  <2> QED BY <2>2, SectionFacts
<1>4. UNCHANGED written
  BY <1>2 DEF Ask
<1>5. CASE k \in Cached \ old /\ Touch(k) /\ Answered(i, k, held[k])
  <2> DEFINE c == [at |-> "answered", key |-> k, answer |-> held[k]]
  <2>1. CacheFits'
    BY <1>1, <1>5, TouchFits
  <2>2. Tagged'
    BY <1>1, <1>5 DEF Tagged, Touch, Cached
  <2>3. held[k] \in Texts \cup {Nothing} /\ held[k][1] = k
    BY <1>1, <1>3, <1>5 DEF CacheFits, Tagged
  <2>4. c \in CallType /\ call' = [call EXCEPT ![i] = c]
    <3> HIDE DEF k
    <3> QED BY <1>3, <1>5, <2>3 DEF CallType, Answered
  <2>5. CallRight(i)'
    BY <1>1, <1>2, <2>3, <2>4 DEF CallRight
  <2> HIDE DEF c
  <2> QED BY <1>1, <1>2, <1>4, <2>1, <2>2, <2>4, <2>5, CallChanges
<1>6. CASE /\ IF k \in Cached THEN Expire(k) ELSE UNCHANGED <<held, lru, old>>
           /\ call' = [call EXCEPT ![i] = [at |-> "missed", key |-> k,
                                           answer |-> Nothing]]
  <2> DEFINE c == [at |-> "missed", key |-> k, answer |-> Nothing]
  <2> HIDE DEF k
  <2>1. CacheFits'
    <3>1. UNCHANGED <<held, lru, old>> => CacheFits'
      BY <1>1 DEF CacheFits, Cached
    <3> QED BY <1>1, <1>3, <1>6, <3>1, ExpireFits
  <2>2. Tagged'
    BY <1>1, <1>6 DEF Tagged, Expire, Cached, CacheFits
  <2>3. c \in CallType /\ call' = [call EXCEPT ![i] = c]
    BY <1>3, <1>6 DEF CallType
  <2>4. CallRight(i)'
    BY <1>1, <1>2, <2>3 DEF CallRight, k
  <2> HIDE DEF c
  <2> QED BY <1>1, <1>2, <1>4, <2>1, <2>2, <2>3, <2>4, CallChanges
<1> QED BY <1>2, <1>5, <1>6 DEF Ask

\* The model's answer, a text for the prompt asked or none.
LEMMA ReturnKeeps ==
  ASSUME Sectioned, NEW i \in Chapters, ModelReturns(i)
  PROVE  Sectioned'
<1> DEFINE k == call[i].key
<1>1. /\ CacheFits /\ Tagged /\ TextsRight /\ call \in [Chapters -> CallType]
      /\ written \in [Prompts -> 0 .. MaxTexts] /\ CallRight(i)
  BY SectionedIs
<1>2. call[i].at = "missed" /\ ClientReturns(i) /\ UNCHANGED texts
  BY DEF ModelReturns, nodeVars, ClientReturns, ClientWrites, ClientAnswersBlank,
         ClientFails
<1>3. Len(texts[i]) < SectionCount /\ k = Prompt(i, Len(texts[i]) + 1) /\ k \in Prompts
  <2>1. Len(texts[i]) < SectionCount /\ k = Prompt(i, Len(texts[i]) + 1)
    BY <1>1, <1>2 DEF CallRight
  <2>2. Len(texts[i]) + 1 \in 1 .. SectionCount
    <3>1. Len(texts[i]) \in Nat
      BY <1>1 DEF TextsRight
    <3> QED BY <2>1, <3>1, SectionFacts
  <2> QED BY <2>1, <2>2, SectionFacts
<1> HIDE DEF k
<1>4. ASSUME NEW text \in Texts, text[1] = k, Put(k, text), Answered(i, k, text),
             written' \in [Prompts -> 0 .. MaxTexts]
      PROVE  Sectioned'
  <2> DEFINE c == [at |-> "answered", key |-> k, answer |-> text]
  <2>1. CacheFits'
    BY <1>1, <1>3, <1>4, PutFits
  <2>2. Tagged'
    BY <1>1, <1>3, <1>4, PutTags DEF CacheFits
  <2>3. c \in CallType /\ call' = [call EXCEPT ![i] = c]
    BY <1>3, <1>4 DEF CallType, Answered
  <2>4. CallRight(i)'
    BY <1>1, <1>2, <1>3, <1>4, <2>3 DEF CallRight
  <2> HIDE DEF c
  <2> QED BY <1>2, <1>4, <2>1, <2>2, <2>3, <2>4, CallChanges
<1>5. CASE ClientWrites(i)
  <2> DEFINE text == <<k, written[k] + 1>>
  <2>1. /\ Put(k, text) /\ Answered(i, k, text) /\ written[k] < MaxTexts
        /\ written' = [written EXCEPT ![k] = @ + 1]
    BY <1>5 DEF ClientWrites, k
  <2>2. written[k] + 1 \in 0 .. MaxTexts
    BY <1>1, <1>3, <2>1, NovelAssumption
  <2>3. text \in Texts /\ text[1] = k /\ written' \in [Prompts -> 0 .. MaxTexts]
    BY <1>1, <1>3, <2>1, <2>2 DEF Texts
  <2> HIDE DEF text
  <2> QED BY <1>4, <2>1, <2>3
<1>6. CASE ClientAnswersBlank(i)
  <2> DEFINE text == Blank(k)
  <2>1. /\ Put(k, text) /\ Answered(i, k, text) /\ UNCHANGED written
    BY <1>6 DEF ClientAnswersBlank, k
  <2>2. text \in Texts /\ text[1] = k /\ written' \in [Prompts -> 0 .. MaxTexts]
    BY <1>1, <1>3, <2>1, NovelAssumption DEF Texts, Blank
  <2> HIDE DEF text
  <2> QED BY <1>4, <2>1, <2>2
<1>7. CASE ClientFails(i)
  <2> DEFINE c == [at |-> "answered", key |-> k, answer |-> Nothing]
  <2>1. UNCHANGED <<held, lru, old, written>> /\ Answered(i, k, Nothing)
    BY <1>7 DEF ClientFails, k
  <2>2. CacheFits' /\ Tagged' /\ written' \in [Prompts -> 0 .. MaxTexts]
    BY <1>1, <2>1 DEF CacheFits, Tagged, Cached
  <2>3. c \in CallType /\ call' = [call EXCEPT ![i] = c]
    BY <1>3, <2>1 DEF CallType, Answered
  <2>4. CallRight(i)'
    BY <1>1, <1>2, <1>3, <2>3 DEF CallRight
  <2> HIDE DEF c
  <2> QED BY <1>2, <2>2, <2>3, <2>4, CallChanges
<1> QED BY <1>2, <1>5, <1>6, <1>7 DEF ClientReturns

\* A section that is taken is a text the model wrote for it.
LEMMA TakeKeeps ==
  ASSUME Sectioned, NEW i \in Chapters, TakeSection(i)
  PROVE  Sectioned'
<1> DEFINE text == call[i].answer
           n == Len(texts[i])
<1>1. /\ CacheFits /\ Tagged /\ TextsRight /\ call \in [Chapters -> CallType]
      /\ written \in [Prompts -> 0 .. MaxTexts] /\ \A j \in Chapters : CallRight(j)
  BY SectionedIs
<1>2. /\ call[i].at = "answered" /\ UNCHANGED <<held, lru, old, written>>
      /\ call' = [call EXCEPT ![i] = Idle]
      /\ \/ /\ text \notin {Nothing, Blank(call[i].key)}
            /\ texts' = [texts EXCEPT ![i] = Append(@, text)]
         \/ UNCHANGED texts
  BY DEF TakeSection
<1>3. Idle \in CallType
  BY DEF Idle, CallType
<1>4. /\ call' \in [Chapters -> CallType]
      /\ call'[i].at = "idle" /\ \A j \in Chapters : j # i => call'[j] = call[j]
  BY <1>1, <1>2, <1>3 DEF Idle
<1>5. CacheFits' /\ Tagged' /\ written' \in [Prompts -> 0 .. MaxTexts]
  BY <1>1, <1>2 DEF CacheFits, Tagged, Cached
<1>6. CASE UNCHANGED texts
  <2>1. TextsRight' /\ \A j \in Chapters : CallRight(j)'
    BY <1>1, <1>4, <1>6 DEF TextsRight, CallRight
  <2> QED BY <1>4, <1>5, <2>1 DEF Sectioned, Tagged, TextsRight, CallRight
<1>7. CASE /\ text \notin {Nothing, Blank(call[i].key)}
           /\ texts' = [texts EXCEPT ![i] = Append(@, text)]
  <2>1. /\ texts[i] \in Seq(Texts) /\ n \in Nat /\ n < SectionCount
        /\ call[i].key = Prompt(i, n + 1) /\ text[1] = Prompt(i, n + 1)
        /\ text \in Texts
    BY <1>1, <1>2, <1>7 DEF CallRight, TextsRight, CallType
  <2>2. text[2] > 0
    <3>1. PICK k \in Prompts, m \in 0 .. MaxTexts : text = <<k, m>>
      BY <2>1 DEF Texts
    <3>2. m # 0
      BY <1>7, <2>1, <3>1 DEF Blank
    <3> QED BY <3>1, <3>2
  <2>3. /\ texts' \in [Chapters -> Seq(Texts)]
        /\ texts'[i] = Append(texts[i], text)
        /\ \A j \in Chapters : j # i => texts'[j] = texts[j]
    <3>1. texts \in [Chapters -> Seq(Texts)]
      BY <1>1 DEF TextsRight
    <3>2. Append(texts[i], text) \in Seq(Texts)
      BY <2>1
    <3> HIDE DEF text
    <3> QED BY <1>7, <3>1, <3>2
  <2>4. /\ Len(texts'[i]) = n + 1 /\ texts'[i][n + 1] = text
        /\ \A s \in 1 .. n : texts'[i][s] = texts[i][s]
    BY <2>1, <2>3
  <2>5. Len(texts'[i]) <= SectionCount
    BY <2>1, <2>4, SectionFacts
  <2>6. ASSUME NEW s \in 1 .. Len(texts'[i])
        PROVE  texts'[i][s][1] = Prompt(i, s) /\ texts'[i][s][2] > 0
    <3>1. CASE s \in 1 .. n
      BY <1>1, <2>4, <3>1 DEF TextsRight
    <3>2. CASE s = n + 1
      BY <2>1, <2>2, <2>4, <3>2
    <3> QED BY <2>1, <2>4, <3>1, <3>2
  <2> HIDE DEF text, n
  <2>7. TextsRight'
    BY <1>1, <2>3, <2>5, <2>6 DEF TextsRight
  <2>8. \A j \in Chapters : CallRight(j)'
    BY <1>1, <1>4, <2>3 DEF CallRight
  <2> QED BY <1>4, <1>5, <2>7, <2>8 DEF Sectioned, Tagged, TextsRight, CallRight
<1> QED BY <1>2, <1>6, <1>7

LEMMA SectionedStep ==
  ASSUME Sectioned, [NovelNext]_novelVars
  PROVE  Sectioned'
<1>1. ASSUME UNCHANGED <<texts, callVars>> PROVE Sectioned'
  BY <1>1 DEF Sectioned, callVars, CacheFits, Cached
<1>2. CASE EntriesAge
  <2>1. PICK S \in SUBSET Prompts : Age(S)
    BY <1>2 DEF EntriesAge
  <2>2. /\ UNCHANGED <<held, lru, call, written, texts>> /\ Cached' = Cached
        /\ S \subseteq Cached /\ old' = old \cup S
    BY <1>2, <2>1 DEF Age, Cached, EntriesAge, nodeVars
  <2>3. Cached \subseteq Prompts
    BY DEF Cached
  <2>4. CacheFits'
    BY <2>2, <2>3 DEF Sectioned, CacheFits
  <2> QED BY <2>2, <2>4 DEF Sectioned
<1>3. CASE ServerChanges \/ UNCHANGED novelVars
  BY <1>1, <1>3 DEF ServerChanges, novelVars, nodeVars
<1>4. ASSUME NEW n \in PlanNodes, RunAgent(n) \/ AgentRaises(n) PROVE Sectioned'
  BY <1>1, <1>4 DEF RunAgent, AgentRaises
<1>5. ASSUME NEW i \in Chapters, BeginChapter(i) \/ FinishChapter(i) PROVE Sectioned'
  BY <1>1, <1>5 DEF BeginChapter, FinishChapter
<1> QED BY <1>2, <1>3, <1>4, <1>5, AskKeeps, ReturnKeeps, TakeKeeps
        DEF NovelNext, ChapterSteps

-----------------------------------------------------------------------------
(* What is saved is whole.                                                   *)

\* A completed chapter stays completed, with the sections it has.
LEMMA CompletedStays ==
  ASSUME Started, Sectioned, [NovelNext]_novelVars,
         NEW i \in Chapters, node[ChapterNode(i)] = "completed"
  PROVE  node'[ChapterNode(i)] = "completed" /\ texts'[i] = texts[i]
<1>1. DOMAIN node = PlanNodes /\ ChapterNode(i) \in PlanNodes /\ DOMAIN texts = Chapters
  BY NodeFacts DEF Started, Sectioned
<1>2. ASSUME NEW n \in PlanNodes, RunAgent(n) \/ AgentRaises(n)
      PROVE  node'[ChapterNode(i)] = "completed" /\ texts'[i] = texts[i]
  <2>1. n # ChapterNode(i) /\ UNCHANGED texts
    BY <1>2 DEF RunAgent, AgentRaises, IsNext, Ready
  <2>2. PICK v : node' = [node EXCEPT ![n] = v]
    BY <1>2 DEF RunAgent, AgentRaises
  <2> QED BY <1>1, <2>1, <2>2
<1>3. ASSUME NEW j \in Chapters, BeginChapter(j)
      PROVE  node'[ChapterNode(i)] = "completed" /\ texts'[i] = texts[i]
  <2>1. ChapterNode(j) # ChapterNode(i) /\ UNCHANGED texts
    BY <1>3 DEF BeginChapter, Ready
  <2>2. PICK v : node' = [node EXCEPT ![ChapterNode(j)] = v]
    BY <1>3 DEF BeginChapter
  <2> QED BY <1>1, <2>1, <2>2
<1>4. ASSUME NEW j \in Chapters, AskSection(j) \/ ModelReturns(j)
      PROVE  node'[ChapterNode(i)] = "completed" /\ texts'[i] = texts[i]
  BY <1>4 DEF AskSection, ModelReturns, nodeVars
<1>5. ASSUME NEW j \in Chapters, TakeSection(j) \/ FinishChapter(j)
      PROVE  node'[ChapterNode(i)] = "completed" /\ texts'[i] = texts[i]
  <2>1. j \in Writing
    BY <1>5 DEF TakeSection, FinishChapter, Started
  <2>2. j # i /\ ChapterNode(j) # ChapterNode(i)
    BY <2>1 DEF Writing
  <2>3. \/ UNCHANGED node
        \/ \E v : node' = [node EXCEPT ![ChapterNode(j)] = v]
    BY <1>5 DEF TakeSection, FinishChapter
  <2>4. UNCHANGED texts \/ \E v : texts' = [texts EXCEPT ![j] = v]
    BY <1>5 DEF TakeSection, FinishChapter
  <2> QED BY <1>1, <2>2, <2>3, <2>4
<1>6. CASE ServerChanges \/ EntriesAge \/ UNCHANGED novelVars
  BY <1>6 DEF ServerChanges, EntriesAge, novelVars, nodeVars
<1> QED BY <1>2, <1>3, <1>4, <1>5, <1>6 DEF NovelNext, ChapterSteps

LEMMA SavedStep ==
  ASSUME Started, Sectioned, Saved, [NovelNext]_novelVars
  PROVE  Saved'
<1>1. ASSUME UNCHANGED <<stored, files>>, reviewed' \subseteq Chapters PROVE Saved'
  BY <1>1, CompletedStays DEF Saved
<1>2. ASSUME NEW n \in PlanNodes, RunAgent(n) PROVE Saved'
  <2>1. UNCHANGED <<stored, files>>
    BY <1>2 DEF RunAgent
  <2>2. reviewed' \subseteq Chapters
    BY <1>2 DEF RunAgent, ReportQuality, Find, Saved
  <2> QED BY <1>1, <2>1, <2>2
<1>3. ASSUME NEW i \in Chapters, FinishChapter(i) PROVE Saved'
  <2>1. /\ stored' \subseteq stored \cup {i} /\ files' \subseteq files \cup {i}
        /\ UNCHANGED <<texts, reviewed>> /\ Len(texts[i]) = SectionCount
        /\ node' = [node EXCEPT ![ChapterNode(i)] = "completed"]
    BY <1>3 DEF FinishChapter, SaveChapter
  <2>2. node'[ChapterNode(i)] = "completed"
    BY <2>1, NodeFacts DEF Started
  <2> QED BY <2>1, <2>2, CompletedStays DEF Saved
<1>4. ASSUME NEW n \in PlanNodes, AgentRaises(n) PROVE Saved'
  BY <1>1, <1>4 DEF AgentRaises, Saved
<1>5. ASSUME NEW i \in Chapters,
             BeginChapter(i) \/ AskSection(i) \/ ModelReturns(i) \/ TakeSection(i)
      PROVE  Saved'
  BY <1>1, <1>5 DEF BeginChapter, AskSection, ModelReturns, TakeSection, nodeVars,
                    storeVars, Saved
<1>6. CASE ServerChanges \/ EntriesAge \/ UNCHANGED novelVars
  BY <1>1, <1>6 DEF ServerChanges, EntriesAge, novelVars, nodeVars, storeVars, Saved
<1> QED BY <1>2, <1>3, <1>4, <1>5, <1>6 DEF NovelNext, ChapterSteps

-----------------------------------------------------------------------------
(* What is made while MongoDB answers is kept.                               *)

LEMMA KeptNodes ==
  /\ CharacterNode \in PlanNodes /\ WorldNode \in PlanNodes /\ OutlineNode \in PlanNodes
  /\ CharacterNode # WorldNode /\ CharacterNode # OutlineNode /\ WorldNode # OutlineNode
  /\ \A i \in Chapters : ChapterNode(i) \notin {CharacterNode, WorldNode, OutlineNode}
  /\ PlanDeps[OutlineNode] = {CharacterNode, WorldNode}
  /\ PlanDeps[CharacterNode] = PlanDeps[WorldNode]
BY NodeFacts DEF CharacterNode, WorldNode, OutlineNode, AgentNames, Agent,
                 Dependencies, ChapterNode

\* A chapter begins after the outlines.
LEMMA OutlinesFirst ==
  ASSUME Started, NEW i \in Chapters,
         node[ChapterNode(i)] # "pending" \/ Ready(ChapterNode(i))
  PROVE  node[OutlineNode] = "completed"
<1> DEFINE S == Agent("chapter_summary")
<1>1. S \in PlanNodes /\ S \in PlanDeps[ChapterNode(i)] /\ ChapterNode(i) \in PlanNodes
  BY NodeFacts DEF AgentNames, Dependencies, ChapterNode
<1>2. node[S] = "completed"
  BY <1>1 DEF Started, Ready
<1>3. OutlineNode \in PlanDeps[S]
  BY <1>1, NodeFacts DEF Dependencies, Agent, OutlineNode
<1> QED BY <1>1, <1>2, <1>3 DEF Started

LEMMA ClientFacts ==
  ASSUME StoreTypes, Connected
  PROVE  /\ Opened \in {"unconnected", "connected"}
         /\ ~wasDown => Usable /\ Opened = "connected"
BY DEF StoreTypes, Connected, Opened, Usable

LEMMA CountFacts ==
  ASSUME NEW said
  PROVE  /\ OutlineCounts(said) \subseteq Counts /\ Counts \subseteq Nat
         /\ said \cap LengthWords = {} => OutlineCounts(said) = {ChapterCount}
BY NovelAssumption, ChapterCountAssumption DEF OutlineCounts, Counts, LengthWords

\* The conjuncts that a step outside the database keeps: no node of the three
\* moves, and a chapter is completed only if it is stored.
LEMMA KeptElse ==
  ASSUME Started, Kept, UNCHANGED <<lengthNamed, madeVars, wasDown, server>>,
         handle' \in {handle, Opened}, ownOutline' = ownOutline, stored \subseteq stored',
         \A n \in {CharacterNode, WorldNode, OutlineNode} : node'[n] = node[n],
         \A i \in Chapters : node'[ChapterNode(i)] # "pending" <=> node[ChapterNode(i)] # "pending",
         ~wasDown => \A i \in Chapters :
           node'[ChapterNode(i)] = "completed" =>
             node[ChapterNode(i)] = "completed" \/ i \in stored'
  PROVE  Kept'
<1>1. UNCHANGED <<graph, characters, places, outlines>>
  BY DEF madeVars
<1>2. StoreTypes' /\ Connected'
  BY <1>1, ClientFacts DEF Kept, StoreTypes, Connected
<1>3. GraphKept'
  BY <1>1 DEF Kept, GraphKept
<1>4. OutlinesKept'
  BY <1>1 DEF Kept, OutlinesKept
<1>5. OutlinesUsed'
  BY <1>1 DEF Kept, OutlinesUsed, OutlineFound
<1>6. MadeKept'
  BY <1>1 DEF Kept, MadeKept
<1> QED BY <1>2, <1>3, <1>4, <1>5, <1>6 DEF Kept

\* What an agent that is no chapter changes.
LEMMA RunFacts ==
  ASSUME Started, Routed, NEW n \in PlanNodes, RunAgent(n)
  PROVE  /\ node[n] = "pending" /\ node'[n] = "completed"
         /\ \A m \in PlanNodes : m # n => node'[m] = node[m]
         /\ \A i \in Chapters : node'[ChapterNode(i)] = node[ChapterNode(i)]
         /\ \E said : \E neo4j \in BOOLEAN : Store(MainHandler(n[1]), neo4j, said)
         /\ handle' = Opened /\ UNCHANGED <<ownOutline, stored, server, wasDown>>
<1>1. IsNext(n) /\ Ready(n) /\ n \notin PlanChapters /\ node[n] = "pending"
  BY DEF RunAgent, IsNext, Ready
<1>2. \A free : Route(n, MessageWords(n, Usable, free)) = MainHandler(n[1])
  BY <1>1, RouteMain
<1>3. \E said : \E neo4j \in BOOLEAN : Store(MainHandler(n[1]), neo4j, said)
  <2>1. PICK free \in SUBSET Said, neo4j \in BOOLEAN :
          Store(Route(n, MessageWords(n, Usable, free)), neo4j,
                MessageWords(n, Usable, free))
    BY DEF RunAgent
  <2> QED BY <1>2, <2>1
<1>4. /\ node' = [node EXCEPT ![n] = "completed"] /\ handle' = Opened
      /\ UNCHANGED <<ownOutline, stored, server, wasDown>>
  BY DEF RunAgent
<1>5. node'[n] = "completed" /\ \A m \in PlanNodes : m # n => node'[m] = node[m]
  BY <1>4 DEF Started
<1>6. \A i \in Chapters : node'[ChapterNode(i)] = node[ChapterNode(i)]
  BY <1>1, <1>5, ChaptersAre, NodeFacts
<1> QED BY <1>1, <1>3, <1>4, <1>5, <1>6

LEMMA CharactersKept ==
  ASSUME Started, Routed, Kept, RunAgent(CharacterNode)
  PROVE  Kept'
<1>1. /\ node[CharacterNode] = "pending" /\ node'[WorldNode] = node[WorldNode]
      /\ node'[OutlineNode] = node[OutlineNode]
      /\ \A i \in Chapters : node'[ChapterNode(i)] = node[ChapterNode(i)]
      /\ handle' = Opened /\ UNCHANGED <<ownOutline, stored, server, wasDown>>
      /\ node'[CharacterNode] = "completed"
  BY RunFacts, KeptNodes
<1>2. PICK neo4j \in BOOLEAN : GenerateCharacters(neo4j) /\ UNCHANGED lengthNamed
  <2>1. MainHandler(CharacterNode[1]) = "generate_request"
    BY DEF MainHandler, Dispatch, CharacterGeneratorRows, ModelOnly, CharacterNode, Agent
  <2> QED BY <2>1, RunFacts, KeptNodes DEF Store
<1>3. /\ graph' = "kept" /\ characters' \in BOOLEAN
      /\ UNCHANGED <<places, outlines, lengthNamed>>
  BY <1>2 DEF GenerateCharacters, WithGraph, SaveCharacter, Usable
<1>4. node[WorldNode] # "completed" /\ node[OutlineNode] # "completed"
  BY <1>1, KeptNodes DEF Kept, GraphKept, Started
<1>5. StoreTypes' /\ Connected'
  BY <1>1, <1>3, ClientFacts DEF Kept, StoreTypes, Connected
<1>6. GraphKept' /\ OutlinesKept' /\ MadeKept'
  BY <1>1, <1>3, <1>4 DEF Kept, GraphKept, OutlinesKept, MadeKept
<1>7. OutlinesUsed'
  <2>1. \A i \in Chapters : node[ChapterNode(i)] = "pending"
    BY <1>4, OutlinesFirst
  <2> QED BY <1>1, <1>3, <2>1 DEF Kept, OutlinesUsed, OutlineFound
<1> QED BY <1>5, <1>6, <1>7 DEF Kept

LEMMA WorldKept ==
  ASSUME Started, Routed, Kept, RunAgent(WorldNode)
  PROVE  Kept'
<1>1. /\ node[WorldNode] = "pending" /\ node'[CharacterNode] = node[CharacterNode]
      /\ node'[OutlineNode] = node[OutlineNode]
      /\ \A i \in Chapters : node'[ChapterNode(i)] = node[ChapterNode(i)]
      /\ handle' = Opened /\ UNCHANGED <<ownOutline, stored, server, wasDown>>
  BY RunFacts, KeptNodes
<1>2. PICK neo4j \in BOOLEAN : BuildWorld(neo4j) /\ UNCHANGED lengthNamed
  <2>1. MainHandler(WorldNode[1]) = "build_request"
    BY DEF MainHandler, Dispatch, WorldBuilderRows, ModelOnly, WorldNode, Agent
  <2> QED BY <2>1, RunFacts, KeptNodes DEF Store
<1>3. /\ graph' = "kept" /\ places' \in BOOLEAN
      /\ UNCHANGED <<characters, outlines, lengthNamed>>
      /\ places' = (WithGraph(neo4j) /\ Usable)
  BY <1>2 DEF BuildWorld, WithGraph, SaveLocation, Usable
<1>4. node[OutlineNode] # "completed"
  BY <1>1, KeptNodes DEF Started
<1>5. node[CharacterNode] # "pending"
  <2>1. IsNext(WorldNode)
    BY DEF RunAgent
  <2>2. node[CharacterNode] = "pending" => Ready(CharacterNode)
    BY <2>1, KeptNodes DEF IsNext, Ready
  <2>3. ~Ready(CharacterNode)
    BY <2>1, KeptNodes, CharactersFirst DEF IsNext, CharacterNode, WorldNode
  <2> QED BY <2>2, <2>3
<1>6. StoreTypes' /\ Connected'
  BY <1>1, <1>3, ClientFacts DEF Kept, StoreTypes, Connected
<1>7. GraphKept' /\ OutlinesKept'
  BY <1>1, <1>3, <1>4, <1>5 DEF Kept, GraphKept, OutlinesKept
<1>8. MadeKept'
  <2>1. ~wasDown /\ node[CharacterNode] = "completed" => places'
    BY <1>3, ClientFacts DEF Kept, GraphKept, WithGraph
  <2> QED BY <1>1, <2>1 DEF Kept, MadeKept
<1>9. OutlinesUsed'
  <2>1. \A i \in Chapters : node[ChapterNode(i)] = "pending"
    BY <1>4, OutlinesFirst
  <2> QED BY <1>1, <1>3, <2>1 DEF Kept, OutlinesUsed, OutlineFound
<1> QED BY <1>6, <1>7, <1>8, <1>9 DEF Kept

LEMMA OutlinesAreKept ==
  ASSUME Started, Routed, Kept, RunAgent(OutlineNode)
  PROVE  Kept'
<1>1. /\ node[OutlineNode] = "pending" /\ node'[CharacterNode] = node[CharacterNode]
      /\ node'[WorldNode] = node[WorldNode]
      /\ \A i \in Chapters : node'[ChapterNode(i)] = node[ChapterNode(i)]
      /\ handle' = Opened /\ UNCHANGED <<ownOutline, stored, server, wasDown>>
  BY RunFacts, KeptNodes
<1>2. PICK neo4j, said : neo4j \in BOOLEAN /\ PlanOutlines(neo4j, said)
  <2>1. MainHandler(OutlineNode[1]) = "plan_request"
    BY DEF MainHandler, Dispatch, OutlinePlannerRows, ModelOnly, OutlineNode, Agent
  <2> QED BY <2>1, RunFacts, KeptNodes DEF Store
<1>3. PICK count \in OutlineCounts(said) :
        /\ graph' = "kept" /\ UNCHANGED <<characters, places>>
        /\ lengthNamed' = (said \cap LengthWords # {})
        /\ outlines' = {i \in 1 .. count : (i > 1 \/ WithGraph(neo4j)) /\ Usable}
  BY <1>2 DEF PlanOutlines, SaveOutline
<1>0. /\ count \in Counts /\ count \in Nat /\ lengthNamed' \in BOOLEAN
      /\ ~lengthNamed' => count = ChapterCount
  <2>1. count \in Counts /\ count \in Nat
    BY <1>3, CountFacts
  <2>2. lengthNamed' = (said \cap LengthWords # {})
    BY <1>3
  <2>3. CASE said \cap LengthWords = {}
    <3>1. count = ChapterCount
      BY <2>3, CountFacts
    <3> QED BY <2>1, <2>2, <2>3, <3>1
  <2>4. CASE said \cap LengthWords # {}
    <3>1. lengthNamed' = TRUE
      BY <2>2, <2>4
    <3> QED BY <2>1, <3>1
  <2> QED BY <2>3, <2>4
<1>4. node[CharacterNode] = "completed" /\ graph = "kept"
  <2>1. Ready(OutlineNode)
    BY DEF RunAgent, IsNext
  <2> QED BY <2>1, KeptNodes DEF Ready, Kept, GraphKept
<1>5. ~wasDown => outlines' = 1 .. count
  BY <1>0, <1>3, <1>4, ClientFacts DEF Kept, WithGraph
<1>6. outlines' \subseteq Nat
  BY <1>0, <1>3
<1>7. StoreTypes' /\ Connected'
  BY <1>0, <1>1, <1>3, <1>6, ClientFacts DEF Kept, StoreTypes, Connected
<1>8. GraphKept' /\ OutlinesKept' /\ MadeKept'
  BY <1>0, <1>1, <1>3, <1>5 DEF Kept, GraphKept, OutlinesKept, MadeKept
<1>9. OutlinesUsed'
  <2>1. \A i \in Chapters : node[ChapterNode(i)] = "pending"
    BY <1>1, OutlinesFirst
  <2> QED BY <1>1, <2>1 DEF Kept, OutlinesUsed, OutlineFound
<1> QED BY <1>7, <1>8, <1>9 DEF Kept

\* The other agents store nothing.
LEMMA OthersKept ==
  ASSUME Started, Routed, Kept, NEW n \in PlanNodes, RunAgent(n),
         n \notin {CharacterNode, WorldNode, OutlineNode}
  PROVE  Kept'
<1>1. PICK name \in AgentNames : n = Agent(name)
  BY NodeFacts DEF RunAgent, IsNext
<1>2. name \notin {"character_generator", "world_builder", "outline_planner"}
  BY <1>1 DEF CharacterNode, WorldNode, OutlineNode
<1>3. MainHandler(n[1]) \notin {"generate_request", "build_request", "plan_request"}
  <2>1. n[1] = name
    BY <1>1 DEF Agent
  <2> QED BY <1>2, <2>1 DEF AgentNames, MainHandler, Dispatch, ModelOnly,
             HookGeneratorRows, QualityCheckerRows, HumanizerRows
<1>4. UNCHANGED <<madeVars, lengthNamed>>
  BY <1>3, RunFacts DEF Store
<1> QED BY <1>4, RunFacts, KeptNodes, KeptElse DEF Kept, MadeKept

LEMMA RaiseKept ==
  ASSUME Started, Kept, NEW n \in PlanNodes, AgentRaises(n)
  PROVE  Kept'
<1>1. /\ IsNext(n) /\ n \notin PlanChapters /\ node[n] = "pending"
      /\ graph' \in {graph, "kept"} /\ handle' = Opened
      /\ node' = [node EXCEPT ![n] = "failed"]
      /\ UNCHANGED <<lengthNamed, ownOutline, server, characters, places,
                     outlines, stored, wasDown>>
  BY DEF AgentRaises, IsNext, Ready
<1>2. node'[n] = "failed" /\ \A m \in PlanNodes : m # n => node'[m] = node[m]
  BY <1>1 DEF Started
<1>3. \A i \in Chapters : node'[ChapterNode(i)] = node[ChapterNode(i)]
  BY <1>1, <1>2, ChaptersAre, NodeFacts
<1>4. \A m \in PlanNodes : /\ node'[m] = "completed" => node[m] = "completed"
                           /\ node[m] # "pending" => node'[m] # "pending"
  BY <1>1, <1>2
<1>5. StoreTypes' /\ Connected'
  BY <1>1, ClientFacts DEF Kept, StoreTypes, Connected
<1>6. GraphKept' /\ OutlinesKept' /\ MadeKept'
  BY <1>1, <1>4, KeptNodes, NodeFacts DEF Kept, GraphKept, OutlinesKept, MadeKept
<1>7. OutlinesUsed'
  BY <1>1, <1>3 DEF Kept, OutlinesUsed, OutlineFound
<1> QED BY <1>5, <1>6, <1>7 DEF Kept

\* A thread that begins finds the outline of its chapter.
LEMMA BeginKept ==
  ASSUME Started, Routed, Kept, NEW i \in Chapters, BeginChapter(i)
  PROVE  Kept'
<1> DEFINE n == ChapterNode(i)
<1>1. n \in PlanNodes /\ Ready(n) /\ n[1] = "content_generator"
  BY NodeFacts DEF BeginChapter, ChapterNode
<1>2. /\ node' = [node EXCEPT ![n] = "executing"] /\ handle' = Opened
      /\ ownOutline' = ownOutline \cup IF Usable THEN {i} \cap outlines ELSE {}
      /\ UNCHANGED <<lengthNamed, server, madeVars, stored, wasDown>>
  <2>1. \A free : Route(n, MessageWords(n, Usable, free)) = MainHandler("content_generator")
    BY <1>1, RouteMain
  <2> QED BY <2>1 DEF BeginChapter
<1>3. node'[n] = "executing" /\ \A m \in PlanNodes : m # n => node'[m] = node[m]
  BY <1>1, <1>2 DEF Started
<1>4. node[OutlineNode] = "completed"
  BY <1>1, OutlinesFirst
<1>5. node'[CharacterNode] = node[CharacterNode] /\ node'[WorldNode] = node[WorldNode]
      /\ node'[OutlineNode] = node[OutlineNode]
      /\ \A j \in Chapters : j # i => node'[ChapterNode(j)] = node[ChapterNode(j)]
  BY <1>3, KeptNodes, NodeFacts
<1>6. UNCHANGED <<graph, characters, places, outlines>>
  BY <1>2 DEF madeVars
<1>7. StoreTypes' /\ Connected'
  BY <1>2, <1>6, ClientFacts DEF Kept, StoreTypes, Connected
<1>8. GraphKept' /\ OutlinesKept' /\ MadeKept'
  BY <1>2, <1>3, <1>5, <1>6 DEF Kept, GraphKept, OutlinesKept, MadeKept
<1>9. OutlinesUsed'
  <2>1. ~wasDown /\ ~lengthNamed => i \in ownOutline'
    <3>1. ~wasDown /\ ~lengthNamed => outlines = 1 .. ChapterCount
      BY <1>4 DEF Kept, OutlinesKept
    <3> QED BY <1>2, <3>1, ClientFacts DEF Kept, Chapters
  <2> QED BY <1>2, <1>3, <1>5, <1>6, <2>1 DEF Kept, OutlinesUsed, OutlineFound
<1> QED BY <1>7, <1>8, <1>9 DEF Kept

\* A chapter is completed and stored in one step.
LEMMA FinishKept ==
  ASSUME Started, Kept, NEW i \in Chapters, FinishChapter(i)
  PROVE  Kept'
<1>1. /\ node[ChapterNode(i)] = "executing" /\ handle' = Opened
      /\ node' = [node EXCEPT ![ChapterNode(i)] = "completed"]
      /\ stored' = stored \cup IF Usable THEN {i} ELSE {}
      /\ UNCHANGED <<lengthNamed, ownOutline, server, madeVars, wasDown>>
  BY DEF FinishChapter, SaveChapter, Writing
<1>2. /\ node'[ChapterNode(i)] = "completed"
      /\ \A m \in PlanNodes : m # ChapterNode(i) => node'[m] = node[m]
  BY <1>1, NodeFacts DEF Started
<1>3. /\ \A j \in Chapters : j # i => node'[ChapterNode(j)] = node[ChapterNode(j)]
      /\ \A m \in {CharacterNode, WorldNode, OutlineNode} : node'[m] = node[m]
  BY <1>2, KeptNodes, NodeFacts
<1>4. ~wasDown => i \in stored'
  BY <1>1, ClientFacts DEF Kept
<1> QED BY <1>1, <1>2, <1>3, <1>4, KeptElse

LEMMA KeptStep ==
  ASSUME Started, Routed, Sectioned, Kept, [NovelNext]_novelVars
  PROVE  Kept'
<1>1. ASSUME NEW n \in PlanNodes, RunAgent(n) PROVE Kept'
  BY <1>1, CharactersKept, WorldKept, OutlinesAreKept, OthersKept
<1>2. ASSUME NEW i \in Chapters, TakeSection(i) PROVE Kept'
  <2>1. /\ UNCHANGED <<lengthNamed, ownOutline, storeVars>>
        /\ \/ UNCHANGED node
           \/ node' = [node EXCEPT ![ChapterNode(i)] = "failed"]
    BY <1>2 DEF TakeSection
  <2>2. node[ChapterNode(i)] = "executing"
    BY <1>2 DEF TakeSection, Started, Writing
  <2>3. \A m \in PlanNodes : \/ node'[m] = node[m]
                             \/ m = ChapterNode(i) /\ node'[m] = "failed"
    BY <2>1 DEF Started
  <2> QED BY <2>1, <2>2, <2>3, KeptNodes, NodeFacts, KeptElse DEF storeVars
<1>3. ASSUME UNCHANGED <<nodeVars, storeVars>> PROVE Kept'
  BY <1>3, KeptElse DEF nodeVars, storeVars
<1>4. ASSUME NEW i \in Chapters, AskSection(i) \/ ModelReturns(i) PROVE Kept'
  BY <1>3, <1>4 DEF AskSection, ModelReturns
<1>5. CASE EntriesAge \/ UNCHANGED novelVars
  BY <1>3, <1>5 DEF EntriesAge, novelVars
<1>6. CASE ServerChanges
  <2>1. /\ UNCHANGED <<node, lengthNamed, ownOutline, handle, graph, characters, places,
                       outlines, stored>>
        /\ wasDown' = TRUE /\ server' \in {"up", "down"}
    BY <1>6 DEF ServerChanges, nodeVars, madeVars
  <2>2. StoreTypes' /\ Connected' /\ GraphKept' /\ OutlinesKept' /\ MadeKept'
    BY <2>1 DEF Kept, StoreTypes, Connected, GraphKept, OutlinesKept, MadeKept
  <2>3. OutlinesUsed'
    BY <2>1 DEF Kept, OutlinesUsed, OutlineFound
  <2> QED BY <2>2, <2>3 DEF Kept
<1> QED BY <1>1, <1>2, <1>4, <1>5, <1>6, RaiseKept, BeginKept, FinishKept
        DEF NovelNext, ChapterSteps

-----------------------------------------------------------------------------
(* The theorems.                                                             *)

LEMMA NovelInitial == NovelInit => NovelInv
<1> SUFFICES ASSUME NovelInit PROVE NovelInv
  OBVIOUS
<1>1. Started
  BY DEF NovelInit, LlmInit, Idle, Started
<1>2. Routed
  BY DEF NovelInit, Routed, MainHandlers
<1>3. Sectioned
  <2>1. /\ \A k \in Prompts : held[k] = Nothing
        /\ held \in [Prompts -> Texts \cup {Nothing}] /\ lru = <<>> /\ old = {}
        /\ written = [k \in Prompts |-> 0] /\ call = [i \in Chapters |-> Idle]
        /\ texts = [i \in Chapters |-> <<>>]
    BY DEF NovelInit, LlmInit
  <2>2. Cached = {}
    BY <2>1 DEF Cached
  <2>3. Cardinality(Cached) <= Capacity
    BY <2>2, FS_EmptySet, NovelAssumption
  <2>4. CacheFits
    BY <2>1, <2>2, <2>3 DEF CacheFits, Distinct, ToSet
  <2>5. call \in [Chapters -> CallType] /\ \A i \in Chapters : call[i].at = "idle"
    BY <2>1 DEF Idle, CallType
  <2>6. written \in [Prompts -> 0 .. MaxTexts]
    BY <2>1, NovelAssumption
  <2>7. /\ texts \in [Chapters -> Seq(Texts)]
        /\ \A i \in Chapters : Len(texts[i]) = 0
    BY <2>1
  <2> QED BY <2>2, <2>4, <2>5, <2>6, <2>7, SectionFacts DEF Sectioned
<1>4. Saved
  BY DEF NovelInit, Saved
<1>5. Kept
  <2>1. StoreTypes /\ Connected /\ OutlinesUsed
    BY NodeFacts DEF NovelInit, StoreTypes, Connected, OutlinesUsed, OutlineFound
  <2>2. GraphKept /\ OutlinesKept /\ MadeKept
    BY KeptNodes, NodeFacts DEF NovelInit, GraphKept, OutlinesKept, MadeKept
  <2> QED BY <2>1, <2>2 DEF Kept
<1> QED BY <1>1, <1>2, <1>3, <1>4, <1>5 DEF NovelInv

LEMMA NovelStep == NovelInv /\ [NovelNext]_novelVars => NovelInv'
BY StartedStep, RoutedStep, SectionedStep, SavedStep, KeptStep DEF NovelInv

LEMMA NovelInvariant == NovelSpec => []NovelInv
BY NovelInitial, NovelStep, PTL DEF NovelSpec

\* Every variable keeps to its values: the cache to its capacity, a chapter to
\* its sections, what is saved to chapters.
THEOREM NovelTypes == NovelSpec => []NovelTypeOK
<1>1. NovelInv => NovelTypeOK
  <2> SUFFICES ASSUME NovelInv PROVE NovelTypeOK
    OBVIOUS
  <2>1. LlmTypeOK
    BY DEF NovelInv, Sectioned, CacheFits, CallType, LlmTypeOK, Distinct
  <2> QED BY <2>1 DEF NovelInv, NovelTypeOK, Started, Routed, Sectioned, Saved, Kept,
                     StoreTypes, OutlinesUsed
<1> QED BY <1>1, NovelInvariant, PTL

\* Whatever the request, the answers and the chapters say, and however the
\* chapters interleave, process() of every agent with several handlers picks
\* the one that does its work.
THEOREM MainHandlersHold == NovelSpec => []MainHandlers
<1>1. NovelInv => MainHandlers
  BY DEF NovelInv, Routed
<1> QED BY <1>1, NovelInvariant, PTL

\* While MongoDB answers, and unless the outline planner was told a number of
\* chapters of its own, it has left an outline for every chapter that is begun.
THEOREM OutlineFoundHolds == NovelSpec => []OutlineFound
<1>1. NovelInv => OutlineFound
  BY DEF NovelInv, Kept, OutlinesUsed
<1> QED BY <1>1, NovelInvariant, PTL

\* A chapter in the store or in a file has all its sections, each a text the
\* model wrote for that chapter: the shared cache never mixes two chapters up.
THEOREM StoredWholeHolds == NovelSpec => []StoredWhole
<1>1. NovelInv => StoredWhole
  <2> SUFFICES ASSUME NovelInv, NEW i \in stored \cup files
               PROVE  /\ node[ChapterNode(i)] = "completed"
                      /\ \A s \in 1 .. SectionCount :
                           /\ texts[i][s][1] = <<i, SectionTargets[s]>>
                           /\ texts[i][s][2] > 0
    BY DEF StoredWhole
  <2>1. i \in Chapters /\ node[ChapterNode(i)] = "completed" /\ Len(texts[i]) = SectionCount
    BY DEF NovelInv, Saved
  <2> QED BY <2>1 DEF NovelInv, Sectioned, Prompt
<1> QED BY <1>1, NovelInvariant, PTL

\* As long as MongoDB answers, completed chapters are stored, and so is all that
\* the agents made before them, whatever becomes of Neo4j.
THEOREM StoreKeepsHolds == NovelSpec => []StoreKeeps
<1>1. NovelInv => StoreKeeps
  BY DEF NovelInv, Kept, MadeKept, OutlinesKept, Counts, StoreKeeps, CharacterNode,
         WorldNode, OutlineNode
<1> QED BY <1>1, NovelInvariant, PTL
=============================================================================
