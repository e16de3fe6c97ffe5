--------------------------- MODULE NovelPipeline ---------------------------
(* One novel written by the agents of the plan: what message the coordinator *)
(* builds for a node (agents/coordinator.py), which handler of the agent the *)
(* words of the message select, the chapters written section by section by a *)
(* pool of threads that share the cache of LlmCalls, and the MongoDB client  *)
(* of PersistenceManager through which outlines and chapters are stored.     *)
EXTENDS WorkflowPlan

CONSTANTS
  MaxWorkers,        \* chapters written at a time
  WordsPerChapter,   \* "Word Count per Chapter" of the request
  LongOutline,       \* chapters outlined for a request that says "long"
  ShortOutline,      \* ... that says "short"
  DefaultOutline,    \* ... when the message is taken for JSON
  OwnOutlines,       \* numbers of chapters an answer may give by itself
  Said,              \* words a request, an answer or a chapter may contain
  Capacity,          \* LRUCache.capacity
  MaxTexts           \* bound: texts the client writes for one key

ASSUME NovelAssumption ==
  /\ MaxWorkers \in Nat \ {0}
  /\ WordsPerChapter \in Nat \ {0}
  /\ {LongOutline, ShortOutline, DefaultOutline} \cup OwnOutlines \subseteq Nat
  /\ Said \subseteq {"long", "short", "json", "chapters:", "generate", "chaos", "list"}
  /\ Capacity \in Nat \ {0} /\ MaxTexts \in Nat

VARIABLES
  node,         \* DAGNode.status
  route,        \* handler that answered the node's message, "none" before
  lengthNamed,  \* outline_planner's message gave its number of chapters
  server,       \* whether MongoDB answers
  handle,       \* PersistenceManager._mongodb_client: absent, without a
                \* connection, or connected
  graph,        \* PersistenceManager._neo4j_client: absent, or kept whether it
                \* is connected or not
  characters,   \* character_profiles has documents of the task
  places,       \* world_locations and world_factions have
  outlines,     \* chapters with a document in chapter_outlines
  stored,       \* chapters with a document in chapters
  files,        \* chapters saved to a file instead
  ownOutline,   \* chapters whose thread found their own outline
  texts,        \* sections each chapter's thread has so far
  reviewed,     \* stored chapters quality_checker has read
  wasDown,      \* MongoDB has not answered at some moment
  held, lru, old, call, written   \* see LlmCalls

Chapters == 1 .. ChapterCount

-----------------------------------------------------------------------------
(* The sections of a chapter and what they ask the model.                    *)

AtMost(m, k) == IF k > m THEN m ELSE k
AtLeast(m, k) == IF k < m THEN m ELSE k

SectionCount == AtLeast(1, AtMost(3, WordsPerChapter \div 600))

\* Equal sections, the last one with the words that are left over.
SectionTargets ==
  LET size == WordsPerChapter \div SectionCount
  IN  [s \in 1 .. SectionCount |->
         IF s < SectionCount THEN size
                             ELSE WordsPerChapter - size * (SectionCount - 1)]

Prompts == Chapters \X ToSet(SectionTargets)

\* Mutant of Prompt: the chapter is not part of what is asked.
PromptOfAny(i, s) == <<1, SectionTargets[s]>>

\* The prompt names the chapter and the words wanted, not the section.
Prompt(i, s) == <<i, SectionTargets[s]>>

INSTANCE LlmCalls WITH Callers <- Chapters, Keys <- Prompts

callVars == <<held, lru, old, call, written>>
madeVars == <<graph, characters, places, outlines>>
storeVars == <<server, handle, madeVars, stored, files, wasDown>>
nodeVars == <<node, route, lengthNamed, ownOutline, texts, reviewed>>
novelVars == <<nodeVars, storeVars, callVars>>

NovelTypeOK ==
  /\ node \in [PlanNodes -> {"pending", "executing", "completed", "failed"}]
  /\ DOMAIN route = PlanNodes
  /\ server \in {"up", "down"}
  /\ handle \in {"absent", "unconnected", "connected"}
  /\ graph \in {"absent", "kept"}
  /\ {lengthNamed, characters, places, wasDown} \subseteq BOOLEAN
  /\ outlines \subseteq Nat
  /\ ownOutline \subseteq Chapters \cap outlines
  /\ UNION {stored, files, reviewed} \subseteq Chapters
  /\ texts \in [Chapters -> Seq(Texts)]
  /\ \A i \in Chapters : Len(texts[i]) <= SectionCount
  /\ LlmTypeOK

NovelInit ==
  /\ node = [n \in PlanNodes |-> "pending"]
  /\ route = [n \in PlanNodes |-> "none"]
  /\ lengthNamed = FALSE
  /\ server \in {"up", "down"} /\ wasDown = (server = "down")
  /\ handle = "absent"
  /\ graph = "absent"
  /\ characters = FALSE /\ places = FALSE
  /\ outlines = {} /\ ownOutline = {}
  /\ stored = {} /\ files = {} /\ reviewed = {}
  /\ texts = [i \in Chapters |-> <<>>]
  /\ LlmInit

-----------------------------------------------------------------------------
(* Messages and handlers.                                                    *)

\* Words of _build_agent_context for the agent.
BaseWords(name) ==
  CASE name = "outline_planner" -> {"create", "chapter", "outline", "structure"}
    [] name = "character_generator" -> {"generate", "character"}
    [] name = "world_builder" -> {"build", "world", "magic"}
    [] name = "hook_generator" -> {"generate", "hook"}
    [] name = "content_generator" -> {"content", "chapter"}
    [] name = "quality_checker" -> {"quality", "check", "generate", "content"}
    [] name = "humanizer" -> {"humanize"}
    [] OTHER -> {}

\* Words of the Task Context every message carries.
TaskWords == {"context", "chapter", "style"}

\* Words that are in the answer of a handler whatever the model writes.
ResultWords(n) ==
  IF route[n] \in {"generate_request", "generate_hook", "generate_content"}
  THEN {"generate"} ELSE {}

\* The answers of the nodes n depends on, and of character_generator.
Earlier(n) ==
  PlanDeps[n] \cup IF n[1] \in {"character_generator", "config_enhancer"}
                   THEN {} ELSE {Agent("character_generator")}

\* The words of n's message, free among them: those that the request, the
\* texts of the answers and the chapter before it happen to bring along.
MessageWords(n, usable, free) ==
  BaseWords(n[1]) \cup TaskWords \cup free
    \cup UNION {ResultWords(m) : m \in {k \in Earlier(n) : node[k] = "completed"}}
    \cup IF usable /\ characters
            /\ n[1] \notin {"character_generator", "config_enhancer"}
         THEN {"generate"} ELSE {}

\* The rows of each process() that the words of a message could select, in the
\* order the code tries them: a word of each set is needed, and the handler.
OutlinePlannerRows ==
  << <<{{"plan", "create", "outline"}}, "plan_request">>,
     <<{{"structure"}}, "structure_request">>,
     <<{{"chapter"}}, "chapter_request">>, <<{}, "plan_request">> >>

CharacterGeneratorRows ==
  << <<{{"generate", "create", "character"}}, "generate_request">>,
     <<{{"list"}}, "list_request">>, <<{}, "generate_request">> >>

WorldBuilderRows ==
  << <<{{"build", "create", "world"}}, "build_request">>,
     <<{{"magic"}}, "magic_request">>,
     <<{{"list"}}, "list_request">>, <<{}, "build_request">> >>

HookGeneratorRows ==
  << <<{{"hook"}, {"generate", "create"}}, "generate_hook">>,
     <<{}, "generate_hook">> >>

ContentGeneratorRows ==
  << <<{{"generate"}, {"content", "chapter"}}, "generate_content">>,
     <<{{"style"}}, "style_command">>,
     <<{{"chaos"}}, "chaos_command">>,
     <<{{"context"}}, "context_command">>, <<{}, "generate_content">> >>

QualityCheckerRows ==
  << <<{{"check", "quality"}, {"report", "generate"}}, "generate_report">>,
     <<{{"check", "quality"}, {"list"}}, "list_issues">>,
     <<{{"check", "quality"}, {"style"}}, "style_check">>,
     <<{}, "generate_report">> >>

HumanizerRows ==
  << <<{{"polish", "humanize"}, {"chapter"}}, "polish_chapters">>,
     <<{}, "polish_all">> >>

\* The agents without handlers of their own: process() asks the model at once.
ModelOnly == {"config_enhancer", "chapter_summary", "conflict_generator"}

\* The class _create_agent imports from agents/implementations.py decides.
Dispatch(name) ==
  CASE name \in ModelOnly -> << <<{}, "process">> >>
    [] name = "outline_planner" -> OutlinePlannerRows
    [] name = "character_generator" -> CharacterGeneratorRows
    [] name = "world_builder" -> WorldBuilderRows
    [] name = "hook_generator" -> HookGeneratorRows
    [] name = "content_generator" -> ContentGeneratorRows
    [] name = "quality_checker" -> QualityCheckerRows
    [] name = "humanizer" -> HumanizerRows

Selects(row, said) == \A alternatives \in row[1] : alternatives \cap said # {}

\* Mutant of Route: the last row that matches answers.
RouteLast(n, said) ==
  LET rows == Dispatch(n[1])
      fit == {k \in DOMAIN rows : Selects(rows[k], said)}
  IN  IF fit = {} THEN "general" ELSE rows[CHOOSE k \in fit : \A j \in fit : j <= k][2]

\* The first row that matches answers.
Route(n, said) ==
  LET rows == Dispatch(n[1])
      fit == {k \in DOMAIN rows : Selects(rows[k], said)}
  IN  IF fit = {} THEN "general" ELSE rows[CHOOSE k \in fit : \A j \in fit : k <= j][2]

\* The handler that does the work the plan gives the agent.
MainHandler(name) == Dispatch(name)[1][2]

-----------------------------------------------------------------------------
(* The MongoDB client.                                                       *)

\* Mutant of Opened: the client is built and never connected.
OpenedUnconnected == IF handle # "absent" THEN handle ELSE "unconnected"

\* The first use of mongodb_client builds the client; one that could not
\* connect is kept. Only PersistenceManager.health_check would connect it
\* again, and the program never calls it.
Opened ==
  IF handle # "absent" THEN handle
  ELSE IF server = "up" THEN "connected" ELSE "unconnected"

\* A connected client reads and writes while the server answers. Without a
\* connection every operation raises, and the caller goes on without it.
Usable == Opened = "connected" /\ server = "up"

\* The server stops answering, or answers again.
ServerChanges ==
  /\ server' = IF server = "up" THEN "down" ELSE "up"
  /\ wasDown' = TRUE
  /\ UNCHANGED <<nodeVars, handle, madeVars, stored, files, callVars>>

\* Mutant of SaveChapter: chapters are counted from zero.
SaveChapterFromZero(i) ==
  /\ handle' = Opened
  /\ stored' = stored \cup IF Usable THEN {i - 1} ELSE {}
  /\ files' = files \cup IF handle = "absent" /\ server = "down" THEN {i - 1} ELSE {}

\* save_chapter: the file is written only by the call whose use of the client
\* is the first one and fails; any other failure is printed and forgotten.
SaveChapter(i) ==
  /\ handle' = Opened
  /\ stored' = stored \cup IF Usable THEN {i} ELSE {}
  /\ files' = files \cup IF handle = "absent" /\ server = "down" THEN {i} ELSE {}

-----------------------------------------------------------------------------
(* The nodes that are no chapters: one after the other, nothing beside them. *)

Ready(n) == node[n] = "pending" /\ \A d \in PlanDeps[n] : node[d] = "completed"

Writing == {i \in Chapters : node[ChapterNode(i)] = "executing"}

\* The words of a message that make outline_planner count otherwise.
LengthWords == {"long", "short", "json", "chapters:"}

\* Mutant of OutlineCounts: the range ends one chapter early.
OutlineCountsExclusive(said) ==
  IF "json" \in said THEN {DefaultOutline} \cup OwnOutlines
  ELSE IF "long" \in said THEN {LongOutline}
  ELSE IF "short" \in said THEN {ShortOutline}
  ELSE {ChapterCount - 1} \cup IF "chapters:" \in said THEN OwnOutlines ELSE {}

\* How many chapters outline_planner plans: the Task Context says how many
\* are asked for, a later "Chapters:" line of an answer may say otherwise, the
\* words for a length override both, and JSON hides all of it but its own
\* max_chapters.
OutlineCounts(said) ==
  IF "json" \in said THEN {DefaultOutline} \cup OwnOutlines
  ELSE IF "long" \in said THEN {LongOutline}
  ELSE IF "short" \in said THEN {ShortOutline}
  ELSE {ChapterCount} \cup IF "chapters:" \in said THEN OwnOutlines ELSE {}

\* The content id quality_checker reads from its message: the messages of the
\* coordinator have no content_id parameter.
ContentId == ""

\* The chapters of nums with a document under the id; all documents of the
\* novel are under the id of its task.
Find(id, nums) == {i \in nums \cap stored : id = "task"}

\* neo4j is whether the first use of neo4j_client connects: the client is kept
\* in any case, and later uses find it.
WithGraph(neo4j) == graph = "kept" \/ neo4j

\* Whether the documents come into MongoDB: with both clients they are written
\* there first, and whatever Neo4j then answers they stay; without one of them
\* they go to a file. mongodb_client is never missing here: the message of the
\* node was its first use.
SaveCharacter(both) == both /\ Usable
SaveLocation(both) == both /\ Usable

\* save_outline asks for the clients chapter by chapter: the use that fails to
\* connect is the first chapter's.
SaveOutline(i, both) == (i > 1 \/ both) /\ Usable

\* What the main handlers leave. The first two skip saving without the clients.
GenerateCharacters(neo4j) ==
  /\ graph' = "kept"
  /\ characters' = (WithGraph(neo4j) /\ SaveCharacter(TRUE))
  /\ UNCHANGED <<places, outlines>>

BuildWorld(neo4j) ==
  /\ graph' = "kept"
  /\ places' = (WithGraph(neo4j) /\ SaveLocation(TRUE))
  /\ UNCHANGED <<characters, outlines>>

PlanOutlines(neo4j, said) ==
  /\ graph' = "kept"
  /\ lengthNamed' = (said \cap LengthWords # {})
  /\ \E count \in OutlineCounts(said) :
       outlines' = {i \in 1 .. count : SaveOutline(i, WithGraph(neo4j))}
  /\ UNCHANGED <<characters, places>>

\* The other agents of the plan store nothing, and neither does a handler that
\* is not the agent's main one.
Store(handler, neo4j, said) ==
  \/ handler = "generate_request" /\ GenerateCharacters(neo4j) /\ UNCHANGED lengthNamed
  \/ handler = "build_request" /\ BuildWorld(neo4j) /\ UNCHANGED lengthNamed
  \/ handler = "plan_request" /\ PlanOutlines(neo4j, said)
  \/ /\ handler \notin {"generate_request", "build_request", "plan_request"}
     /\ UNCHANGED <<madeVars, lengthNamed>>

\* Without a chapters parameter the report asks for the first three.
ReportQuality(handler) ==
  reviewed' = IF handler = "generate_report" /\ Usable
              THEN Find(ContentId, 1 .. 3) ELSE reviewed

\* The agents run one after the other, in the order of the plan.
IsNext(n) ==
  /\ n \notin PlanChapters
  /\ Ready(n) /\ Writing = {}
  /\ \A m \in PlanNodes : Ready(m) => PlanRank[n] <= PlanRank[m]

\* The agent answers.
RunAgent(n) ==
  /\ IsNext(n)
  /\ handle' = Opened
  /\ \E free \in SUBSET Said, neo4j \in BOOLEAN :
       LET said == MessageWords(n, Usable, free)
           handler == Route(n, said)
       IN  /\ route' = [route EXCEPT ![n] = handler]
           /\ Store(handler, neo4j, said)
           /\ ReportQuality(handler)
  /\ node' = [node EXCEPT ![n] = "completed"]
  /\ UNCHANGED <<ownOutline, texts, server, stored, files, wasDown, callVars>>

\* The agent raises, before or after it used the clients.
AgentRaises(n) ==
  /\ IsNext(n)
  /\ graph' \in {graph, "kept"}
  /\ handle' = Opened
  /\ node' = [node EXCEPT ![n] = "failed"]
  /\ UNCHANGED <<route, lengthNamed, ownOutline, texts, reviewed, server, characters,
                 places, outlines, stored, files, wasDown, callVars>>

-----------------------------------------------------------------------------
(* The chapters.                                                             *)

\* A pool thread takes the next chapter, builds its message and looks for its
\* outline. Any other handler than the main one answers at once.
BeginChapter(i) ==
  LET n == ChapterNode(i)
  IN  /\ Ready(n)
      /\ \A j \in 1 .. i - 1 : node[ChapterNode(j)] # "pending"
      /\ Cardinality(Writing) < MaxWorkers
      /\ handle' = Opened
      /\ \E free \in SUBSET Said :
           LET handler == Route(n, MessageWords(n, Usable, free))
           IN  /\ route' = [route EXCEPT ![n] = handler]
               /\ node' = [node EXCEPT ![n] =
                             IF handler = MainHandler("content_generator")
                             THEN "executing" ELSE "completed"]
      /\ ownOutline' = ownOutline \cup IF Usable THEN {i} \cap outlines ELSE {}
      /\ UNCHANGED <<lengthNamed, texts, reviewed, server, madeVars, stored, files,
                     wasDown, callVars>>

\* The thread asks for the next section.
AskSection(i) ==
  /\ i \in Writing
  /\ Len(texts[i]) < SectionCount
  /\ Ask(i, Prompt(i, Len(texts[i]) + 1))
  /\ UNCHANGED <<nodeVars, storeVars>>

ModelReturns(i) == ClientReturns(i) /\ UNCHANGED <<nodeVars, storeVars>>

\* Mutant of TakeSection: an empty text is a section like any other.
TakeAnySection(i) ==
  /\ call[i].at = "answered"
  /\ call' = [call EXCEPT ![i] = Idle]
  /\ \/ /\ call[i].answer # Nothing
        /\ texts' = [texts EXCEPT ![i] = Append(@, call[i].answer)]
        /\ UNCHANGED node
     \/ /\ call[i].answer = Nothing
        /\ node' = [node EXCEPT ![ChapterNode(i)] = "failed"]
        /\ UNCHANGED texts
  /\ UNCHANGED <<route, lengthNamed, ownOutline, reviewed, storeVars, held, lru, old,
                 written>>

\* Mutant of TakeSection: an empty answer is asked for again.
TakeSectionOrAskAgain(i) ==
  LET text == call[i].answer
  IN  /\ call[i].at = "answered"
      /\ call' = [call EXCEPT ![i] = Idle]
      /\ texts' = IF text \in {Nothing, Blank(call[i].key)} THEN texts
                  ELSE [texts EXCEPT ![i] = Append(@, text)]
      /\ UNCHANGED <<node, route, lengthNamed, ownOutline, reviewed, storeVars, held,
                     lru, old, written>>

\* A text becomes the section; without one, the empty one included, the
\* handler raises an error that is not tried again.
TakeSection(i) ==
  LET text == call[i].answer
  IN  /\ call[i].at = "answered"
      /\ call' = [call EXCEPT ![i] = Idle]
      /\ \/ /\ text \notin {Nothing, Blank(call[i].key)}
            /\ texts' = [texts EXCEPT ![i] = Append(@, text)]
            /\ UNCHANGED node
         \/ /\ text \in {Nothing, Blank(call[i].key)}
            /\ node' = [node EXCEPT ![ChapterNode(i)] = "failed"]
            /\ UNCHANGED texts
      /\ UNCHANGED <<route, lengthNamed, ownOutline, reviewed, storeVars, held, lru, old,
                     written>>

\* All sections are there: the chapter is saved, and completed in any case.
FinishChapter(i) ==
  /\ i \in Writing
  /\ Len(texts[i]) = SectionCount
  /\ SaveChapter(i)
  /\ node' = [node EXCEPT ![ChapterNode(i)] = "completed"]
  /\ UNCHANGED <<route, lengthNamed, ownOutline, texts, reviewed, server, madeVars,
                 wasDown, callVars>>

ChapterSteps(i) ==
  AskSection(i) \/ ModelReturns(i) \/ TakeSection(i) \/ FinishChapter(i)

EntriesAge == (\E S \in SUBSET Prompts : Age(S)) /\ UNCHANGED <<nodeVars, storeVars>>

NovelNext ==
  \/ ServerChanges
  \/ EntriesAge
  \/ \E n \in PlanNodes : RunAgent(n) \/ AgentRaises(n)
  \/ \E i \in Chapters : BeginChapter(i) \/ ChapterSteps(i)

NovelSpec == NovelInit /\ [][NovelNext]_novelVars

\* A thread runs, and a client's call ends, with a text or at its timeout.
NovelFairness == \A i \in Chapters : WF_novelVars(ChapterSteps(i))

NovelFairSpec == NovelSpec /\ NovelFairness

-----------------------------------------------------------------------------
(* Properties.                                                               *)

\* Every agent of the workflow does the work the plan gives it: whatever the
\* request, the answers and the chapters say, the words of its message select
\* that handler. The coordinator's own words for a chapter do not: the chapters
\* rely on what the agents before them always answer. (The agents of ModelOnly
\* have no other handler that could be selected.)
MainHandlers ==
  \A n \in PlanNodes : route[n] \in {"none", MainHandler(n[1])}

\* Unless outline_planner's message names a length, brings JSON or an answer's
\* own number of chapters, a chapter that is begun finds its own outline if the
\* database has always answered.
OutlineFound ==
  \A i \in Chapters :
    node[ChapterNode(i)] # "pending" /\ ~wasDown /\ ~lengthNamed
      => i \in ownOutline

\* A stored chapter is whole: it belongs to a completed node, and each of its
\* sections is a text the model wrote for that chapter and that many words,
\* whatever the threads, the evictions and the expiries did to the cache.
StoredWhole ==
  \A i \in stored \cup files :
    /\ node[ChapterNode(i)] = "completed"
    /\ \A s \in 1 .. SectionCount :
         /\ texts[i][s][1] = <<i, SectionTargets[s]>>
         /\ texts[i][s][2] > 0

\* As long as MongoDB answers, what a completed agent made is in it, whatever
\* becomes of Neo4j: chapters, and, since the characters came first and paid
\* for a Neo4j that could not be reached, places and an outline of every
\* chapter that was planned.
StoreKeeps ==
  ~wasDown =>
    /\ \A i \in Chapters : node[ChapterNode(i)] = "completed" => i \in stored
    /\ node[Agent("character_generator")] = "completed"
         /\ node[Agent("world_builder")] = "completed" => places
    /\ node[Agent("outline_planner")] = "completed" =>
         \E n \in {LongOutline, ShortOutline, DefaultOutline, ChapterCount} \cup OwnOutlines :
           outlines = 1 .. n

\* A chapter that is being written ends: it is completed or it fails.
ChaptersEnd ==
  \A i \in Chapters : i \in Writing ~> i \notin Writing

\* What the comment at the save promises: without MongoDB the chapter of a
\* completed node is in a file.
ChapterKept ==
  \A i \in Chapters :
    node[ChapterNode(i)] = "completed" => i \in stored \cup files

\* What the README says of quality_checker: it checks the chapters.
ChaptersReviewed ==
  node[Agent("quality_checker")] = "completed" => stored \cap 1 .. 3 \subseteq reviewed
=============================================================================
